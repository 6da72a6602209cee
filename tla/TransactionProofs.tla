--------------------------- MODULE TransactionProofs ---------------------------
(***************************************************************************)
(* The services that write their tables in sessions of their own: what     *)
(* they keep for any number of requests, in any interleaving of their      *)
(* SELECTs, flushes and commits; and what a client finds who reads such a  *)
(* table page by page meanwhile.                                           *)
(***************************************************************************)
EXTENDS EvaluationGate, PromptLibrary, Accounts, Resources, Listings,
        FiniteSetTheorems, SequenceTheorems, FunctionTheorems, TLAPS

------------------------------------------------------------------------------
(***************************************************************************)
(* Evaluation and quality gate                                             *)
(***************************************************************************)

RunStatus == {"running", "succeeded", "failed", "cancelled"}

\* Whatever an agent ends with, run and task end in a status of theirs.
LEMMA OutcomeType ==
  ASSUME NEW outcome \in EchoOutcomes \cup DocumentationOutcomes
  PROVE  /\ outcome = <<outcome[1], outcome[2]>>
         /\ outcome[1] \in RunStatus \ {"running"}
         /\ outcome[2] \in {"awaiting_approval", "failed", "cancelled"}
         /\ outcome[2] \in TaskStatus
<1>1. \A clean \in BOOLEAN : \A reported \in {"completed", "failed", "cancelled"} :
        \/ Outcome(reported, clean) = <<"succeeded", "awaiting_approval">>
        \/ Outcome(reported, clean) = <<"succeeded", "failed">>
        \/ Outcome(reported, clean) = <<"failed", "failed">>
        \/ Outcome(reported, clean) = <<"cancelled", "cancelled">>
  BY DEF Outcome
<1>2. \E clean \in BOOLEAN : \E reported \in {"completed", "failed", "cancelled"} :
        outcome = Outcome(reported, clean)
  <2>1. CASE outcome \in EchoOutcomes
    BY <2>1 DEF EchoOutcomes
  <2>2. CASE outcome \in DocumentationOutcomes
    BY <2>2 DEF DocumentationOutcomes
  <2>. QED  BY <2>1, <2>2
<1>. QED  BY <1>1, <1>2 DEF RunStatus, TaskStatus

\* A report has a status of the enumeration, and says whether it is clean.
LEMMA ReportType ==
  ASSUME NEW type, NEW r \in Reports(type)
  PROVE  r.status \in EvaluationStatus /\ r.clean \in BOOLEAN
<1>1. \A scores : /\ AllScoresMustPass(scores).status \in EvaluationStatus
                  /\ AllScoresMustPass(scores).clean \in BOOLEAN
  BY DEF AllScoresMustPass, EvaluationStatus
<1>2. CASE r = ErrorReport
  BY <1>2 DEF ErrorReport, EvaluationStatus
<1>3. CASE r = PendingReport
  BY <1>3 DEF PendingReport, EvaluationStatus
<1>4. CASE r \in [status : {"passed", "failed"}, clean : BOOLEAN, fits : BOOLEAN]
  BY <1>4 DEF EvaluationStatus
<1>5. CASE r \in PerformanceReports
  <2>1. \E scores : r = AllScoresMustPass(scores)
    BY <1>5, SMT DEF PerformanceReports
  <2>. QED  BY <1>1, <2>1
<1>6. CASE r \in EchoJudgeReports
  <2>1. \E scores : r = AllScoresMustPass(scores)
    BY <1>6, Zenon DEF EchoJudgeReports
  <2>. QED  BY <1>1, <2>1
<1>7. CASE r \in UnitTestReports
  <2>1. r = ErrorReport \/ \E scores : r = AllScoresMustPass(scores)
    BY <1>7, SMT DEF UnitTestReports
  <2>. QED  BY <1>1, <1>2, <2>1
<1>. QED
  BY <1>2, <1>3, <1>4, <1>5, <1>6, <1>7 DEF Reports

\* N is what a wave of g adds, and place is where the request goes from there.
Adds(g, wave, N, place) ==
  /\ \A e \in N : e.trigger = g /\ e.run = trig[g].run /\ e.type \in trig[g].types \cap wave
  /\ \A t \in trig[g].types \cap wave : \E e \in N : e.type = t
  /\ \A e, f \in N : e.type = f.type => e = f
  /\ place = IF \/ wave = LLMAssisted
                \/ trig[g].failFast /\ SomeFailed(trig[g].rows \cup N)
             THEN "commit" ELSE "llm_assisted"
  /\ trig' = [trig EXCEPT ![g] = [trig[g] EXCEPT !.rows = trig[g].rows \cup N, !.pc = place]]

\* A wave ends the request, or adds one row of each of its types and moves on.
LEMMA WaveAddsRows ==
  ASSUME GateTypeOK, NEW g \in Triggers, NEW wave, RunWave(g, wave),
         trig[g].pc \in InFlight, trig[g].run \in 1..MaxRuns
  PROVE  \/ trig' = [trig EXCEPT ![g] = Idle("failed")]
         \/ \E N \in SUBSET EvaluationRow, place \in InFlight : Adds(g, wave, N, place)
<1> DEFINE W == trig[g].types \cap wave
           EvaluatedRow(t, r) ==
             [trigger |-> g, run |-> trig[g].run, type |-> t,
              status |-> r.status, clean |-> r.clean]
<1>1. PICK report \in [W -> UNION {Reports(t) : t \in W}] :
        /\ \A t \in W : report[t] \in Reports(t)
        /\ LET whole == trig[g].rows \cup {EvaluatedRow(t, report[t]) : t \in W} IN
           trig' = [trig EXCEPT ![g] =
             IF \A t \in W : report[t].fits
             THEN [trig[g] EXCEPT !.rows = whole,
                     !.pc = IF wave = LLMAssisted \/ (trig[g].failFast /\ SomeFailed(whole))
                            THEN "commit" ELSE "llm_assisted"]
             ELSE Idle("failed")]
  BY Zenon DEF RunWave
<1> DEFINE N == {EvaluatedRow(t, report[t]) : t \in W}
<1>2. W \subseteq EvaluatorType
  BY DEF GateTypeOK, RequestState
<1>3. \A t \in W : EvaluatedRow(t, report[t]) \in EvaluationRow
  BY <1>1, <1>2, ReportType DEF EvaluationRow
<1>4. N \in SUBSET EvaluationRow
  BY <1>3
<1>5. \A e \in N : e.trigger = g /\ e.run = trig[g].run /\ e.type \in W
  OBVIOUS
<1>6. \A t \in W : \E e \in N : e.type = t
  <2>1. \A t \in W : EvaluatedRow(t, report[t]) \in N /\ EvaluatedRow(t, report[t]).type = t
    OBVIOUS
  <2>. QED  BY <2>1, Zenon
<1>7. \A e, f \in N : e.type = f.type => e = f
  OBVIOUS
<1>8. CASE \A t \in W : report[t].fits
  <2> DEFINE place == IF \/ wave = LLMAssisted
                         \/ trig[g].failFast /\ SomeFailed(trig[g].rows \cup N)
                      THEN "commit" ELSE "llm_assisted"
  <2>1. trig' = [trig EXCEPT ![g] = [trig[g] EXCEPT !.rows = trig[g].rows \cup N, !.pc = place]]
    BY <1>1, <1>8
  <2>2. place \in InFlight
    BY DEF InFlight
  <2>3. place = IF \/ wave = LLMAssisted
                   \/ trig[g].failFast /\ SomeFailed(trig[g].rows \cup N)
                THEN "commit" ELSE "llm_assisted"
    OBVIOUS
  <2> HIDE DEF N, place
  <2>4. Adds(g, wave, N, place)
    BY <2>1, <2>3, <1>5, <1>6, <1>7, Zenon DEF Adds
  <2>. QED  BY <2>2, <2>4, <1>4
<1>9. CASE ~ \A t \in W : report[t].fits
  BY <1>1, <1>9
<1>. QED  BY <1>8, <1>9

------------------------------------------------------------------------------

\* What is evaluated, by a request under way or one that is committed, is a
\* run that has succeeded.
Targets ==
  /\ \A g \in Triggers : trig[g].pc \in InFlight =>
       /\ trig[g].run \in DOMAIN runs
       /\ runs[trig[g].run] = "succeeded"
       /\ \A e \in trig[g].rows : e.run = trig[g].run
  /\ \A e \in evals : e.run \in DOMAIN runs /\ runs[e.run] = "succeeded"

GateInv == GateTypeOK /\ Len(runs) <= MaxRuns /\ Targets

LEMMA IdleType ==
  ASSUME NEW place \in {"new", "done", "failed"}
  PROVE  Idle(place) \in RequestState
<1>1. 0 \in 0..MaxRuns /\ {} \in SUBSET EvaluatorType /\ {} \in SUBSET EvaluationRow
  BY RunsAreBounded
<1>. QED  BY <1>1 DEF Idle, RequestState

LEMMA GateInvInit == GateInit => GateInv
<1> SUFFICES ASSUME GateInit PROVE GateInv
  OBVIOUS
<1>2. trig \in [Triggers -> RequestState]
  BY IdleType DEF GateInit
<1>3. GateTypeOK
  <2>1. 0 \in 0..MaxRuns /\ runs \in Seq(RunStatus)
    BY RunsAreBounded DEF GateInit
  <2>. QED  BY <1>2, <2>1 DEF GateInit, GateTypeOK, TaskStatus, RunStatus
<1>4. Targets
  BY DEF GateInit, Targets, Idle, InFlight
<1>. QED  BY <1>3, <1>4, RunsAreBounded DEF GateInit, GateInv

\* A request that goes on, with or without its commit.
LEMMA RequestStep ==
  ASSUME GateInv, NEW g \in Triggers, NEW next \in RequestState,
         trig' = [trig EXCEPT ![g] = next],
         next.pc \in InFlight =>
           /\ next.run \in DOMAIN runs /\ runs[next.run] = "succeeded"
           /\ \A e \in next.rows : e.run = next.run,
         \/ evals' = evals
         \/ evals' = evals \cup trig[g].rows /\ trig[g].pc \in InFlight,
         UNCHANGED <<work, runs, producer, backdated>>
  PROVE  GateInv'
<1>1. trig' \in [Triggers -> RequestState]
  BY DEF GateInv, GateTypeOK
<1>2. trig[g].rows \subseteq EvaluationRow
  BY DEF GateInv, GateTypeOK, RequestState
<1>3. GateTypeOK'
  BY <1>1, <1>2 DEF GateInv, GateTypeOK
<1>4. Targets'
  <2>1. ASSUME NEW h \in Triggers, trig'[h].pc \in InFlight
        PROVE  /\ trig'[h].run \in DOMAIN runs
               /\ runs[trig'[h].run] = "succeeded"
               /\ \A e \in trig'[h].rows : e.run = trig'[h].run
    BY <2>1 DEF GateInv, GateTypeOK, Targets
  <2>2. \A e \in evals' : e.run \in DOMAIN runs /\ runs[e.run] = "succeeded"
    BY DEF GateInv, Targets
  <2>. QED  BY <2>1, <2>2 DEF Targets
<1>. QED  BY <1>3, <1>4 DEF GateInv

\* A request arrives, is refused, or fails and is rolled back.
LEMMA TriggerStep ==
  ASSUME GateInv, NEW g \in Triggers,
         PostEvaluations(g) \/ TriggerFailingFast(g) \/ TriggerFails(g)
  PROVE  GateInv'
<1> DEFINE Refused == Idle("failed")
<1>0. Refused \in RequestState /\ Refused.pc \notin InFlight
  BY IdleType DEF Idle, InFlight
<1>1. CASE TriggerFails(g)
  BY <1>0, <1>1, RequestStep DEF TriggerFails
<1>2. CASE PostEvaluations(g) \/ TriggerFailingFast(g)
  <2>1. PICK r \in DOMAIN runs, types \in Asked[g], failFast \in BOOLEAN : Trigger(g, r, types, failFast)
    BY <1>2 DEF PostEvaluations, TriggerFailingFast
  <2> DEFINE Accepted == [pc |-> "deterministic", run |-> r, types |-> types,
                          failFast |-> failFast, rows |-> {}]
  <2>2. r \in 0..MaxRuns /\ types \in SUBSET EvaluatorType
    BY TypesAreKnown, RunsAreBounded DEF GateInv, GateTypeOK
  <2>3. Accepted \in RequestState /\ Accepted.run = r /\ Accepted.rows = {}
    BY <2>2 DEF RequestState, InFlight
  <2>4. UNCHANGED <<work, runs, evals, producer, backdated>>
    BY <2>1 DEF Trigger
  <2>5. CASE trig' = [trig EXCEPT ![g] = Refused]
    BY <1>0, <2>4, <2>5, RequestStep
  <2>6. CASE runs[r] = "succeeded" /\ trig' = [trig EXCEPT ![g] = Accepted]
    <3> HIDE DEF Accepted
    <3>. QED  BY <2>3, <2>4, <2>6, RequestStep
  <2>. QED  BY <2>1, <2>5, <2>6 DEF Trigger
<1>. QED  BY <1>1, <1>2

\* A wave adds rows for the run of its request.
LEMMA WaveStep ==
  ASSUME GateInv, NEW g \in Triggers, RunDeterministic(g) \/ RunLLMAssisted(g)
  PROVE  GateInv'
<1>1. PICK wave : RunWave(g, wave) /\ trig[g].pc \in InFlight
  BY DEF RunDeterministic, RunLLMAssisted, InFlight
<1>2. trig[g].run \in 1..MaxRuns
  BY <1>1, RunsAreBounded DEF GateInv, GateTypeOK, Targets
<1>3. UNCHANGED <<work, runs, evals, producer, backdated>>
  BY <1>1 DEF RunWave
<1>4. CASE trig' = [trig EXCEPT ![g] = Idle("failed")]
  <2>1. Idle("failed").pc \notin InFlight
    BY DEF Idle, InFlight
  <2>. QED  BY <1>3, <1>4, <2>1, IdleType, RequestStep
<1>5. ASSUME NEW N \in SUBSET EvaluationRow, NEW place \in InFlight,
             \A e \in N : e.run = trig[g].run,
             trig' = [trig EXCEPT ![g] = [trig[g] EXCEPT !.rows = trig[g].rows \cup N, !.pc = place]]
      PROVE  GateInv'
  <2> DEFINE next == [trig[g] EXCEPT !.rows = trig[g].rows \cup N, !.pc = place]
  <2>1. trig[g] \in RequestState
    BY DEF GateInv, GateTypeOK
  <2>2. /\ next \in RequestState
        /\ next.run = trig[g].run
        /\ next.rows = trig[g].rows \cup N
    BY <2>1 DEF RequestState
  <2>3. /\ next.run \in DOMAIN runs /\ runs[next.run] = "succeeded"
        /\ \A e \in next.rows : e.run = next.run
    BY <1>1, <1>5, <2>2 DEF GateInv, Targets
  <2>4. trig' = [trig EXCEPT ![g] = next]
    BY <1>5
  <2> HIDE DEF next
  <2>. QED  BY <1>3, <2>2, <2>3, <2>4, RequestStep
<1>6. GateTypeOK
  BY DEF GateInv
<1>7. CASE trig' # [trig EXCEPT ![g] = Idle("failed")]
  <2>1. PICK N \in SUBSET EvaluationRow, place \in InFlight : Adds(g, wave, N, place)
    BY <1>1, <1>2, <1>6, <1>7, WaveAddsRows
  <2>. QED  BY <1>5, <2>1 DEF Adds
<1>. QED  BY <1>4, <1>7

LEMMA GateCommitStep ==
  ASSUME GateInv, NEW g \in Triggers, CommitTrigger(g)
  PROVE  GateInv'
<1>1. Idle("done").pc \notin InFlight
  BY DEF Idle, InFlight
<1>2. trig[g].pc \in InFlight
  BY DEF CommitTrigger, InFlight
<1>. QED  BY <1>1, <1>2, IdleType, RequestStep DEF CommitTrigger

\* While runs come and go, one that has succeeded stays as it is.
LEMMA TargetsStay ==
  ASSUME GateInv, UNCHANGED <<evals, trig>>,
         \A r \in DOMAIN runs : runs[r] = "succeeded" => r \in DOMAIN runs' /\ runs'[r] = "succeeded"
  PROVE  Targets'
  BY DEF GateInv, Targets

\* A run that has succeeded is neither retried nor settled again.
LEMMA RunsStep ==
  ASSUME GateInv, \/ StartRun
                  \/ \E r \in DOMAIN runs : RetryRun(r) \/ Settle(r)
                  \/ \E to \in TaskStatus : MoveWork(to)
  PROVE  GateInv'
<1>1. CASE StartRun
  <2>1. /\ runs' \in Seq(RunStatus) /\ Len(runs') <= MaxRuns
        /\ \A r \in DOMAIN runs : r \in DOMAIN runs' /\ runs'[r] = runs[r]
    BY <1>1, RunsAreBounded DEF StartRun, GateInv, GateTypeOK, RunStatus
  <2>2. Targets'
    BY <1>1, <2>1, TargetsStay DEF StartRun
  <2>3. GateTypeOK'
    BY <1>1, <2>1 DEF StartRun, GateInv, GateTypeOK, RunStatus, TaskStatus
  <2>. QED  BY <2>1, <2>2, <2>3 DEF GateInv
<1>2. ASSUME NEW r \in DOMAIN runs, RetryRun(r) PROVE GateInv'
  <2>1. /\ runs' \in Seq(RunStatus) /\ Len(runs') = Len(runs) /\ DOMAIN runs' = DOMAIN runs
        /\ \A q \in DOMAIN runs : runs[q] = "succeeded" => runs'[q] = runs[q]
    BY <1>2 DEF RetryRun, GateInv, GateTypeOK, RunStatus
  <2>2. Targets'
    BY <1>2, <2>1, TargetsStay DEF RetryRun
  <2>3. GateTypeOK'
    <3>1. (r # Len(runs)) \in BOOLEAN
      OBVIOUS
    <3>. QED  BY <1>2, <2>1, <3>1 DEF RetryRun, GateInv, GateTypeOK, RunStatus, TaskStatus
  <2>. QED  BY <2>1, <2>2, <2>3 DEF GateInv
<1>3. ASSUME NEW r \in DOMAIN runs, Settle(r) PROVE GateInv'
  <2>1. PICK outcome \in EchoOutcomes \cup DocumentationOutcomes :
          /\ runs' = [runs EXCEPT ![r] = outcome[1]]
          /\ work' = outcome[2]
          /\ producer' = IF outcome[2] = "awaiting_approval" THEN r ELSE producer
    BY <1>3 DEF Settle
  <2>2. outcome[1] \in RunStatus /\ outcome[2] \in TaskStatus
    BY OutcomeType
  <2>3. /\ runs' \in Seq(RunStatus) /\ Len(runs') = Len(runs) /\ DOMAIN runs' = DOMAIN runs
        /\ \A q \in DOMAIN runs : runs[q] = "succeeded" => runs'[q] = runs[q]
    BY <1>3, <2>1, <2>2 DEF Settle, GateInv, GateTypeOK, RunStatus
  <2>4. r \in 0..MaxRuns
    BY RunsAreBounded DEF GateInv, GateTypeOK
  <2>5. Targets'
    BY <1>3, <2>3, TargetsStay DEF Settle
  <2>6. GateTypeOK'
    BY <1>3, <2>1, <2>2, <2>3, <2>4 DEF Settle, GateInv, GateTypeOK, RunStatus
  <2>. QED  BY <2>3, <2>5, <2>6 DEF GateInv
<1>4. ASSUME NEW to \in TaskStatus, MoveWork(to) PROVE GateInv'
  <2>1. Targets'
    BY <1>4, TargetsStay DEF MoveWork
  <2>2. GateTypeOK'
    BY <1>4 DEF MoveWork, GateInv, GateTypeOK
  <2>. QED  BY <1>4, <2>1, <2>2 DEF MoveWork, GateInv
<1>. QED  BY <1>1, <1>2, <1>3, <1>4

LEMMA GateInvStep == GateInv /\ [GateNext]_gateVars => GateInv'
<1> SUFFICES ASSUME GateInv, [GateNext]_gateVars PROVE GateInv'
  OBVIOUS
<1>1. CASE UNCHANGED gateVars
  BY <1>1 DEF gateVars, GateInv, GateTypeOK, Targets
<1>2. CASE GateNext
  BY <1>2, TriggerStep, WaveStep, GateCommitStep, RunsStep DEF GateNext
<1>. QED  BY <1>1, <1>2

LEMMA GateInvHolds == GateSpec => []GateInv
  BY GateInvInit, GateInvStep, PTL DEF GateSpec

\* Every action of the evaluation and of the task keeps the variables in
\* their types.
THEOREM GateTypeCorrect == GateSpec => []GateTypeOK
<1>1. GateInv => GateTypeOK
  BY DEF GateInv
<1>. QED  BY <1>1, GateInvHolds, PTL

\* No run that has an evaluation is ever run again: trigger_evaluation takes
\* runs that have succeeded, and no operation leads from there.
THEOREM EvaluatedIsFinal == GateSpec => []EvaluatedRunsAreFinal
<1>1. GateInv => EvaluatedRunsAreFinal
  BY DEF GateInv, Targets, EvaluatedRunsAreFinal
<1>. QED  BY <1>1, GateInvHolds, PTL

------------------------------------------------------------------------------

\* One run of the task is under way at a time, the latest unless an older one
\* was retried; what awaits approval, or has it, came from that one.
OneRunAtATime ==
  /\ work # "evaluating"
  /\ work # "running" => \A r \in DOMAIN runs : runs[r] # "running"
  /\ \A q, r \in DOMAIN runs : runs[q] = "running" /\ runs[r] = "running" => q = r
  /\ ~ backdated => \A r \in DOMAIN runs : runs[r] = "running" => r = Len(runs)
  /\ work \in {"awaiting_approval", "approved", "merged"} /\ ~ backdated => producer = Len(runs)

LEMMA OneRunInit == GateInit => OneRunAtATime
  BY DEF GateInit, OneRunAtATime

\* Work starts on a task that is ready or, in a retry, has failed: no run of
\* it is under way then.
LEMMA OneRunStep ==
  ASSUME GateTypeOK, OneRunAtATime, [GateNext]_gateVars
  PROVE  OneRunAtATime'
<1>1. CASE UNCHANGED <<work, runs, producer, backdated>>
  BY <1>1 DEF OneRunAtATime
<1>2. CASE StartRun
  <2>1. work = "ready"
    BY <1>2 DEF StartRun, IsLegalTaskTransition, TaskTransitions
  <2>2. /\ Len(runs') = Len(runs) + 1 /\ DOMAIN runs' = 1..(Len(runs) + 1)
        /\ \A r \in 1..(Len(runs) + 1) : runs'[r] = "running" => r = Len(runs')
    BY <1>2, <2>1 DEF StartRun, GateTypeOK, OneRunAtATime
  <2>. QED  BY <1>2, <2>2 DEF StartRun, OneRunAtATime
<1>3. ASSUME NEW r \in DOMAIN runs, RetryRun(r) PROVE OneRunAtATime'
  <2>1. work # "running"
    BY <1>3 DEF RetryRun, IsLegalTaskTransition, TaskTransitions
  <2>2. /\ Len(runs') = Len(runs) /\ DOMAIN runs' = DOMAIN runs
        /\ \A q \in DOMAIN runs : runs'[q] = "running" => q = r
    BY <1>3, <2>1 DEF RetryRun, GateTypeOK, OneRunAtATime
  <2>3. work' = "running" /\ (~ backdated' => r = Len(runs'))
    BY <1>3, <2>2 DEF RetryRun
  <2>. QED  BY <2>2, <2>3 DEF OneRunAtATime
<1>4. ASSUME NEW r \in DOMAIN runs, Settle(r) PROVE OneRunAtATime'
  <2>1. PICK outcome \in EchoOutcomes \cup DocumentationOutcomes :
          /\ runs' = [runs EXCEPT ![r] = outcome[1]]
          /\ work' = outcome[2]
          /\ producer' = IF outcome[2] = "awaiting_approval" THEN r ELSE producer
    BY <1>4 DEF Settle
  <2>2. runs[r] = "running" /\ backdated' = backdated
    BY <1>4 DEF Settle
  <2>3. /\ Len(runs') = Len(runs) /\ DOMAIN runs' = DOMAIN runs
        /\ \A q \in DOMAIN runs : runs'[q] # "running"
    <3>1. outcome[1] # "running"
      BY OutcomeType
    <3>. QED  BY <2>1, <2>2, <3>1 DEF GateTypeOK, OneRunAtATime
  <2>4. work' \in {"awaiting_approval", "failed", "cancelled"}
    BY <2>1, OutcomeType
  <2>5. ~ backdated' => r = Len(runs')
    BY <2>2, <2>3 DEF OneRunAtATime
  <2>. QED  BY <2>1, <2>3, <2>4, <2>5 DEF OneRunAtATime
<1>5. ASSUME NEW to \in TaskStatus, MoveWork(to) PROVE OneRunAtATime'
  <2>1. /\ work' \notin {"running", "evaluating", "awaiting_approval"}
        /\ work # "running"
        /\ work' \in {"approved", "merged"} => work \in {"awaiting_approval", "approved"}
    BY <1>5 DEF MoveWork, IsLegalTaskTransition, TaskTransitions, OneRunAtATime
  <2>. QED  BY <1>5, <2>1 DEF MoveWork, OneRunAtATime
<1>6. ASSUME NEW g \in Triggers,
             \/ PostEvaluations(g) \/ TriggerFailingFast(g)
             \/ RunDeterministic(g) \/ RunLLMAssisted(g) \/ CommitTrigger(g) \/ TriggerFails(g)
      PROVE  UNCHANGED <<work, runs, producer, backdated>>
  BY <1>6 DEF PostEvaluations, TriggerFailingFast, Trigger, RunDeterministic, RunLLMAssisted,
              RunWave, CommitTrigger, TriggerFails
<1>. QED
  BY <1>1, <1>2, <1>3, <1>4, <1>5, <1>6 DEF GateNext, gateVars

\* Beside a result that is up for approval or approved, the gate shows passed
\* only if that very result was evaluated, unless an older run was retried:
\* compute_quality_gate looks at the run created last.
THEOREM GateIsOfTheResult == GateSpec => []GateJudgesTheResult
<1>1. OneRunAtATime => GateJudgesTheResult
  BY DEF OneRunAtATime, GateJudgesTheResult, LatestRun
<1>. QED  BY <1>1, OneRunInit, OneRunStep, GateTypeCorrect, PTL DEF GateSpec

------------------------------------------------------------------------------

\* The rows of a request are its own, one of each type it has come to: none
\* before the first wave, the first wave's before the second.
OwnRows(g) ==
  /\ trig[g].pc \in InFlight => \A e \in trig[g].rows : e.trigger = g /\ e.run = trig[g].run
  /\ \A e, f \in trig[g].rows : e.type = f.type => e = f
  /\ trig[g].pc \notin InFlight \/ trig[g].pc = "deterministic" => trig[g].rows = {}
  /\ trig[g].pc = "llm_assisted" =>
       {e.type : e \in trig[g].rows} = trig[g].types \cap Deterministic
  /\ trig[g].pc = "commit" =>
       \/ {e.type : e \in trig[g].rows} = trig[g].types
       \/ /\ trig[g].failFast /\ SomeFailed(trig[g].rows)
          /\ {e.type : e \in trig[g].rows} = trig[g].types \cap Deterministic

\* What is stored is of requests that are done.
Whole ==
  /\ \A g \in Triggers : OwnRows(g)
  /\ \A e \in evals : trig[e.trigger].pc = "done"

LEMMA WholeInit == GateInit => Whole
  BY DEF GateInit, Whole, OwnRows, Idle, InFlight

\* A request that is not done moves: only its own rows are in question.
LEMMA WholeMove ==
  ASSUME GateTypeOK, Whole, NEW g \in Triggers, NEW next \in RequestState,
         trig[g].pc # "done",
         trig' = [trig EXCEPT ![g] = next],
         OwnRows(g)',
         \A e \in evals' \ evals : e.trigger = g /\ next.pc = "done",
         evals' \subseteq EvaluationRow
  PROVE  Whole'
<1>1. /\ \A h \in Triggers \ {g} : trig'[h] = trig[h]
      /\ trig'[g] = next
  BY DEF GateTypeOK
<1>2. \A h \in Triggers : OwnRows(h)'
  <2>1. ASSUME NEW h \in Triggers, h # g PROVE OwnRows(h)'
    <3>1. trig'[h] = trig[h] /\ OwnRows(h)
      BY <1>1, <2>1 DEF Whole
    <3>. QED  BY <3>1 DEF OwnRows, SomeFailed
  <2>. QED  BY <2>1
<1>3. \A e \in evals' : e.trigger \in Triggers
  BY DEF EvaluationRow
<1>4. \A e \in evals' : trig'[e.trigger].pc = "done"
  BY <1>1, <1>3 DEF Whole
<1>. QED  BY <1>2, <1>4 DEF Whole

\* After its wave a request has one row of each type of the waves so far.
LEMMA WholeWave ==
  ASSUME GateInv, Whole, NEW g \in Triggers, RunDeterministic(g) \/ RunLLMAssisted(g)
  PROVE  Whole'
<1> DEFINE old == trig[g]
<1>1. PICK wave \in {Deterministic, LLMAssisted} :
        /\ RunWave(g, wave)
        /\ old.pc = IF wave = Deterministic THEN "deterministic" ELSE "llm_assisted"
  BY DEF RunDeterministic, RunLLMAssisted, Deterministic, LLMAssisted
<1>2. /\ old.pc \in InFlight /\ old.pc # "done"
      /\ old.run \in 1..MaxRuns /\ old.types \subseteq EvaluatorType
      /\ old.rows \subseteq EvaluationRow
      /\ old \in RequestState
  BY <1>1, RunsAreBounded DEF GateInv, GateTypeOK, Targets, InFlight, RequestState
<1>3. evals' = evals /\ evals \subseteq EvaluationRow /\ GateTypeOK
  BY <1>1 DEF RunWave, GateInv, GateTypeOK
<1>4. CASE trig' = [trig EXCEPT ![g] = Idle("failed")]
  <2>1. trig'[g] = Idle("failed")
    BY <1>3, <1>4 DEF GateTypeOK
  <2>2. OwnRows(g)'
    BY <2>1 DEF OwnRows, Idle, InFlight
  <2>. QED  BY <1>2, <1>3, <1>4, <2>2, IdleType, WholeMove
<1>5. ASSUME NEW N \in SUBSET EvaluationRow, NEW place \in InFlight, Adds(g, wave, N, place)
      PROVE  Whole'
  <2> DEFINE next == [old EXCEPT !.rows = old.rows \cup N, !.pc = place]
  <2>1. trig' = [trig EXCEPT ![g] = next]
    BY <1>5 DEF Adds
  <2>2. /\ next \in RequestState
        /\ next.pc = place /\ next.rows = old.rows \cup N
        /\ next.run = old.run /\ next.types = old.types /\ next.failFast = old.failFast
    BY <1>2 DEF RequestState
  <2>3. trig'[g] = next
    BY <1>3, <2>1 DEF GateTypeOK
  <2> HIDE DEF next
  <2>4. \A e \in next.rows : e.trigger = g /\ e.run = next.run
    BY <1>2, <1>5, <2>2 DEF Adds, Whole, OwnRows
  <2>5. {e.type : e \in N} = old.types \cap wave
    BY <1>5 DEF Adds
  <2>6. {e.type : e \in next.rows} = {e.type : e \in old.rows} \cup (old.types \cap wave)
    BY <2>2, <2>5
  <2>7. CASE wave = Deterministic
    <3>1. old.rows = {}
      BY <1>1, <2>7 DEF Whole, OwnRows
    <3>2. next.rows = N
      BY <2>2, <3>1
    <3>3. \A e, f \in next.rows : e.type = f.type => e = f
      BY <1>5, <3>2 DEF Adds
    <3>4. {e.type : e \in next.rows} = next.types \cap Deterministic
      BY <2>2, <2>5, <2>7, <3>2
    <3>5. /\ place # "deterministic"
          /\ place = "commit" => next.failFast /\ SomeFailed(next.rows)
      <4>1. wave # LLMAssisted
        BY <2>7 DEF Deterministic, LLMAssisted
      <4>. QED  BY <1>5, <2>2, <4>1 DEF Adds
    <3>6. OwnRows(g)'
      BY <2>2, <2>3, <2>4, <3>3, <3>4, <3>5 DEF OwnRows, SomeFailed
    <3>. QED  BY <1>2, <1>3, <2>1, <2>2, <3>6, WholeMove
  <2>8. CASE wave = LLMAssisted
    <3>0. LLMAssisted # Deterministic
      BY DEF Deterministic, LLMAssisted
    <3>1. /\ {e.type : e \in old.rows} = old.types \cap Deterministic
          /\ \A e, f \in old.rows : e.type = f.type => e = f
      BY <1>1, <2>8, <3>0 DEF Whole, OwnRows
    <3>2. \A e \in old.rows : \A f \in N : e.type # f.type
      BY <1>5, <2>8, <3>1 DEF Adds, Deterministic, LLMAssisted
    <3>3. \A e, f \in next.rows : e.type = f.type => e = f
      BY <1>5, <2>2, <3>1, <3>2 DEF Adds
    <3>4. {e.type : e \in next.rows} = next.types
      BY <1>2, <2>2, <2>6, <2>8, <3>1 DEF EvaluatorType
    <3>5. place = "commit"
      BY <1>5, <2>8 DEF Adds
    <3>6. OwnRows(g)'
      BY <2>2, <2>3, <2>4, <3>3, <3>4, <3>5 DEF OwnRows, InFlight
    <3>. QED  BY <1>2, <1>3, <2>1, <2>2, <3>6, WholeMove
  <2>. QED  BY <1>1, <2>7, <2>8
<1>6. CASE trig' # [trig EXCEPT ![g] = Idle("failed")]
  <2>1. PICK N \in SUBSET EvaluationRow, place \in InFlight : Adds(g, wave, N, place)
    BY <1>1, <1>2, <1>3, <1>6, WaveAddsRows
  <2>. QED  BY <1>5, <2>1
<1>. QED  BY <1>4, <1>6

\* Arriving, failing and committing leave the request without rows.
LEMMA WholeOther ==
  ASSUME GateInv, Whole, NEW g \in Triggers,
         PostEvaluations(g) \/ TriggerFailingFast(g) \/ TriggerFails(g) \/ CommitTrigger(g)
  PROVE  Whole'
<1>1. GateTypeOK /\ OwnRows(g)
  BY DEF GateInv, Whole
<1>2. CASE TriggerFails(g)
  <2>1. /\ trig' = [trig EXCEPT ![g] = Idle("failed")] /\ evals' = evals
        /\ trig[g].pc # "done"
    BY <1>2 DEF TriggerFails, InFlight
  <2>2. OwnRows(g)'
    BY <1>1, <2>1 DEF OwnRows, Idle, InFlight, GateTypeOK
  <2>3. evals' \subseteq EvaluationRow
    BY <1>1, <2>1 DEF GateTypeOK
  <2>. QED  BY <1>1, <2>1, <2>2, <2>3, IdleType, WholeMove
<1>3. CASE CommitTrigger(g)
  <2>1. /\ trig' = [trig EXCEPT ![g] = Idle("done")] /\ evals' = evals \cup trig[g].rows
        /\ trig[g].pc # "done" /\ trig[g].pc \in InFlight
    BY <1>3 DEF CommitTrigger, InFlight
  <2>2. OwnRows(g)'
    BY <1>1, <2>1 DEF OwnRows, Idle, InFlight, GateTypeOK
  <2>3. evals' \subseteq EvaluationRow
    BY <1>1, <2>1 DEF GateTypeOK, RequestState
  <2>4. \A e \in evals' \ evals : e.trigger = g /\ Idle("done").pc = "done"
    BY <1>1, <2>1 DEF OwnRows, Idle
  <2>. QED  BY <1>1, <2>1, <2>2, <2>3, <2>4, IdleType, WholeMove
<1>4. CASE PostEvaluations(g) \/ TriggerFailingFast(g)
  <2>1. PICK r \in DOMAIN runs, types \in Asked[g], failFast \in BOOLEAN :
          Trigger(g, r, types, failFast) /\ Arrived(g)
    BY <1>4 DEF PostEvaluations, TriggerFailingFast
  <2>2. /\ evals' = evals /\ evals' \subseteq EvaluationRow /\ trig[g].pc # "done"
        /\ r \in 0..MaxRuns /\ types \in SUBSET EvaluatorType
    BY <1>1, <2>1, TypesAreKnown, RunsAreBounded DEF Trigger, Arrived, GateTypeOK, GateInv
  <2>3. PICK next \in RequestState :
          /\ trig' = [trig EXCEPT ![g] = next]
          /\ next.rows = {} /\ next.pc \in {"deterministic", "failed"}
    <3> DEFINE Accepted == [pc |-> "deterministic", run |-> r, types |-> types,
                            failFast |-> failFast, rows |-> {}]
    <3>1. Accepted \in RequestState /\ Accepted.rows = {} /\ Accepted.pc = "deterministic"
      BY <2>2 DEF RequestState, InFlight
    <3>2. Idle("failed") \in RequestState /\ Idle("failed").rows = {} /\ Idle("failed").pc = "failed"
      BY IdleType DEF Idle
    <3>3. \/ trig' = [trig EXCEPT ![g] = Accepted]
          \/ trig' = [trig EXCEPT ![g] = Idle("failed")]
      BY <2>1 DEF Trigger
    <3> HIDE DEF Accepted
    <3>. QED  BY <3>1, <3>2, <3>3
  <2>4. OwnRows(g)'
    BY <1>1, <2>3 DEF OwnRows, InFlight, GateTypeOK
  <2>. QED  BY <1>1, <2>2, <2>3, <2>4, WholeMove
<1>. QED  BY <1>2, <1>3, <1>4

LEMMA WholeStep ==
  ASSUME GateInv, Whole, [GateNext]_gateVars
  PROVE  Whole'
<1>1. CASE UNCHANGED <<evals, trig>>
  BY <1>1 DEF Whole, OwnRows, SomeFailed
<1>2. ASSUME \/ StartRun
             \/ \E r \in DOMAIN runs : RetryRun(r) \/ Settle(r)
             \/ \E to \in TaskStatus : MoveWork(to)
      PROVE  UNCHANGED <<evals, trig>>
  BY <1>2 DEF StartRun, RetryRun, Settle, MoveWork
<1>. QED  BY <1>1, <1>2, WholeWave, WholeOther DEF GateNext, gateVars

\* What is stored only grows, and what a commit adds is whole.
LEMMA CommitIsWhole ==
  ASSUME GateInv, Whole, [GateNext]_gateVars
  PROVE  /\ evals \subseteq evals'
         /\ \A g \in Triggers :
              LET whole == {e \in evals' \ evals : e.trigger = g}
                  types == {e.type : e \in whole}
              IN whole # {} =>
                   /\ \A e \in evals : e.trigger # g
                   /\ \A e \in whole : e.run = trig[g].run
                   /\ \A e, f \in whole : e.type = f.type => e = f
                   /\ \/ types = trig[g].types
                      \/ /\ trig[g].failFast /\ SomeFailed(whole)
                         /\ types = trig[g].types \cap Deterministic
<1>1. CASE evals' = evals
  BY <1>1
<1>2. ASSUME NEW g \in Triggers, CommitTrigger(g), evals' # evals
      PROVE  /\ evals' = evals \cup trig[g].rows
             /\ \A e \in trig[g].rows : e.trigger = g
             /\ trig[g].rows \cap evals = {}
             /\ \A e \in evals : e.trigger # g
  BY <1>2 DEF CommitTrigger, Whole, OwnRows, InFlight
<1>3. ASSUME NEW g \in Triggers, CommitTrigger(g), evals' # evals,
             NEW h \in Triggers, {e \in evals' \ evals : e.trigger = h} # {}
      PROVE  h = g /\ {e \in evals' \ evals : e.trigger = h} = trig[g].rows
  BY <1>2, <1>3
<1>4. ASSUME NEW g \in Triggers, CommitTrigger(g)
      PROVE  /\ \A e \in trig[g].rows : e.run = trig[g].run
             /\ \A e, f \in trig[g].rows : e.type = f.type => e = f
             /\ \/ {e.type : e \in trig[g].rows} = trig[g].types
                \/ /\ trig[g].failFast /\ SomeFailed(trig[g].rows)
                   /\ {e.type : e \in trig[g].rows} = trig[g].types \cap Deterministic
  BY <1>4 DEF CommitTrigger, Whole, OwnRows, InFlight
<1>5. evals' = evals \/ \E g \in Triggers : CommitTrigger(g)
  BY DEF GateNext, gateVars, PostEvaluations, TriggerFailingFast, Trigger, RunDeterministic,
         RunLLMAssisted, RunWave, TriggerFails, StartRun, RetryRun, Settle, MoveWork
<1>6. ASSUME NEW g \in Triggers, CommitTrigger(g), evals' # evals,
             NEW h \in Triggers, {e \in evals' \ evals : e.trigger = h} # {}
      PROVE  LET whole == {e \in evals' \ evals : e.trigger = h}
                 types == {e.type : e \in whole}
             IN /\ \A e \in evals : e.trigger # h
                /\ \A e \in whole : e.run = trig[h].run
                /\ \A e, f \in whole : e.type = f.type => e = f
                /\ \/ types = trig[h].types
                   \/ /\ trig[h].failFast /\ SomeFailed(whole)
                      /\ types = trig[h].types \cap Deterministic
  <2>1. h = g /\ {e \in evals' \ evals : e.trigger = h} = trig[g].rows
    BY <1>3, <1>6
  <2>2. \A e \in evals : e.trigger # g
    BY <1>2, <1>6
  <2>. QED  BY <1>4, <1>6, <2>1, <2>2
<1>7. CASE evals' # evals
  BY <1>2, <1>5, <1>6, <1>7
<1>. QED  BY <1>1, <1>7

\* Stored reports come whole: trigger_evaluations flushes wave after wave and
\* commits once, so that what is committed is one report of each type asked
\* for, or of the first wave when a failure cut the request short.
THEOREM TriggersAreWhole == GateSpec => TriggerIsWhole
<1>1. GateInv /\ Whole /\ [GateNext]_gateVars
      => [/\ evals \subseteq evals'
          /\ \A g \in Triggers :
               LET whole == {e \in evals' \ evals : e.trigger = g}
                   types == {e.type : e \in whole}
               IN whole # {} =>
                    /\ \A e \in evals : e.trigger # g
                    /\ \A e \in whole : e.run = trig[g].run
                    /\ \A e, f \in whole : e.type = f.type => e = f
                    /\ \/ types = trig[g].types
                       \/ /\ trig[g].failFast /\ SomeFailed(whole)
                          /\ types = trig[g].types \cap Deterministic]_gateVars
  BY CommitIsWhole
<1>. QED
  BY <1>1, WholeInit, WholeStep, GateInvHolds, PTL DEF GateSpec, TriggerIsWhole

------------------------------------------------------------------------------
(***************************************************************************)
(* Prompt Library                                                          *)
(***************************************************************************)

\* The rows a session may have written, and where it may be.
PartialRows == UNION {[W -> VersionRow] : W \in SUBSET Editors}
Plain == {"new", "insert_template", "read_max", "insert", "done", "failed"}
Places == Plain \cup {"find_active", "load", "flush", "commit"}
EditRecord ==
  [pc : Places, number : Nat, activate : BOOLEAN, todo : Seq(Editors \X BOOLEAN),
   seen : BOOLEAN, new : PartialRows]

PromptTypes ==
  /\ template \subseteq Editors
  /\ versions \in [Editors -> VersionRow \cup {NoVersion}]
  /\ edit \in [Editors -> EditRecord]

\* max(number) of the committed table, if numbers have no gaps.
StoredVersions == {v \in Editors : Present(versions[v])}
TopNumber == Cardinality(StoredVersions)

\* The committed table.
TableInv ==
  /\ IsFiniteSet(StoredVersions)
  /\ {versions[v].number : v \in StoredVersions} = 1..TopNumber
  /\ \A v, w \in ActiveVersions : v = w

\* What a session has written.
RowsOf(s) ==
  /\ edit[s].pc \in Plain => Written(s) = {}
  /\ edit[s].pc # "done" => ~ Present(versions[s])
  /\ edit[s].pc = "insert" => edit[s].number \in 1..(TopNumber + 1)
  /\ \A v \in Written(s) :
       IF v \in StoredVersions THEN edit[s].new[v].number = versions[v].number
       ELSE v = s /\ edit[s].new[v].number = TopNumber + 1

\* set_active's plan: the rows still to be switched, its target last.
Todo(s) == edit[s].todo
Target(s) == Todo(s)[Len(Todo(s))][1]

\* What set_active still has to do: switch off the row that is active, then
\* switch on the target.
PlansOf(s) ==
  /\ edit[s].pc \in Plain \cup {"commit"} => Todo(s) = <<>>
  /\ edit[s].pc = "find_active" =>
       /\ \/ Todo(s) = <<>> /\ Written(s) = {s}
          \/ Len(Todo(s)) = 1 /\ Todo(s)[1][2] /\ Written(s) = {} /\ Target(s) \in StoredVersions
       /\ \A v \in Written(s) : ~ edit[s].new[v].active
  /\ edit[s].pc \in {"load", "flush"} =>
       /\ Len(Todo(s)) \in {1, 2}
       /\ Todo(s)[Len(Todo(s))][2]
       /\ Target(s) \in Selected(s)
       /\ Len(Todo(s)) = 2 =>
            /\ ~ Todo(s)[1][2] /\ Todo(s)[1][1] # Target(s)
            /\ Todo(s)[1][1] \in StoredVersions
            /\ Written(s) \subseteq {s}

\* A row switched on is the only active one the session sees ...
SwitchedOn(s) ==
  \A v \in Written(s) : edit[s].new[v].active =>
    /\ edit[s].pc = "commit"
    /\ \A x \in Selected(s) : Select(s, x).active => x = v

\* ... and the row switched off for it is not the last.
SwitchedOff(s) ==
  \A v \in Written(s) : versions[v].active /\ ~ edit[s].new[v].active =>
    \/ /\ edit[s].pc \in {"load", "flush"} /\ Len(Todo(s)) = 1 /\ Target(s) # v
       /\ edit[s].pc = "flush" => ~ edit[s].seen
    \/ \E x \in Written(s) : edit[s].new[x].active

SessionInv(s) == RowsOf(s) /\ PlansOf(s) /\ SwitchedOn(s) /\ SwitchedOff(s)

\* What two sessions have written keeps apart.
Apart(s, o) ==
  /\ Written(s) \cap Written(o) = {}
  /\ ~ (s \in Written(s) /\ o \in Written(o))
  /\ (\E v \in Written(s) : edit[s].new[v].active) =>
       \A x \in Written(o) : ~ versions[x].active /\ ~ edit[o].new[x].active

\* The inductive invariant: of the table, of each session, of each two.
PromptInv ==
  /\ PromptTypes
  /\ TableInv
  /\ \A s \in Editors : SessionInv(s)
  /\ \A s, o \in Editors : s # o => Apart(s, o)

------------------------------------------------------------------------------

\* A session's rows with one more, and a session e that has written it.
WithRow(r, v, row) == [x \in DOMAIN r \cup {v} |-> IF x = v THEN row ELSE r[x]]
Wrote(e, s, v, row, pc) ==
  /\ e.pc = pc /\ e.number = edit[s].number /\ e.seen = edit[s].seen
  /\ e.todo = IF edit[s].todo = <<>> THEN <<>> ELSE Tail(edit[s].todo)
  /\ DOMAIN e.new = Written(s) \cup {v}
  /\ \A x \in Written(s) \cup {v} : e.new[x] = IF x = v THEN row ELSE edit[s].new[x]

LEMMA PartialRowsType ==
  ASSUME NEW r \in PartialRows
  PROVE  /\ DOMAIN r \subseteq Editors
         /\ r = [x \in DOMAIN r |-> r[x]]
         /\ \A x \in DOMAIN r : r[x] \in VersionRow
         /\ \A v \in Editors, row \in VersionRow : WithRow(r, v, row) \in PartialRows
<1>1. PICK W \in SUBSET Editors : r \in [W -> VersionRow]
  BY DEF PartialRows
<1>2. ASSUME NEW v \in Editors, NEW row \in VersionRow
      PROVE  [x \in DOMAIN r \cup {v} |-> IF x = v THEN row ELSE r[x]] \in [W \cup {v} -> VersionRow]
  BY <1>1
<1>3. ASSUME NEW v \in Editors, NEW row \in VersionRow
      PROVE  WithRow(r, v, row) \in PartialRows
  <2> DEFINE U == W \cup {v}
  <2>1. U \in SUBSET Editors /\ WithRow(r, v, row) \in [U -> VersionRow]
    BY <1>2 DEF WithRow
  <2> HIDE DEF U
  <2>. QED  BY <2>1 DEF PartialRows
<1>4. DOMAIN r = W
  BY <1>1
<1>. QED  BY <1>1, <1>3, <1>4

LEMMA EmptyRows == Nothing \in PartialRows /\ DOMAIN Nothing = {}
<1>1. Nothing \in [{} -> VersionRow] /\ DOMAIN Nothing = {}
  BY DEF Nothing
<1>. QED  BY <1>1 DEF PartialRows

LEMMA NoVersionFacts ==
  /\ NoVersion.number = 0 /\ ~ NoVersion.active /\ NoVersion \notin VersionRow
  /\ \A row \in VersionRow \cup {NoVersion} : Present(row) <=> row.number # 0
  /\ \A row \in VersionRow \cup {NoVersion} : Present(row) <=> row \in VersionRow
  /\ \A row \in VersionRow \cup {NoVersion} :
       row.number \in Nat /\ row.active \in BOOLEAN /\ (row.active => Present(row))
<1>1. NoVersion.number = 0 /\ NoVersion.active = FALSE
  BY DEF NoVersion
<1>2. ASSUME NEW row \in VersionRow
      PROVE  row.number \in Nat \ {0} /\ row.active \in BOOLEAN
  BY DEF VersionRow
<1>3. NoVersion \notin VersionRow
  BY <1>1, <1>2
<1>4. ASSUME NEW row \in VersionRow \cup {NoVersion}
      PROVE  /\ Present(row) <=> row.number # 0
             /\ Present(row) <=> row \in VersionRow
             /\ row.number \in Nat /\ row.active \in BOOLEAN /\ (row.active => Present(row))
  <2>1. CASE row = NoVersion
    <3>1. row.number \in Nat /\ row.number = 0 /\ row.active = FALSE
      BY <2>1, <1>1
    <3>2. ~ Present(row)
      BY <2>1 DEF Present
    <3>. QED  BY <3>1, <3>2, <2>1, <1>3, Zenon
  <2>2. CASE row \in VersionRow
    <3>1. row.number \in Nat \ {0} /\ row.active \in BOOLEAN /\ row # NoVersion
      BY <2>2, <1>2, <1>3
    <3>2. Present(row)
      BY <3>1 DEF Present
    <3>. QED  BY <3>1, <3>2, <2>2, Zenon
  <2>. QED  BY <2>1, <2>2
<1>. QED  BY <1>1, <1>3, <1>4

LEMMA UnbegunType ==
  ASSUME NEW pc \in Places
  PROVE  /\ [Unbegun EXCEPT !.pc = pc] \in EditRecord
         /\ [Unbegun EXCEPT !.pc = pc].pc = pc
         /\ [Unbegun EXCEPT !.pc = pc].todo = <<>>
         /\ DOMAIN [Unbegun EXCEPT !.pc = pc].new = {}
<1>1. Unbegun \in EditRecord /\ Unbegun.todo = <<>> /\ DOMAIN Unbegun.new = {}
  <2>1. <<>> \in Seq(Editors \X BOOLEAN) /\ "new" \in Places
    BY DEF Places, Plain
  <2>. QED  BY <2>1, EmptyRows DEF EditRecord, Unbegun
<1>. QED  BY <1>1 DEF EditRecord

LEMMA PromptRecords ==
  ASSUME PromptTypes, NEW s \in Editors
  PROVE  /\ edit[s].pc \in Places /\ edit[s].number \in Nat /\ edit[s].activate \in BOOLEAN
         /\ edit[s].todo \in Seq(Editors \X BOOLEAN) /\ edit[s].seen \in BOOLEAN
         /\ edit[s].new \in PartialRows
         /\ Written(s) \subseteq Editors
         /\ \A v \in Written(s) : edit[s].new[v] \in VersionRow
         /\ \A v \in Editors : Select(s, v) \in VersionRow \cup {NoVersion}
<1>1. edit[s] \in EditRecord
  BY DEF PromptTypes
<1>2. edit[s].new \in PartialRows
  BY <1>1 DEF EditRecord
<1>. QED  BY <1>1, <1>2, PartialRowsType DEF EditRecord, PromptTypes, Written, Select

LEMMA PromptInitInv == PromptInit => PromptInv
<1> SUFFICES ASSUME PromptInit PROVE PromptInv
  OBVIOUS
<1>1. Unbegun \in EditRecord /\ DOMAIN Unbegun.new = {} /\ Unbegun.todo = <<>> /\ Unbegun.pc = "new"
  BY EmptyRows DEF Unbegun, EditRecord, Places, Plain
<1>2. PromptTypes
  BY <1>1 DEF PromptTypes, PromptInit
<1>3. StoredVersions = {} /\ ActiveVersions = {}
  BY NoVersionFacts DEF StoredVersions, ActiveVersions, PromptInit, Present
<1>4. IsFiniteSet({}) /\ Cardinality({}) = 0
  BY FS_EmptySet
<1>5. TableInv
  BY <1>3, <1>4 DEF TableInv, TopNumber
<1>6. ASSUME NEW s \in Editors
      PROVE  /\ edit[s].pc = "new" /\ Todo(s) = <<>> /\ Written(s) = {} /\ ~ Present(versions[s])
  BY <1>1 DEF PromptInit, Todo, Written, Present
<1>7. ASSUME NEW s \in Editors PROVE SessionInv(s)
  BY <1>6 DEF SessionInv, RowsOf, PlansOf, SwitchedOn, SwitchedOff
<1>8. ASSUME NEW s \in Editors, NEW o \in Editors PROVE Apart(s, o)
  BY <1>6 DEF Apart
<1>. QED  BY <1>2, <1>5, <1>7, <1>8 DEF PromptInv

\* A step of one session that commits nothing.
LEMMA LocalStep ==
  ASSUME PromptInv, NEW s \in Editors,
         template' \subseteq Editors, versions' = versions,
         NEW e \in EditRecord, edit' = [edit EXCEPT ![s] = e],
         SessionInv(s)',
         \A o \in Others(s) : Apart(s, o)' /\ Apart(o, s)'
  PROVE  PromptInv'
<1>1. PromptTypes'
  BY DEF PromptInv, PromptTypes
<1>2. TableInv'
  BY DEF PromptInv, TableInv, TopNumber, StoredVersions, ActiveVersions
<1>3. ASSUME NEW o \in Others(s) PROVE edit'[o] = edit[o] /\ o \in Editors /\ o # s
  BY DEF Others, PromptInv, PromptTypes
<1>4. ASSUME NEW o \in Others(s) PROVE SessionInv(o)'
  <2>1. SessionInv(o)
    BY <1>3 DEF PromptInv
  <2>2. \A v \in Editors : Select(o, v)' = Select(o, v)
    BY <1>3 DEF Select, Written
  <2>3. Selected(o)' = Selected(o)
    BY <2>2 DEF Selected, Present
  <2>4. Written(o)' = Written(o) /\ Todo(o)' = Todo(o) /\ Target(o)' = Target(o) /\ TopNumber' = TopNumber
        /\ StoredVersions' = StoredVersions
    BY <1>3 DEF Written, Todo, Target, TopNumber, StoredVersions
  <2>5. RowsOf(o)'
    BY <1>3, <2>1, <2>4 DEF SessionInv, RowsOf
  <2>6. PlansOf(o)'
    BY <1>3, <2>1, <2>3, <2>4 DEF SessionInv, PlansOf
  <2>7. SwitchedOn(o)'
    BY <1>3, <2>1, <2>2, <2>3, <2>4 DEF SessionInv, SwitchedOn, Selected
  <2>8. SwitchedOff(o)'
    BY <1>3, <2>1, <2>4 DEF SessionInv, SwitchedOff
  <2>. QED  BY <2>5, <2>6, <2>7, <2>8 DEF SessionInv
<1>5. ASSUME NEW o \in Others(s), NEW p \in Others(s), o # p PROVE Apart(o, p)'
  BY <1>3, <1>5 DEF PromptInv, Apart, Written
<1>. QED  BY <1>1, <1>2, <1>3, <1>4, <1>5 DEF PromptInv, Others

\* One that writes nothing either, or rolls back.
LEMMA QuietStep ==
  ASSUME PromptInv, NEW s \in Editors,
         template' \subseteq Editors, versions' = versions,
         NEW e \in EditRecord, edit' = [edit EXCEPT ![s] = e],
         e.new = edit[s].new \/ DOMAIN e.new = {},
         SessionInv(s)'
  PROVE  PromptInv'
<1>1. ASSUME NEW o \in Others(s) PROVE edit'[o] = edit[o] /\ o \in Editors /\ o # s
  BY DEF Others, PromptInv, PromptTypes
<1>2. edit'[s] = e
  BY DEF PromptInv, PromptTypes
<1>3. ASSUME NEW o \in Others(s) PROVE Apart(s, o)' /\ Apart(o, s)'
  <2>1. Apart(s, o) /\ Apart(o, s)
    BY <1>1 DEF PromptInv
  <2>2. CASE e.new = edit[s].new
    BY <1>1, <1>2, <2>1, <2>2 DEF Apart, Written
  <2>3. CASE DOMAIN e.new = {}
    BY <1>1, <1>2, <2>3 DEF Apart, Written
  <2>. QED  BY <2>2, <2>3
<1>. QED  BY <1>3, LocalStep

\* A request that fails, or that ends without having written.
LEMMA FailStep ==
  ASSUME PromptInv, NEW s \in Editors, edit[s].pc # "done",
         template' \subseteq Editors, versions' = versions, edit' = Fail(s)
  PROVE  PromptInv'
<1> DEFINE e == [Unbegun EXCEPT !.pc = "failed"]
<1>1. e \in EditRecord /\ e.pc = "failed" /\ e.todo = <<>> /\ DOMAIN e.new = {}
  BY UnbegunType DEF Places, Plain
<1>2. edit' = [edit EXCEPT ![s] = e]
  BY DEF Fail
<1>3. edit'[s] = e
  BY <1>2 DEF PromptInv, PromptTypes
<1> HIDE DEF e
<1>4. ~ Present(versions'[s])
  BY DEF PromptInv, SessionInv, RowsOf
<1>5. SessionInv(s)'
  BY <1>1, <1>3, <1>4
     DEF SessionInv, RowsOf, PlansOf, SwitchedOn, SwitchedOff, Written, Todo, Plain
<1>. QED  BY <1>1, <1>2, <1>5, QuietStep

\* What a session sees: the committed rows and its own.
LEMMA Sees ==
  ASSUME PromptInv, NEW s \in Editors
  PROVE  /\ Selected(s) = StoredVersions \cup Written(s)
         /\ \A v \in Editors : Select(s, v).active => v \in Selected(s)
         /\ \A v \in Editors : versions[v].active => v \in StoredVersions
         /\ Written(s) = {} => Selected(s) = StoredVersions /\ \A v \in Editors : Select(s, v) = versions[v]
<1>1. PromptTypes
  BY DEF PromptInv
<1>2. Written(s) \subseteq Editors
  BY <1>1, PromptRecords
<1>3. ASSUME NEW v \in Editors
      PROVE  /\ v \in Selected(s) <=> v \in StoredVersions \cup Written(s)
             /\ Select(s, v).active => v \in Selected(s)
             /\ versions[v].active => v \in StoredVersions
  <2>1. /\ Select(s, v) \in VersionRow \cup {NoVersion} /\ versions[v] \in VersionRow \cup {NoVersion}
        /\ v \in Written(s) => edit[s].new[v] \in VersionRow
    BY <1>1, PromptRecords DEF PromptTypes
  <2>2. /\ Select(s, v).active => Present(Select(s, v))
        /\ versions[v].active => Present(versions[v])
        /\ v \in Written(s) => Present(edit[s].new[v])
    BY <2>1, NoVersionFacts
  <2>3. Select(s, v) = IF v \in Written(s) THEN edit[s].new[v] ELSE versions[v]
    BY DEF Select
  <2>. QED  BY <2>1, <2>2, <2>3 DEF Selected, StoredVersions
<1>4. Selected(s) \subseteq Editors /\ StoredVersions \subseteq Editors
  BY DEF Selected, StoredVersions
<1>5. Selected(s) = StoredVersions \cup Written(s)
  BY <1>2, <1>3, <1>4
<1>6. Written(s) = {} => \A v \in Editors : Select(s, v) = versions[v]
  BY DEF Select
<1>. QED  BY <1>3, <1>5, <1>6

\* A step that only moves a request on, to a place before its first write.
LEMMA PlainStep ==
  ASSUME PromptInv, NEW s \in Editors, edit[s].pc # "done",
         template' \subseteq Editors, versions' = versions,
         NEW e \in EditRecord, edit' = [edit EXCEPT ![s] = e],
         e.pc \in Plain, DOMAIN e.new = {}, e.todo = <<>>,
         e.pc = "insert" => e.number \in 1..(TopNumber + 1)
  PROVE  PromptInv'
<1>1. edit'[s] = e /\ TopNumber' = TopNumber
  BY DEF PromptInv, PromptTypes, TopNumber, StoredVersions
<1>2. ~ Present(versions'[s])
  BY DEF PromptInv, SessionInv, RowsOf
<1>3. SessionInv(s)'
  BY <1>1, <1>2 DEF SessionInv, RowsOf, PlansOf, SwitchedOn, SwitchedOff, Written, Todo, Plain
<1>. QED  BY <1>3, QuietStep

LEMMA TemplateStep ==
  ASSUME PromptInv, NEW s \in Editors, PostTemplate(s) \/ InsertTemplate(s)
  PROVE  PromptInv'
<1>1. edit[s] \in EditRecord /\ template \subseteq Editors
  BY DEF PromptInv, PromptTypes
<1>2. edit[s].pc \in {"new", "insert_template"} /\ edit[s].pc # "done"
  BY DEF PostTemplate, Begins, InsertTemplate
<1>3. Written(s) = {} /\ edit[s].todo = <<>>
  BY <1>2 DEF PromptInv, SessionInv, RowsOf, PlansOf, Plain, Todo
<1>4. CASE edit' = Fail(s) /\ UNCHANGED <<template, versions>>
  BY <1>1, <1>2, <1>4, FailStep
<1>5. ASSUME NEW pc \in Plain \ {"insert"}, edit' = [edit EXCEPT ![s].pc = pc],
             template' \subseteq Editors, versions' = versions
      PROVE  PromptInv'
  <2> DEFINE e == [edit[s] EXCEPT !.pc = pc]
  <2>1. e \in EditRecord /\ e.pc = pc /\ e.todo = edit[s].todo /\ e.new = edit[s].new
    BY <1>1 DEF EditRecord, Places
  <2>2. edit' = [edit EXCEPT ![s] = e]
    BY <1>5
  <2> HIDE DEF e
  <2>3. DOMAIN e.new = {} /\ e.todo = <<>> /\ e.pc \in Plain /\ e.pc # "insert"
    BY <1>3, <2>1 DEF Written
  <2>. QED  BY <1>2, <1>5, <2>1, <2>2, <2>3, PlainStep
<1>6. CASE PostTemplate(s)
  <2>1. PICK pc \in {"insert_template", "failed"} : edit' = [edit EXCEPT ![s].pc = pc]
    BY <1>6 DEF PostTemplate, CreateTemplate
  <2>2. pc \in Plain \ {"insert"}
    BY DEF Plain
  <2>. QED  BY <1>1, <1>5, <1>6, <2>1, <2>2 DEF PostTemplate, CreateTemplate
<1>7. CASE InsertTemplate(s)
  <2>1. "done" \in Plain \ {"insert"}
    BY DEF Plain
  <2>. QED  BY <1>1, <1>4, <1>5, <1>7, <2>1 DEF InsertTemplate
<1>. QED  BY <1>6, <1>7

LEMMA CreateVersionStep ==
  ASSUME PromptInv, NEW s \in Editors, PostVersion(s)
  PROVE  PromptInv'
<1>1. edit[s] \in EditRecord /\ template \subseteq Editors
  BY DEF PromptInv, PromptTypes
<1>2. edit[s].pc = "new" /\ UNCHANGED <<template, versions>>
  BY DEF PostVersion, Begins, CreateVersion
<1>3. Written(s) = {} /\ edit[s].todo = <<>>
  BY <1>2 DEF PromptInv, SessionInv, RowsOf, PlansOf, Plain, Todo
<1>4. CASE edit' = Fail(s)
  BY <1>1, <1>2, <1>4, FailStep
<1>5. ASSUME NEW activate \in BOOLEAN,
             edit' = [edit EXCEPT ![s].pc = "read_max", ![s].activate = activate]
      PROVE  PromptInv'
  <2> DEFINE e == [edit[s] EXCEPT !.pc = "read_max", !.activate = activate]
  <2>1. "read_max" \in Plain /\ "read_max" \in Places
    BY DEF Plain, Places
  <2>2. e \in EditRecord /\ e.pc = "read_max" /\ e.todo = edit[s].todo /\ e.new = edit[s].new
    BY <1>1, <2>1 DEF EditRecord
  <2>3. edit' = [edit EXCEPT ![s] = e]
    BY <1>5
  <2> HIDE DEF e
  <2>. QED  BY <1>1, <1>2, <1>3, <2>1, <2>2, <2>3, PlainStep DEF Written
<1>. QED  BY <1>2, <1>4, <1>5 DEF PostVersion, CreateVersion

LEMMA TopNumberType == ASSUME PromptInv PROVE TopNumber \in Nat
  BY FS_CardinalityType DEF TopNumber, PromptInv, TableInv

\* The next number: the numbers so far are 1..TopNumber.
LEMMA NextNumber ==
  ASSUME PromptInv, NEW s \in Editors, Written(s) = {}
  PROVE  /\ TopNumber \in Nat
         /\ Max({Select(s, v).number : v \in Selected(s)} \cup {0}) = TopNumber
<1>1. Selected(s) = StoredVersions /\ \A v \in Editors : Select(s, v) = versions[v]
  BY Sees
<1>2. {versions[v].number : v \in StoredVersions} = 1..TopNumber /\ IsFiniteSet(StoredVersions)
  BY DEF PromptInv, TableInv
<1>3. TopNumber \in Nat
  BY <1>2, FS_CardinalityType DEF TopNumber
<1>4. {Select(s, v).number : v \in Selected(s)} = {versions[v].number : v \in StoredVersions}
  BY <1>1 DEF StoredVersions
<1>5. {Select(s, v).number : v \in Selected(s)} \cup {0} = 0..TopNumber
  BY <1>2, <1>3, <1>4
<1>6. TopNumber \in 0..TopNumber /\ \A y \in 0..TopNumber : TopNumber >= y
  BY <1>3
<1>7. Max(0..TopNumber) = TopNumber
  <2>1. Max(0..TopNumber) \in 0..TopNumber /\ \A y \in 0..TopNumber : Max(0..TopNumber) >= y
    BY <1>6 DEF Max
  <2>. QED  BY <1>3, <1>6, <2>1
<1>. QED  BY <1>3, <1>5, <1>7

LEMMA ReadMaxStep ==
  ASSUME PromptInv, NEW s \in Editors, ReadMax(s)
  PROVE  PromptInv'
<1>1. edit[s] \in EditRecord /\ template \subseteq Editors
  BY DEF PromptInv, PromptTypes
<1>2. edit[s].pc = "read_max" /\ UNCHANGED <<template, versions>>
  BY DEF ReadMax
<1>3. Written(s) = {} /\ edit[s].todo = <<>>
  BY <1>2 DEF PromptInv, SessionInv, RowsOf, PlansOf, Plain, Todo
<1> DEFINE n == TopNumber + 1
           e == [edit[s] EXCEPT !.pc = "insert", !.number = n]
<1>0. TopNumber \in Nat /\ Max({Select(s, v).number : v \in Selected(s)} \cup {0}) = TopNumber
  BY <1>3, NextNumber
<1>4. TopNumber \in Nat /\ edit' = [edit EXCEPT ![s] = e] /\ n \in Nat /\ n \in 1..(TopNumber + 1)
  <2>1. edit' = [edit EXCEPT ![s] = e]
    BY <1>0 DEF ReadMax
  <2>2. n \in Nat /\ n \in 1..(TopNumber + 1)
    BY <1>0
  <2>. QED  BY <1>0, <2>1, <2>2
<1> HIDE DEF n
<1>5. "insert" \in Plain /\ "insert" \in Places
  BY DEF Plain, Places
<1>6. e \in EditRecord /\ e.pc = "insert" /\ e.todo = edit[s].todo /\ e.new = edit[s].new /\ e.number = n
  BY <1>1, <1>4, <1>5 DEF EditRecord
<1> HIDE DEF e
<1>7. e.number \in 1..(TopNumber + 1)
  BY <1>4, <1>6
<1>. QED  BY <1>1, <1>2, <1>3, <1>4, <1>5, <1>6, <1>7, PlainStep DEF Written

\* What Write does to the session, and that it is a session.
LEMMA WriteType ==
  ASSUME PromptTypes, NEW s \in Editors, NEW v \in Editors, NEW row \in VersionRow, NEW pc \in Places
  PROVE  \E e \in EditRecord :
           Write(s, v, row, pc) = [edit EXCEPT ![s] = e] /\ Wrote(e, s, v, row, pc)
<1> DEFINE rowsOf == WithRow(edit[s].new, v, row)
           left == IF edit[s].todo = <<>> THEN <<>> ELSE Tail(edit[s].todo)
<1>1. edit[s] \in EditRecord /\ edit[s].todo \in Seq(Editors \X BOOLEAN)
  BY PromptRecords DEF PromptTypes
<1>2. rowsOf \in PartialRows
  BY PromptRecords, PartialRowsType
<1>3. left \in Seq(Editors \X BOOLEAN)
  BY <1>1
<1>4. /\ DOMAIN rowsOf = Written(s) \cup {v}
      /\ \A x \in Written(s) \cup {v} : rowsOf[x] = IF x = v THEN row ELSE edit[s].new[x]
  BY DEF Written, WithRow
<1>5. Write(s, v, row, pc) = [edit EXCEPT ![s].new = rowsOf, ![s].todo = left, ![s].pc = pc]
  BY <1>1 DEF Write, WithRow, EditRecord, PromptTypes
<1> HIDE DEF rowsOf, left
<1> DEFINE e == [edit[s] EXCEPT !.new = rowsOf, !.todo = left, !.pc = pc]
<1>6. /\ e \in EditRecord /\ e.pc = pc /\ e.number = edit[s].number /\ e.seen = edit[s].seen
      /\ e.todo = left /\ e.new = rowsOf
  BY <1>1, <1>2, <1>3 DEF EditRecord
<1>7. Write(s, v, row, pc) = [edit EXCEPT ![s] = e]
  BY <1>5
<1> HIDE DEF e
<1>8. Wrote(e, s, v, row, pc)
  BY <1>4, <1>6 DEF left, Wrote
<1>. QED  BY <1>6, <1>7, <1>8

LEMMA InsertVersionStep ==
  ASSUME PromptInv, NEW s \in Editors, InsertVersion(s)
  PROVE  PromptInv'
<1>1. edit[s] \in EditRecord /\ template \subseteq Editors /\ PromptTypes
  BY DEF PromptInv, PromptTypes
<1>2. edit[s].pc = "insert" /\ ~ NumberPending(s) /\ UNCHANGED <<template, versions>>
  BY DEF InsertVersion
<1>3. /\ Written(s) = {} /\ edit[s].todo = <<>> /\ edit[s].number \in 1..(TopNumber + 1)
      /\ ~ Present(versions[s])
  BY <1>2 DEF PromptInv, SessionInv, RowsOf, PlansOf, Plain, Todo
<1>4. CASE NumberTaken(s)
  BY <1>1, <1>2, <1>4, FailStep DEF InsertVersion
<1>5. CASE ~ NumberTaken(s)
  <2>1. Selected(s) = StoredVersions /\ \A v \in Editors : Select(s, v) = versions[v]
    BY <1>3, Sees
  <2>2. \A v \in StoredVersions : versions[v].number # edit[s].number
    BY <1>5, <2>1 DEF NumberTaken, StoredVersions
  <2>3. edit[s].number = TopNumber + 1 /\ TopNumber \in Nat
    <3>1. edit[s].number \notin 1..TopNumber
      BY <2>2 DEF PromptInv, TableInv
    <3>2. TopNumber \in Nat
      BY TopNumberType
    <3>. QED  BY <3>1, <3>2, <1>3
  <2>4. ASSUME NEW o \in Others(s) PROVE o \notin Written(o) /\ s \notin Written(o)
    <3>1. RowsOf(o) /\ o \in Editors /\ o # s
      BY DEF PromptInv, SessionInv, Others
    <3>2. s \notin StoredVersions
      BY <1>3 DEF StoredVersions
    <3>3. s \notin Written(o)
      BY <3>1, <3>2 DEF RowsOf
    <3>4. ASSUME o \in Written(o) PROVE FALSE
      <4>1. edit[o].pc # "done"
        BY <3>1, <3>4 DEF RowsOf, Plain
      <4>2. o \notin StoredVersions
        BY <3>1, <4>1 DEF RowsOf, StoredVersions
      <4>3. edit[o].new[o].number = edit[s].number
        BY <2>3, <3>1, <3>4, <4>2 DEF RowsOf
      <4>4. NumberPending(s)
        BY <2>1, <3>4, <4>2, <4>3 DEF NumberPending
      <4>. QED  BY <1>2, <4>4
    <3>. QED  BY <3>3, <3>4
  <2> DEFINE row == [number |-> edit[s].number, active |-> FALSE]
             pc == IF edit[s].activate THEN "find_active" ELSE "commit"
  <2>5. row \in VersionRow /\ row.active = FALSE /\ row.number = TopNumber + 1
    BY <2>3 DEF VersionRow
  <2>6. pc \in Places /\ pc \in {"find_active", "commit"}
    BY DEF Places
  <2>7. edit' = Write(s, s, row, pc)
    BY <1>5 DEF InsertVersion
  <2> HIDE DEF row, pc
  <2>a. PICK e \in EditRecord : edit' = [edit EXCEPT ![s] = e] /\ Wrote(e, s, s, row, pc)
    BY <1>1, <2>5, <2>6, <2>7, WriteType
  <2>8. /\ edit' = [edit EXCEPT ![s] = e]
        /\ e.pc = pc /\ e.todo = <<>>
        /\ DOMAIN e.new = {s} /\ e.new[s] = row
    BY <1>3, <2>a DEF Wrote
  <2>9. edit'[s] = e /\ Written(s)' = {s} /\ TopNumber' = TopNumber /\ StoredVersions' = StoredVersions /\ Todo(s)' = <<>>
    BY <1>1, <1>2, <2>8 DEF PromptTypes, Written, TopNumber, StoredVersions, Todo
  <2>10. ~ versions'[s].active /\ s \notin StoredVersions
    BY <1>1, <1>2, <1>3, NoVersionFacts DEF PromptTypes, Present, StoredVersions
  <2>11. SessionInv(s)'
    <3>1. RowsOf(s)'
      BY <1>2, <1>3, <2>5, <2>6, <2>8, <2>9, <2>10 DEF RowsOf, Plain
    <3>2. PlansOf(s)'
      BY <2>5, <2>6, <2>8, <2>9 DEF PlansOf
    <3>3. SwitchedOn(s)' /\ SwitchedOff(s)'
      BY <2>5, <2>8, <2>9, <2>10 DEF SwitchedOn, SwitchedOff
    <3>. QED  BY <3>1, <3>2, <3>3 DEF SessionInv
  <2>12. ASSUME NEW o \in Others(s) PROVE Apart(s, o)' /\ Apart(o, s)'
    <3>1. edit'[o] = edit[o] /\ Written(o)' = Written(o)
      BY <1>1, <2>8 DEF Others, PromptTypes, Written
    <3>2. Apart(s, o)'
      BY <2>4, <2>5, <2>8, <2>9, <3>1 DEF Apart
    <3>3. Apart(o, s)'
      BY <2>4, <2>5, <2>8, <2>9, <2>10, <3>1 DEF Apart
    <3>. QED  BY <3>2, <3>3
  <2>. QED  BY <1>1, <1>2, <2>8, <2>11, <2>12, LocalStep
<1>. QED  BY <1>4, <1>5

\* A step of set_active that writes nothing.
LEMMA MoveStep ==
  ASSUME PromptInv, NEW s \in Editors, UNCHANGED <<template, versions>>,
         NEW e \in EditRecord, edit' = [edit EXCEPT ![s] = e], e.new = edit[s].new,
         edit[s].pc \in {"find_active", "load", "flush"}, e.pc \in {"load", "flush", "commit"},
         PlansOf(s)', SwitchedOff(s)'
  PROVE  PromptInv'
<1>1. SessionInv(s) /\ template \subseteq Editors
  BY DEF PromptInv, PromptTypes
<1>2. edit'[s] = e /\ TopNumber' = TopNumber /\ StoredVersions' = StoredVersions /\ Written(s)' = Written(s)
  BY DEF PromptInv, PromptTypes, TopNumber, StoredVersions, Written
<1>3. RowsOf(s)'
  BY <1>1, <1>2 DEF SessionInv, RowsOf, Plain
<1>4. SwitchedOn(s)'
  BY <1>1, <1>2 DEF SessionInv, SwitchedOn
<1>5. SessionInv(s)'
  BY <1>3, <1>4 DEF SessionInv
<1>. QED  BY <1>1, <1>5, QuietStep

LEMMA OneRow ==
  ASSUME NEW v \in Editors, NEW b \in BOOLEAN
  PROVE  LET q == << <<v, b>> >> IN
         /\ q \in Seq(Editors \X BOOLEAN) /\ Len(q) = 1 /\ q[1] = <<v, b>>
         /\ q[1][1] = v /\ q[1][2] = b
<1> DEFINE p == <<v, b>>
<1>1. p \in Editors \X BOOLEAN /\ p[1] = v /\ p[2] = b
  OBVIOUS
<1> HIDE DEF p
<1>2. <<p>> \in Seq(Editors \X BOOLEAN) /\ Len(<<p>>) = 1 /\ <<p>>[1] = p
  BY <1>1
<1>. QED  BY <1>1, <1>2 DEF p

LEMMA RowBefore ==
  ASSUME NEW S, NEW q \in Seq(S), NEW r \in Seq(S), Len(q) = 1, Len(r) = 1
  PROVE  q \o r \in Seq(S) /\ Len(q \o r) = 2 /\ (q \o r)[1] = q[1] /\ (q \o r)[2] = r[1]
  BY ConcatProperties

LEMMA ActivateStep ==
  ASSUME PromptInv, NEW s \in Editors, PostActivate(s)
  PROVE  PromptInv'
<1>1. edit[s] \in EditRecord /\ template \subseteq Editors
  BY DEF PromptInv, PromptTypes
<1>2. edit[s].pc = "new" /\ UNCHANGED <<template, versions>>
  BY DEF PostActivate, Begins, ActivateVersion
<1>3. Written(s) = {} /\ ~ Present(versions[s])
  BY <1>2 DEF PromptInv, SessionInv, RowsOf, Plain
<1>4. PICK v \in Editors : ActivateVersion(s, v)
  BY DEF PostActivate
<1>5. CASE edit' = Fail(s)
  BY <1>1, <1>2, <1>5, FailStep
<1>6. CASE Present(versions[v]) /\ ~ versions[v].active
  <2> DEFINE todo == << <<v, TRUE>> >>
             e == [edit[s] EXCEPT !.pc = "find_active", !.todo = todo]
  <2>1. todo \in Seq(Editors \X BOOLEAN) /\ Len(todo) = 1 /\ todo[1][1] = v /\ todo[1][2] = TRUE
    BY OneRow
  <2>2. edit' = [edit EXCEPT ![s] = e]
    BY <1>4, <1>6 DEF ActivateVersion
  <2> HIDE DEF todo
  <2>3. "find_active" \in Places
    BY DEF Places
  <2>4. e \in EditRecord /\ e.pc = "find_active" /\ e.todo = todo /\ e.new = edit[s].new
    BY <1>1, <2>1, <2>3 DEF EditRecord
  <2> HIDE DEF e
  <2>5. edit'[s] = e /\ StoredVersions' = StoredVersions /\ TopNumber' = TopNumber
    BY <1>2, <2>2 DEF PromptInv, PromptTypes, StoredVersions, TopNumber
  <2>6. Written(s)' = {} /\ Todo(s)' = todo /\ Target(s)' = v /\ v \in StoredVersions
    BY <1>3, <1>6, <2>1, <2>4, <2>5 DEF Written, Todo, Target, StoredVersions
  <2>7. RowsOf(s)'
    BY <1>2, <1>3, <2>4, <2>5, <2>6 DEF RowsOf
  <2>8. PlansOf(s)'
    BY <2>1, <2>4, <2>5, <2>6 DEF PlansOf, Plain
  <2>9. SwitchedOn(s)' /\ SwitchedOff(s)'
    BY <2>6 DEF SwitchedOn, SwitchedOff
  <2>10. SessionInv(s)'
    BY <2>7, <2>8, <2>9 DEF SessionInv
  <2>. QED  BY <1>1, <1>2, <2>2, <2>4, <2>10, QuietStep
<1>. QED  BY <1>4, <1>5, <1>6 DEF ActivateVersion

LEMMA FindActiveStep ==
  ASSUME PromptInv, NEW s \in Editors, FindActive(s)
  PROVE  PromptInv'
<1> DEFINE on == IF edit[s].todo = <<>> THEN << <<s, TRUE>> >> ELSE edit[s].todo
           off == {v \in Selected(s) : Select(s, v).active}
           c == CHOOSE v \in off : TRUE
           todo == IF off \subseteq {on[1][1]} THEN on ELSE << <<c, FALSE>> >> \o on
           e == [edit[s] EXCEPT !.pc = "load", !.todo = todo]
<1>1. edit[s] \in EditRecord /\ edit[s].todo \in Seq(Editors \X BOOLEAN) /\ SessionInv(s) /\ PromptTypes
  BY PromptRecords DEF PromptInv, PromptTypes
<1>2. edit[s].pc = "find_active" /\ UNCHANGED <<template, versions>>
  BY DEF FindActive
<1>3. edit' = [edit EXCEPT ![s] = e]
  BY DEF FindActive
<1>4. /\ on \in Seq(Editors \X BOOLEAN) /\ Len(on) = 1 /\ on[1][2] = TRUE
      /\ on[1][1] \in Selected(s) /\ on[1][1] \in Editors /\ Written(s) \subseteq {s}
      /\ \A v \in Written(s) : ~ edit[s].new[v].active
  <2>1. \A v \in Written(s) : ~ edit[s].new[v].active
    BY <1>1, <1>2 DEF SessionInv, PlansOf
  <2>2. CASE edit[s].todo = <<>>
    <3>1. Written(s) = {s}
      BY <1>1, <1>2, <2>2 DEF SessionInv, PlansOf, Todo
    <3>2. on = << <<s, TRUE>> >>
      BY <2>2
    <3>3. on \in Seq(Editors \X BOOLEAN) /\ Len(on) = 1 /\ on[1][2] = TRUE /\ on[1][1] = s
      BY <3>2, OneRow
    <3>. QED  BY <2>1, <3>1, <3>3, Sees
  <2>3. CASE edit[s].todo # <<>>
    <3>1. /\ Len(edit[s].todo) = 1 /\ edit[s].todo[1][2] /\ Written(s) = {}
          /\ edit[s].todo[1][1] \in StoredVersions
      BY <1>1, <1>2, <2>3 DEF SessionInv, PlansOf, Todo, Target
    <3>2. edit[s].todo[1] \in Editors \X BOOLEAN
      BY <1>1, <3>1
    <3>3. edit[s].todo[1][1] \in Selected(s)
      BY <3>1, Sees
    <3>4. on = edit[s].todo
      BY <2>3
    <3>. QED  BY <1>1, <2>1, <3>1, <3>2, <3>3, <3>4
  <2>. QED  BY <2>2, <2>3
<1>5. \A v \in off : v \in Editors /\ v \in StoredVersions /\ versions[v].active
  BY <1>4, Sees DEF Select, Selected
<1>6. \A v, w \in off : v = w
  BY <1>5 DEF PromptInv, TableInv, ActiveVersions
<1>7. ~ (off \subseteq {on[1][1]}) => c \in off /\ c # on[1][1]
  BY <1>6
<1> HIDE DEF on, off, c
<1>8. /\ todo \in Seq(Editors \X BOOLEAN)
      /\ Len(todo) \in {1, 2} /\ todo[Len(todo)] = on[1]
      /\ Len(todo) = 2 => todo[1][2] = FALSE /\ todo[1][1] = c /\ c \in off /\ c # on[1][1]
  <2>1. CASE off \subseteq {on[1][1]}
    <3>1. todo = on
      BY <2>1
    <3> HIDE DEF todo, e
    <3>2. todo \in Seq(Editors \X BOOLEAN) /\ Len(todo) = 1
      BY <1>4, <3>1
    <3>3. todo[Len(todo)] = on[1]
      BY <3>1, <3>2
    <3>. QED  BY <3>2, <3>3
  <2>2. CASE ~ (off \subseteq {on[1][1]})
    <3>1. c \in Editors /\ c \in off /\ c # on[1][1]
      BY <1>5, <1>7, <2>2
    <3>2. todo = << <<c, FALSE>> >> \o on
      BY <2>2
    <3> DEFINE q == << <<c, FALSE>> >>
    <3>3. q \in Seq(Editors \X BOOLEAN) /\ Len(q) = 1 /\ q[1][1] = c /\ q[1][2] = FALSE
      BY <3>1, OneRow
    <3> HIDE DEF q
    <3>4. todo \in Seq(Editors \X BOOLEAN) /\ Len(todo) = 2 /\ todo[1] = q[1] /\ todo[2] = on[1]
      <4>1. todo = q \o on
        BY <3>2 DEF q
      <4> HIDE DEF todo
      <4>. QED  BY <1>4, <3>3, <4>1, RowBefore
    <3>. QED  BY <3>1, <3>3, <3>4
  <2>. QED  BY <2>1, <2>2
<1> HIDE DEF todo
<1>9. "load" \in Places
  BY DEF Places
<1>10. e \in EditRecord /\ e.pc = "load" /\ e.todo = todo /\ e.new = edit[s].new
  BY <1>1, <1>8, <1>9 DEF EditRecord
<1> HIDE DEF e
<1>11. edit'[s] = e /\ StoredVersions' = StoredVersions
  BY <1>1, <1>2, <1>3 DEF PromptTypes, StoredVersions
<1>12. Written(s)' = Written(s) /\ Todo(s)' = todo /\ Target(s)' = on[1][1] /\ Selected(s)' = Selected(s)
  <2>1. Written(s)' = Written(s) /\ Todo(s)' = todo /\ Target(s)' = on[1][1]
    BY <1>8, <1>10, <1>11 DEF Written, Todo, Target
  <2>2. \A v \in Editors : Select(s, v)' = Select(s, v)
    BY <1>2, <1>10, <1>11 DEF Select, Written
  <2>. QED  BY <2>1, <2>2 DEF Selected
<1>13. PlansOf(s)'
  BY <1>4, <1>5, <1>8, <1>10, <1>11, <1>12 DEF PlansOf, Plain
<1>14. SwitchedOff(s)'
  <2>1. \A v \in Written(s) : ~ versions[v].active
    BY <1>2, <1>4, Sees, <1>1 DEF SessionInv, RowsOf, StoredVersions
  <2>. QED  BY <1>2, <1>12, <2>1 DEF SwitchedOff
<1>. QED  BY <1>2, <1>3, <1>10, <1>13, <1>14, MoveStep

LEMMA LoadVersionStep ==
  ASSUME PromptInv, NEW s \in Editors, LoadVersion(s)
  PROVE  PromptInv'
<1> DEFINE seen == Select(s, Head(edit[s].todo)[1]).active
           e == [edit[s] EXCEPT !.pc = "flush", !.seen = seen]
<1>1. edit[s] \in EditRecord /\ edit[s].todo \in Seq(Editors \X BOOLEAN) /\ SessionInv(s) /\ PromptTypes
  BY PromptRecords DEF PromptInv, PromptTypes
<1>2. edit[s].pc = "load" /\ UNCHANGED <<template, versions>>
  BY DEF LoadVersion
<1>3. edit' = [edit EXCEPT ![s] = e]
  BY DEF LoadVersion
<1>4. Len(Todo(s)) \in {1, 2} /\ Todo(s) \in Seq(Editors \X BOOLEAN)
  BY <1>1, <1>2 DEF SessionInv, PlansOf, Todo
<1>5. Head(Todo(s)) = Todo(s)[1] /\ Todo(s)[1] \in Editors \X BOOLEAN
  BY <1>4
<1>6. seen \in BOOLEAN
  <2>1. Head(edit[s].todo)[1] \in Editors
    BY <1>5 DEF Todo
  <2>. QED  BY <1>1, <2>1, PromptRecords, NoVersionFacts
<1> HIDE DEF seen
<1>7. "flush" \in Places
  BY DEF Places
<1>8. e \in EditRecord /\ e.pc = "flush" /\ e.todo = edit[s].todo /\ e.new = edit[s].new /\ e.seen = seen
  BY <1>1, <1>6, <1>7 DEF EditRecord
<1> HIDE DEF e
<1>9. edit'[s] = e /\ StoredVersions' = StoredVersions
  BY <1>1, <1>2, <1>3 DEF PromptTypes, StoredVersions
<1>10. Written(s)' = Written(s) /\ Todo(s)' = Todo(s) /\ Target(s)' = Target(s) /\ Selected(s)' = Selected(s)
  <2>1. Written(s)' = Written(s) /\ Todo(s)' = Todo(s) /\ Target(s)' = Target(s)
    BY <1>8, <1>9 DEF Written, Todo, Target
  <2>2. \A v \in Editors : Select(s, v)' = Select(s, v)
    BY <1>2, <1>8, <1>9 DEF Select, Written
  <2>. QED  BY <2>1, <2>2 DEF Selected
<1>11. PlansOf(s)'
  BY <1>1, <1>2, <1>8, <1>9, <1>10 DEF SessionInv, PlansOf, Plain
<1>12. SwitchedOff(s)'
  <2> SUFFICES ASSUME NEW v \in Written(s), versions[v].active, ~ edit[s].new[v].active,
                      ~ \E x \in Written(s) : edit[s].new[x].active
               PROVE  Len(Todo(s)) = 1 /\ Target(s) # v /\ ~ seen
    BY <1>2, <1>8, <1>9, <1>10 DEF SwitchedOff
  <2>1. Len(Todo(s)) = 1 /\ Target(s) # v
    BY <1>1 DEF SessionInv, SwitchedOff
  <2>2. Target(s) \in Editors /\ seen = Select(s, Target(s)).active
    BY <1>5, <2>1 DEF seen, Todo, Target
  <2>3. v \in Editors
    BY <1>1, PromptRecords
  <2>4. ~ versions[Target(s)].active
    BY <2>1, <2>2, <2>3 DEF PromptInv, TableInv, ActiveVersions
  <2>5. ~ Select(s, Target(s)).active
    BY <2>4 DEF Select
  <2>. QED  BY <2>1, <2>2, <2>5
<1>. QED  BY <1>2, <1>3, <1>8, <1>11, <1>12, MoveStep

LEMMA RestOfPlan ==
  ASSUME NEW S, NEW q \in Seq(S), Len(q) \in {1, 2}
  PROVE  /\ q # <<>> /\ Head(q) = q[1]
         /\ Len(q) = 1 => Tail(q) = <<>>
         /\ Len(q) = 2 => Len(Tail(q)) = 1 /\ Tail(q)[1] = q[2]
<1>1. q # <<>>
  BY EmptySeq
<1>2. /\ Head(q) = q[1] /\ Tail(q) \in Seq(S) /\ Len(Tail(q)) = Len(q) - 1
      /\ \A i \in 1 .. Len(Tail(q)) : Tail(q)[i] = q[i + 1]
  BY <1>1, HeadTailProperties
<1>3. Len(q) = 1 => Tail(q) = <<>>
  <2> DEFINE r == Tail(q)
  <2>1. r \in Seq(S) /\ (Len(q) = 1 => Len(r) = 0)
    BY <1>2
  <2> HIDE DEF r
  <2>2. r # <<>> => Len(r) # 0
    BY <2>1, EmptySeq
  <2>3. Len(q) = 1 => r = <<>>
    BY <2>1, <2>2
  <2>. QED  BY <2>3 DEF r
<1>4. Len(q) = 2 => Len(Tail(q)) = 1 /\ Tail(q)[1] = q[2]
  BY <1>2
<1>. QED  BY <1>1, <1>2, <1>3, <1>4

\* The unique index and the row locks keep apart what two sessions write.
LEMMA FlushWrites ==
  ASSUME PromptInv, NEW s \in Editors, UNCHANGED <<template, versions>>,
         NEW v \in Editors, NEW on \in BOOLEAN,
         edit[s].pc = "flush", v \in Selected(s),
         \A o \in Others(s) : v \notin Written(o),
         on => ~ ActivePending(s, v) /\ ~ ActiveTaken(s, v) /\ Len(Todo(s)) = 1,
         ~ on => /\ Len(Todo(s)) = 2 /\ v \in StoredVersions /\ v # Target(s)
                 /\ Written(s) \subseteq {s},
         NEW pc \in {"load", "commit"}, pc = "commit" <=> on,
         edit' = Write(s, v, [Select(s, v) EXCEPT !.active = on], pc)
  PROVE  PromptInv'
<1> DEFINE row == [Select(s, v) EXCEPT !.active = on]
<1>1. /\ SessionInv(s) /\ PromptTypes /\ template \subseteq Editors
      /\ Written(s) \subseteq Editors /\ Todo(s) \in Seq(Editors \X BOOLEAN)
  BY PromptRecords DEF PromptInv, PromptTypes, Todo
<1>2. row \in VersionRow /\ row.active = on /\ row.number = Select(s, v).number
  <2>1. Present(Select(s, v))
    BY DEF Selected
  <2>2. Select(s, v) \in VersionRow
    BY <1>1, <2>1, PromptRecords, NoVersionFacts
  <2>. QED  BY <2>2 DEF VersionRow
<1>3. pc \in Places
  BY DEF Places
<1> HIDE DEF row
<1>4. PICK e \in EditRecord : edit' = [edit EXCEPT ![s] = e] /\ Wrote(e, s, v, row, pc)
  BY <1>1, <1>2, <1>3, WriteType DEF row
<1>5. edit'[s] = e /\ StoredVersions' = StoredVersions /\ TopNumber' = TopNumber
  BY <1>1, <1>4 DEF PromptTypes, StoredVersions, TopNumber
<1>6. Written(s)' = Written(s) \cup {v} /\ Todo(s)' = Tail(Todo(s))
  <2>1. Todo(s) # <<>>
    BY <1>1, RestOfPlan
  <2>. QED  BY <1>4, <1>5, <2>1 DEF Wrote, Written, Todo
<1>7. /\ edit'[s].pc = pc
      /\ \A x \in Written(s)' : edit'[s].new[x] = IF x = v THEN row ELSE edit[s].new[x]
  BY <1>4, <1>5, <1>6 DEF Wrote
<1>8. /\ Select(s, v)' = row
      /\ \A x \in Editors \ {v} : Select(s, x)' = Select(s, x)
  BY <1>6, <1>7 DEF Select
<1>9. Selected(s)' = Selected(s) /\ Present(row)
  <2>1. Present(row)
    BY <1>2, NoVersionFacts
  <2>. QED  BY <1>8, <2>1 DEF Selected
<1>10. \A x \in Written(s) : ~ edit[s].new[x].active
  BY <1>1 DEF SessionInv, SwitchedOn
<1>11. s \notin StoredVersions
  BY <1>1 DEF SessionInv, RowsOf, StoredVersions
<1>12. v \in Written(s) \/ v \in StoredVersions
  BY Sees
<1>13. RowsOf(s)'
  <2>1. ASSUME NEW x \in Written(s)'
        PROVE  IF x \in StoredVersions THEN edit'[s].new[x].number = versions[x].number
               ELSE x = s /\ edit'[s].new[x].number = TopNumber + 1
    <3>1. CASE x = v /\ v \notin Written(s)
      BY <1>2, <1>7, <1>12, <3>1 DEF Select
    <3>2. CASE x = v /\ v \in Written(s)
      BY <1>1, <1>2, <1>7, <3>2 DEF Select, SessionInv, RowsOf
    <3>3. CASE x # v
      BY <1>1, <1>6, <1>7, <3>3 DEF SessionInv, RowsOf
    <3>. QED  BY <3>1, <3>2, <3>3
  <2>. QED  BY <1>5, <1>7, <1>11, <2>1 DEF RowsOf, Plain, StoredVersions
<1>14. PlansOf(s)'
  <2>1. CASE on
    <3>1. Todo(s)' = <<>>
      BY <1>1, <1>6, <2>1, RestOfPlan
    <3>. QED  BY <1>7, <2>1, <3>1 DEF PlansOf, Plain
  <2>2. CASE ~ on
    <3>1. Len(Todo(s)) = 2 /\ Todo(s)[2][2] /\ Todo(s)[2][1] \in Selected(s)
      BY <1>1, <2>2 DEF SessionInv, PlansOf, Target
    <3>2. Len(Todo(s)') = 1 /\ Todo(s)'[1] = Todo(s)[2]
      BY <1>1, <1>6, <3>1, RestOfPlan
    <3>3. edit'[s].pc = "load"
      BY <1>7, <2>2
    <3>4. Target(s)' = Todo(s)[2][1]
      BY <3>2 DEF Target
    <3>. QED  BY <1>9, <3>1, <3>2, <3>3, <3>4 DEF PlansOf, Plain
  <2>. QED  BY <2>1, <2>2
<1>15. SwitchedOn(s)'
  <2>1. CASE on
    <3>1. \A x \in Selected(s) \ {v} : ~ Select(s, x).active
      BY <2>1 DEF ActiveTaken
    <3>2. \A x \in Selected(s) : Select(s, x)'.active => x = v
      BY <1>8, <3>1 DEF Selected
    <3>3. \A w \in Written(s)' : edit'[s].new[w].active => w = v
      BY <1>6, <1>7, <1>10
    <3>. QED  BY <1>7, <1>9, <2>1, <3>2, <3>3 DEF SwitchedOn
  <2>2. CASE ~ on
    <3>1. \A w \in Written(s)' : ~ edit'[s].new[w].active
      BY <1>2, <1>6, <1>7, <1>10, <2>2
    <3>. QED  BY <3>1 DEF SwitchedOn
  <2>. QED  BY <2>1, <2>2
<1>16. SwitchedOff(s)'
  <2>1. CASE on
    <3>1. v \in Written(s)' /\ edit'[s].new[v].active
      BY <1>2, <1>6, <1>7, <2>1
    <3>. QED  BY <3>1 DEF SwitchedOff
  <2>2. CASE ~ on
    <3>1. Len(Todo(s)') = 1 /\ Todo(s)'[1] = Todo(s)[2] /\ edit'[s].pc = "load"
      BY <1>1, <1>6, <1>7, <2>2, RestOfPlan
    <3>2. Target(s)' = Target(s)
      BY <2>2, <3>1 DEF Target
    <3>3. \A w \in Written(s)' : versions[w].active => w = v
      BY <1>6, <1>11, <2>2, Sees
    <3>. QED  BY <2>2, <3>1, <3>2, <3>3 DEF SwitchedOff
  <2>. QED  BY <2>1, <2>2
<1>17. SessionInv(s)'
  BY <1>13, <1>14, <1>15, <1>16 DEF SessionInv
<1>18. ASSUME NEW o \in Others(s) PROVE Apart(s, o)' /\ Apart(o, s)'
  <2>1. edit'[o] = edit[o] /\ Written(o)' = Written(o) /\ o # s /\ o \in Editors
    BY <1>1, <1>4 DEF Others, PromptTypes, Written
  <2>2. Apart(s, o) /\ Apart(o, s) /\ SwitchedOn(o) /\ v \notin Written(o)
    BY <2>1 DEF PromptInv, SessionInv
  <2>3. s \in Written(s)' => s \in Written(s)
    BY <1>6, <1>11, <1>12
  <2>4. (\E w \in Written(s)' : edit'[s].new[w].active) =>
          \A x \in Written(o) : ~ versions[x].active /\ ~ edit[o].new[x].active
    <3>1. CASE on
      BY <2>2, <3>1 DEF ActivePending
    <3>2. CASE ~ on
      BY <1>2, <1>6, <1>7, <1>10, <3>2
    <3>. QED  BY <3>1, <3>2
  <2>5. ASSUME NEW w \in Written(o), edit[o].new[w].active
        PROVE  \A x \in Written(s)' : ~ versions[x].active /\ ~ edit'[s].new[x].active
    <3>1. ~ on
      BY <2>2, <2>5 DEF ActivePending
    <3>2. ~ row.active
      BY <1>2, <3>1
    <3>3. ~ versions[v].active
      <4>1. v \in StoredVersions /\ v \in Selected(o)
        BY <2>1, <3>1, Sees
      <4>2. Select(o, v) = versions[v]
        BY <2>2 DEF Select
      <4>. QED  BY <2>2, <2>5, <4>1, <4>2 DEF SwitchedOn
    <3>. QED  BY <1>6, <1>7, <2>2, <2>5, <3>2, <3>3 DEF Apart
  <2>6. Apart(s, o)'
    BY <1>6, <2>1, <2>2, <2>3, <2>4 DEF Apart
  <2>7. Apart(o, s)'
    BY <1>6, <2>1, <2>2, <2>3, <2>5 DEF Apart
  <2>. QED  BY <2>6, <2>7
<1>. QED  BY <1>1, <1>4, <1>17, <1>18, LocalStep

LEMMA FlushActiveStep ==
  ASSUME PromptInv, NEW s \in Editors, FlushActive(s)
  PROVE  PromptInv'
<1> DEFINE v == Head(edit[s].todo)[1]
           on == Head(edit[s].todo)[2]
           next == IF Len(edit[s].todo) = 1 THEN "commit" ELSE "load"
<1>1. /\ edit[s] \in EditRecord /\ edit[s].todo \in Seq(Editors \X BOOLEAN)
      /\ SessionInv(s) /\ PromptTypes /\ template \subseteq Editors
  BY PromptRecords DEF PromptInv, PromptTypes
<1>2. edit[s].pc = "flush" /\ UNCHANGED <<template, versions>>
  BY DEF FlushActive
<1>3. /\ Len(Todo(s)) \in {1, 2} /\ Todo(s) = edit[s].todo
      /\ Todo(s)[Len(Todo(s))][2] /\ Target(s) \in Selected(s)
  BY <1>1, <1>2 DEF SessionInv, PlansOf, Todo
<1>4. Head(Todo(s)) = Todo(s)[1] /\ Todo(s)[1] \in Editors \X BOOLEAN
  BY <1>1, <1>3, RestOfPlan
<1>5. v = Todo(s)[1][1] /\ on = Todo(s)[1][2] /\ v \in Editors /\ on \in BOOLEAN
  BY <1>3, <1>4
<1>6. CASE Len(Todo(s)) = 1
  <2>1. on = TRUE /\ v = Target(s) /\ v \in Selected(s) /\ next = "commit"
    BY <1>3, <1>5, <1>6 DEF Target
  <2>2. CASE on = edit[s].seen
    <3> DEFINE e == [edit[s] EXCEPT !.pc = "commit", !.todo = Tail(edit[s].todo)]
    <3>1. edit' = [edit EXCEPT ![s] = e]
      BY <2>1, <2>2 DEF FlushActive
    <3>2. Tail(edit[s].todo) = <<>> /\ Tail(edit[s].todo) \in Seq(Editors \X BOOLEAN)
      BY <1>1, <1>3, <1>6, RestOfPlan
    <3>3. "commit" \in Places
      BY DEF Places
    <3>4. e \in EditRecord /\ e.pc = "commit" /\ e.todo = Tail(edit[s].todo) /\ e.new = edit[s].new
      BY <1>1, <3>2, <3>3 DEF EditRecord
    <3> HIDE DEF e
    <3>5. edit'[s] = e /\ Written(s)' = Written(s)
      BY <1>1, <3>1, <3>4 DEF PromptTypes, Written
    <3>6. PlansOf(s)'
      BY <3>2, <3>4, <3>5 DEF PlansOf, Todo, Plain
    <3>7. edit[s].seen /\ \A x \in Written(s) : ~ edit[s].new[x].active
      BY <1>1, <1>2, <2>1, <2>2 DEF SessionInv, SwitchedOn
    <3>8. \A x \in Written(s) : ~ versions[x].active
      BY <1>1, <1>2, <3>7 DEF SessionInv, SwitchedOff
    <3>9. SwitchedOff(s)'
      BY <1>2, <3>5, <3>8 DEF SwitchedOff
    <3>. QED  BY <1>2, <3>1, <3>4, <3>6, <3>9, MoveStep
  <2>3. CASE on # edit[s].seen
    <3>1. /\ \A o \in Others(s) : v \notin Written(o)
          /\ on => ~ ActivePending(s, v)
          /\ edit' = IF on /\ ActiveTaken(s, v) THEN Fail(s)
                     ELSE Write(s, v, [Select(s, v) EXCEPT !.active = on], next)
      BY <2>3 DEF FlushActive
    <3>2. CASE ActiveTaken(s, v)
      BY <1>1, <1>2, <2>1, <3>1, <3>2, FailStep
    <3>3. CASE ~ ActiveTaken(s, v)
      <4> HIDE DEF v, on, next
      <4>. QED  BY <1>2, <1>5, <1>6, <2>1, <3>1, <3>3, FlushWrites
    <3>. QED  BY <3>2, <3>3
  <2>. QED  BY <2>2, <2>3
<1>7. CASE Len(Todo(s)) = 2
  <2>1. /\ on = FALSE /\ v # Target(s) /\ v \in StoredVersions /\ v \in Selected(s)
        /\ Written(s) \subseteq {s} /\ next = "load"
    <3>1. ~ Todo(s)[1][2] /\ v # Target(s) /\ v \in StoredVersions /\ Written(s) \subseteq {s}
      BY <1>1, <1>2, <1>5, <1>7 DEF SessionInv, PlansOf
    <3>2. v \in Selected(s)
      BY <3>1, Sees
    <3>. QED  BY <1>3, <1>5, <1>7, <3>1, <3>2
  <2>2. CASE on = edit[s].seen
    <3> DEFINE e == [edit[s] EXCEPT !.pc = "load", !.todo = Tail(edit[s].todo)]
    <3>1. edit' = [edit EXCEPT ![s] = e]
      BY <2>1, <2>2 DEF FlushActive
    <3>2. /\ Tail(edit[s].todo) \in Seq(Editors \X BOOLEAN)
          /\ Len(Tail(edit[s].todo)) = 1 /\ Tail(edit[s].todo)[1] = Todo(s)[2]
      BY <1>1, <1>3, <1>7, RestOfPlan
    <3>3. "load" \in Places
      BY DEF Places
    <3>4. e \in EditRecord /\ e.pc = "load" /\ e.todo = Tail(edit[s].todo) /\ e.new = edit[s].new
      BY <1>1, <3>2, <3>3 DEF EditRecord
    <3> HIDE DEF e
    <3>5. edit'[s] = e /\ Written(s)' = Written(s)
      BY <1>1, <3>1, <3>4 DEF PromptTypes, Written
    <3>6. Selected(s)' = Selected(s)
      <4>1. \A x \in Editors : Select(s, x)' = Select(s, x)
        BY <1>2, <3>4, <3>5 DEF Select, Written
      <4>. QED  BY <4>1 DEF Selected
    <3>7. Todo(s)' = Tail(edit[s].todo) /\ Target(s)' = Target(s)
      BY <1>7, <3>2, <3>4, <3>5 DEF Todo, Target
    <3>8. PlansOf(s)'
      <4>1. Len(Todo(s)') = 1 /\ Todo(s)'[1][2] /\ Target(s)' \in Selected(s)'
        BY <1>3, <1>7, <3>2, <3>6, <3>7
      <4>2. edit'[s].pc = "load"
        BY <3>4, <3>5
      <4>. QED  BY <4>1, <4>2 DEF PlansOf, Plain
    <3>9. \A x \in Written(s) : ~ versions[x].active
      BY <1>1, <1>2, <2>1, Sees DEF SessionInv, RowsOf, StoredVersions
    <3>10. SwitchedOff(s)'
      BY <1>2, <3>5, <3>9 DEF SwitchedOff
    <3>. QED  BY <1>2, <3>1, <3>4, <3>8, <3>10, MoveStep
  <2>3. CASE on # edit[s].seen
    <3>1. /\ \A o \in Others(s) : v \notin Written(o)
          /\ edit' = Write(s, v, [Select(s, v) EXCEPT !.active = on], next)
      BY <2>1, <2>3 DEF FlushActive
    <3> HIDE DEF v, on, next
    <3>. QED  BY <1>2, <1>5, <1>7, <2>1, <3>1, FlushWrites
  <2>. QED  BY <2>2, <2>3
<1>. QED  BY <1>3, <1>6, <1>7

\* A commit leaves the active versions as they are, or leaves one.
LEMMA CommitActives ==
  ASSUME PromptInv, NEW s \in Editors, CommitEdit(s)
  PROVE  ActiveVersions' = ActiveVersions \/ \E v \in Editors : ActiveVersions' = {v}
<1>1. SessionInv(s) /\ Written(s) \subseteq Editors
  BY PromptRecords DEF PromptInv
<1>2. edit[s].pc = "commit" /\ \A v \in Editors : versions'[v] = Select(s, v)
  BY DEF CommitEdit
<1>3. ActiveVersions' = {v \in Editors : Select(s, v).active}
  BY <1>2 DEF ActiveVersions
<1>4. CASE \E v \in Written(s) : edit[s].new[v].active
  <2>1. PICK v \in Written(s) : edit[s].new[v].active
    BY <1>4
  <2>2. v \in Editors /\ Select(s, v).active
    BY <1>1, <2>1 DEF Select
  <2>3. \A x \in Editors : Select(s, x).active => x = v
    BY <1>1, <2>1, Sees DEF SessionInv, SwitchedOn
  <2>. QED  BY <1>3, <2>2, <2>3
<1>5. CASE ~ \E v \in Written(s) : edit[s].new[v].active
  <2>1. \A x \in Written(s) : ~ versions[x].active
    BY <1>1, <1>2, <1>5 DEF SessionInv, SwitchedOff
  <2>2. \A x \in Editors : Select(s, x).active <=> versions[x].active
    BY <1>5, <2>1 DEF Select
  <2>. QED  BY <1>3, <2>2 DEF ActiveVersions
<1>. QED  BY <1>4, <1>5

LEMMA EditCommitStep ==
  ASSUME PromptInv, NEW s \in Editors, CommitEdit(s)
  PROVE  PromptInv'
<1>1. SessionInv(s) /\ Written(s) \subseteq Editors /\ PromptTypes /\ TableInv
  BY PromptRecords DEF PromptInv
<1>2. edit[s].pc = "commit" /\ template' = template /\ \A v \in Editors : versions'[v] = Select(s, v)
  BY DEF CommitEdit
<1> DEFINE e == [Unbegun EXCEPT !.pc = "done"]
<1>3. edit' = [edit EXCEPT ![s] = e]
  BY DEF CommitEdit
<1>4. e \in EditRecord /\ e.pc = "done" /\ e.todo = <<>> /\ DOMAIN e.new = {}
  BY UnbegunType DEF Places, Plain
<1> HIDE DEF e
<1>5. edit'[s] = e /\ \A o \in Others(s) : edit'[o] = edit[o] /\ o \in Editors /\ o # s
  BY <1>1, <1>3 DEF PromptTypes, Others
<1>6. PromptTypes'
  <2>1. versions' \in [Editors -> VersionRow \cup {NoVersion}]
    BY <1>1, PromptRecords DEF CommitEdit
  <2>. QED  BY <1>1, <1>2, <1>3, <1>4, <2>1 DEF PromptTypes
<1>7. StoredVersions' = StoredVersions \cup Written(s)
  <2>1. StoredVersions' = Selected(s)
    BY <1>2 DEF StoredVersions, Selected
  <2>. QED  BY <2>1, Sees
<1>8. \A v \in StoredVersions : versions'[v].number = versions[v].number
  BY <1>1, <1>2 DEF SessionInv, RowsOf, Select, StoredVersions
<1>9. TopNumber \in Nat /\ TopNumber' = IF s \in Written(s) THEN TopNumber + 1 ELSE TopNumber
  <2>1. s \notin StoredVersions
    BY <1>1, <1>2 DEF SessionInv, RowsOf, StoredVersions
  <2>2. StoredVersions' = IF s \in Written(s) THEN StoredVersions \cup {s} ELSE StoredVersions
    BY <1>1, <1>7 DEF SessionInv, RowsOf
  <2>3. IsFiniteSet(StoredVersions)
    BY <1>1 DEF TableInv
  <2>. QED  BY <2>1, <2>2, <2>3, FS_AddElement, TopNumberType DEF TopNumber
<1>10. TableInv'
  <2>1. IsFiniteSet(StoredVersions) /\ {versions[v].number : v \in StoredVersions} = 1..TopNumber
    BY <1>1 DEF TableInv
  <2>2. {versions'[v].number : v \in StoredVersions} = 1..TopNumber
    BY <1>8, <2>1
  <2>3. CASE s \in Written(s)
    <3>1. s \notin StoredVersions
      BY <1>1, <1>2 DEF SessionInv, RowsOf, StoredVersions
    <3>2. StoredVersions' = StoredVersions \cup {s}
      BY <1>1, <1>7, <2>3 DEF SessionInv, RowsOf
    <3>3. versions'[s].number = TopNumber + 1
      BY <1>1, <1>2, <2>3, <3>1 DEF SessionInv, RowsOf, Select
    <3>4. {versions'[v].number : v \in StoredVersions'} = 1..TopNumber'
      BY <1>9, <2>2, <2>3, <3>2, <3>3
    <3>5. IsFiniteSet(StoredVersions')
      BY <2>1, <3>2, FS_AddElement
    <3>6. \A v, w \in ActiveVersions' : v = w
      BY <1>1, CommitActives DEF TableInv
    <3>. QED  BY <3>4, <3>5, <3>6 DEF TableInv
  <2>4. CASE s \notin Written(s)
    <3>1. StoredVersions' = StoredVersions
      BY <1>1, <1>7, <2>4 DEF SessionInv, RowsOf
    <3>2. \A v, w \in ActiveVersions' : v = w
      BY <1>1, CommitActives DEF TableInv
    <3>. QED  BY <1>9, <2>1, <2>2, <2>4, <3>1, <3>2 DEF TableInv
  <2>. QED  BY <2>3, <2>4
<1>11. SessionInv(s)'
  <2>1. edit'[s].pc = "done" /\ Todo(s)' = <<>> /\ Written(s)' = {}
    BY <1>4, <1>5 DEF Todo, Written
  <2>. QED  BY <2>1 DEF SessionInv, RowsOf, PlansOf, SwitchedOn, SwitchedOff
<1>12. ASSUME NEW o \in Others(s)
       PROVE  /\ Apart(o, s) /\ Apart(s, o) /\ SessionInv(o)
              /\ Written(o)' = Written(o) /\ Todo(o)' = Todo(o) /\ Target(o)' = Target(o)
              /\ Written(o) \subseteq Editors
              /\ \A v \in Written(o) : v \notin Written(s) /\ versions'[v] = versions[v]
  <2>1. Apart(o, s) /\ Apart(s, o) /\ SessionInv(o) /\ Written(o) \subseteq Editors
    BY <1>1, <1>5, PromptRecords DEF PromptInv
  <2>2. \A v \in Written(o) : v \notin Written(s)
    BY <2>1 DEF Apart
  <2>. QED  BY <1>2, <1>5, <2>1, <2>2 DEF Select, Written, Todo, Target
<1>13. ASSUME NEW o \in Others(s) PROVE SessionInv(o)'
  <2>1. /\ SessionInv(o) /\ Apart(o, s) /\ edit'[o] = edit[o] /\ o \in Editors /\ o # s
        /\ Written(o)' = Written(o) /\ Todo(o)' = Todo(o) /\ Target(o)' = Target(o)
        /\ \A v \in Written(o) : v \notin Written(s) /\ versions'[v] = versions[v]
    BY <1>5, <1>12
  <2>2. edit[o].pc # "done" => o \notin Written(s)
    BY <1>1, <2>1 DEF SessionInv, RowsOf, StoredVersions
  <2>3. Selected(o) \subseteq Selected(o)'
    <3>1. Selected(o) = StoredVersions \cup Written(o)
      BY <2>1, Sees
    <3>2. ASSUME NEW v \in StoredVersions \cup Written(o) PROVE v \in Editors /\ Present(Select(o, v)')
      <4>1. CASE v \in Written(o)
        <5>1. v \in Selected(o) /\ Select(o, v)' = Select(o, v)
          BY <2>1, <3>1, <4>1 DEF Select
        <5>. QED  BY <5>1 DEF Selected
      <4>2. CASE v \notin Written(o)
        <5>1. v \in StoredVersions' /\ Select(o, v)' = versions'[v]
          BY <1>7, <2>1, <3>2, <4>2 DEF Select
        <5>. QED  BY <5>1 DEF StoredVersions
      <4>. QED  BY <4>1, <4>2
    <3>. QED  BY <3>1, <3>2 DEF Selected, Present
  <2>4. RowsOf(o)'
    <3>1. edit[o].pc # "done" => ~ Present(versions'[o])
      BY <1>2, <2>1, <2>2 DEF SessionInv, RowsOf, Select
    <3>2. ASSUME NEW v \in Written(o)
          PROVE  IF v \in StoredVersions' THEN edit[o].new[v].number = versions'[v].number
                 ELSE v = o /\ edit[o].new[v].number = TopNumber' + 1
      <4>1. v \in StoredVersions' <=> v \in StoredVersions
        BY <1>7, <2>1
      <4>2. CASE v \in StoredVersions
        BY <2>1, <4>1, <4>2 DEF SessionInv, RowsOf
      <4>3. CASE v \notin StoredVersions
        <5>1. v = o /\ edit[o].new[v].number = TopNumber + 1
          BY <2>1, <4>3 DEF SessionInv, RowsOf
        <5>2. TopNumber' = TopNumber
          BY <1>9, <2>1, <5>1 DEF Apart
        <5>. QED  BY <4>1, <4>3, <5>1, <5>2
      <4>. QED  BY <4>2, <4>3
    <3>3. edit[o].pc = "insert" => edit[o].number \in 1..(TopNumber' + 1)
      BY <1>9, <2>1 DEF SessionInv, RowsOf
    <3>4. edit[o].pc \in Plain => Written(o) = {}
      BY <2>1 DEF SessionInv, RowsOf
    <3>. QED  BY <2>1, <3>1, <3>2, <3>3, <3>4 DEF RowsOf
  <2>5. PlansOf(o)'
    BY <1>7, <2>1, <2>3 DEF SessionInv, PlansOf
  <2>6. SwitchedOn(o)'
    <3> SUFFICES ASSUME NEW v \in Written(o), edit[o].new[v].active
                 PROVE  /\ edit[o].pc = "commit"
                        /\ \A x \in Selected(o)' : Select(o, x)'.active => x = v
      BY <2>1 DEF SwitchedOn
    <3>1. /\ edit[o].pc = "commit"
          /\ \A x \in Selected(o) : Select(o, x).active => x = v
      BY <2>1 DEF SessionInv, SwitchedOn
    <3>2. ASSUME NEW x \in Editors, Select(o, x)'.active PROVE Select(o, x).active
      <4>1. CASE x \in Written(o)
        BY <2>1, <3>2, <4>1 DEF Select
      <4>2. CASE x \notin Written(o) /\ x \in Written(s)
        <5>1. ~ edit[s].new[x].active
          BY <2>1, <4>2 DEF Apart
        <5>2. Select(o, x)' = edit[s].new[x]
          BY <1>2, <2>1, <4>2 DEF Select
        <5>. QED  BY <3>2, <5>1, <5>2
      <4>3. CASE x \notin Written(o) /\ x \notin Written(s)
        BY <1>2, <2>1, <3>2, <4>3 DEF Select
      <4>. QED  BY <4>1, <4>2, <4>3
    <3>3. ASSUME NEW x \in Selected(o)', Select(o, x)'.active PROVE x = v
      <4>1. x \in Editors
        BY DEF Selected
      <4>2. Select(o, x).active
        BY <3>2, <3>3, <4>1
      <4>3. x \in Selected(o)
        BY <2>1, <4>1, <4>2, Sees
      <4>. QED  BY <3>1, <4>2, <4>3
    <3>. QED  BY <3>1, <3>3
  <2>7. SwitchedOff(o)'
    BY <2>1 DEF SessionInv, SwitchedOff
  <2>. QED  BY <2>4, <2>5, <2>6, <2>7 DEF SessionInv
<1>14. ASSUME NEW o \in Editors, NEW p \in Editors, o # p PROVE Apart(o, p)'
  <2>1. Written(s)' = {}
    BY <1>4, <1>5 DEF Written
  <2>2. CASE o = s \/ p = s
    BY <2>1, <2>2 DEF Apart
  <2>3. CASE o # s /\ p # s
    <3>1. o \in Others(s) /\ p \in Others(s) /\ Apart(o, p)
      BY <1>14, <2>3 DEF Others, PromptInv
    <3>. QED  BY <1>5, <1>12, <3>1 DEF Apart
  <2>. QED  BY <2>2, <2>3
<1>. QED  BY <1>5, <1>6, <1>10, <1>11, <1>13, <1>14 DEF PromptInv, Others

\* One step per action of PromptNext.
LEMMA PromptInvStep == PromptInv /\ [PromptNext]_promptVars => PromptInv'
<1> SUFFICES ASSUME PromptInv, [PromptNext]_promptVars PROVE PromptInv'
  OBVIOUS
<1>1. ASSUME NEW s \in Editors, EditFails(s) PROVE PromptInv'
  BY <1>1, FailStep DEF EditFails, PromptInv, PromptTypes
<1>2. CASE UNCHANGED promptVars
  <2>1. template' = template /\ versions' = versions /\ edit' = edit
    BY <1>2 DEF promptVars
  <2>2. PromptTypes'
    BY <2>1 DEF PromptInv, PromptTypes
  <2>3. StoredVersions' = StoredVersions /\ TopNumber' = TopNumber /\ ActiveVersions' = ActiveVersions
    BY <2>1 DEF StoredVersions, TopNumber, ActiveVersions
  <2>4. TableInv'
    BY <2>1, <2>3 DEF PromptInv, TableInv
  <2>5. ASSUME NEW s \in Editors PROVE SessionInv(s)'
    <3>1. SessionInv(s)
      BY <2>5 DEF PromptInv
    <3>2. Written(s)' = Written(s) /\ Todo(s)' = Todo(s) /\ Target(s)' = Target(s)
      BY <2>1 DEF Written, Todo, Target
    <3>3. \A v \in Editors : Select(s, v)' = Select(s, v)
      BY <2>1 DEF Select, Written
    <3>4. Selected(s)' = Selected(s)
      BY <3>3 DEF Selected
    <3>5. RowsOf(s)'
      BY <2>1, <2>3, <3>1, <3>2 DEF SessionInv, RowsOf
    <3>6. PlansOf(s)'
      BY <2>1, <2>3, <3>1, <3>2, <3>4 DEF SessionInv, PlansOf
    <3>7. SwitchedOn(s)'
      <4>1. \A x \in Selected(s) : Select(s, x)' = Select(s, x)
        BY <3>3 DEF Selected
      <4>. QED  BY <2>1, <3>1, <3>2, <3>4, <4>1 DEF SessionInv, SwitchedOn
    <3>8. SwitchedOff(s)'
      BY <2>1, <3>1, <3>2 DEF SessionInv, SwitchedOff
    <3>. QED  BY <3>5, <3>6, <3>7, <3>8 DEF SessionInv
  <2>6. ASSUME NEW s \in Editors, NEW o \in Editors, s # o PROVE Apart(s, o)'
    BY <2>1, <2>6 DEF PromptInv, Apart, Written
  <2>. QED  BY <2>2, <2>4, <2>5, <2>6 DEF PromptInv
<1>3. CASE PromptNext
  <2>1. PICK s \in Editors :
          \/ PostTemplate(s) \/ PostVersion(s) \/ PostActivate(s)
          \/ InsertTemplate(s) \/ ReadMax(s) \/ InsertVersion(s)
          \/ FindActive(s) \/ LoadVersion(s) \/ FlushActive(s) \/ CommitEdit(s) \/ EditFails(s)
    BY <1>3 DEF PromptNext
  <2>. QED  BY <1>1, <2>1, TemplateStep, CreateVersionStep, ActivateStep, ReadMaxStep,
              InsertVersionStep, FindActiveStep, LoadVersionStep, FlushActiveStep, EditCommitStep
<1>. QED  BY <1>2, <1>3

LEMMA PromptInvHolds == PromptSpec => []PromptInv
  BY PromptInitInv, PromptInvStep, PTL DEF PromptSpec

\* Versions, their numbers and the sessions of create_version and set_active
\* stay in their types, for any number of requests.
THEOREM PromptTypeCorrect == PromptSpec => []PromptTypeOK
<1>1. PromptInv => PromptTypeOK
  BY PromptRecords DEF PromptInv, PromptTypes, PromptTypeOK
<1>. QED  BY <1>1, PromptInvHolds, PTL

\* However many requests create versions of a template at once, the numbers
\* that create_version gave to the committed ones are 1..n: max + 1 is read
\* without a lock, and the unique constraint stops the second of two.
THEOREM NumbersAreDense == PromptSpec => []NumbersHaveNoGaps
<1>1. PromptInv => NumbersHaveNoGaps
  BY DEF PromptInv, TableInv, NumbersHaveNoGaps, TopNumber, StoredVersions
<1>. QED  BY <1>1, PromptInvHolds, PTL

\* Only a commit changes what is stored.
LEMMA OnlyCommits ==
  ASSUME [PromptNext]_promptVars
  PROVE  versions' = versions \/ \E s \in Editors : CommitEdit(s)
  BY DEF PromptNext, promptVars, PostTemplate, CreateTemplate, PostVersion, CreateVersion,
     PostActivate, ActivateVersion, InsertTemplate, ReadMax, InsertVersion, FindActive,
     LoadVersion, FlushActive, EditFails

\* A template that has an active version has exactly one after whatever
\* set_active and create_version commit, in any interleaving: what one
\* session switches off it replaces, and two do not replace at once.
THEOREM OneStaysActive == PromptSpec => ActiveVersionStays
<1>1. ASSUME PromptInv, [PromptNext]_promptVars, ActiveVersions # {}
      PROVE  Cardinality(ActiveVersions') = 1
  <2>1. PICK a : a \in ActiveVersions
    BY <1>1
  <2>2. ActiveVersions = {a}
    BY <1>1, <2>1 DEF PromptInv, TableInv
  <2>3. ActiveVersions' = ActiveVersions \/ \E v \in Editors : ActiveVersions' = {v}
    <3>1. CASE versions' = versions
      BY <3>1 DEF ActiveVersions
    <3>2. CASE \E s \in Editors : CommitEdit(s)
      BY <1>1, <3>2, CommitActives
    <3>. QED  BY <1>1, <3>1, <3>2, OnlyCommits
  <2>. QED  BY <2>2, <2>3, FS_Singleton
<1>2. PromptInv /\ [PromptNext]_promptVars =>
        [ActiveVersions # {} => Cardinality(ActiveVersions') = 1]_promptVars
  BY <1>1
<1>. QED  BY <1>2, PromptInvHolds, PTL DEF PromptSpec, ActiveVersionStays

------------------------------------------------------------------------------
(***************************************************************************)
(* Accounts and refresh tokens                                             *)
(***************************************************************************)

\* A request in progress, and a row of refresh_tokens.
CallRecord ==
  [pc : {"new", "load", "issue", "commit", "done", "failed"},
   op : {"none", "login", "refresh", "logout"},
   token : Callers \cup {NoToken}, newUser : BOOLEAN, revoke : BOOLEAN]
Token == [state : Stored, login : Callers]

AccountTypes ==
  /\ account \in SUBSET Callers
  /\ tokens \in [Callers -> Token \cup {Unissued}]
  /\ audit \subseteq Callers
  /\ call \in [Callers -> CallRecord]
  /\ shared \subseteq Callers

\* A token that has a row, one that refresh would take, and the login that
\* the token a request carries goes back to.
Issued(t) == tokens[t].state \in Stored
Usable(t) == tokens[t].state = "valid"
Carries(s) == call[s].op \in {"refresh", "logout"}
HeldLogin(s) == tokens[call[s].token].login

\* One user at most, with an audit record for each login and none other.
TablesInv ==
  /\ \A a, b \in account : a = b
  /\ (audit = {}) <=> (account = {})
  /\ \A t \in Callers : t \in audit <=> tokens[t].login = t
  /\ \A t \in Callers : Issued(t) => tokens[t].login \in audit

\* What a request has read, against the place it is at.
CallInv(s) ==
  /\ call[s].pc # "done" => tokens[s] = Unissued
  /\ call[s].pc \in {"new", "done", "failed"} => call[s].op = "none"
  /\ call[s].pc \in {"issue", "commit"} => call[s].op # "none"
  /\ call[s].op = "none" => call[s].newUser = FALSE 
  /\ call[s].op = "login" =>
       /\ call[s].token = NoToken /\ call[s].revoke = FALSE
       /\ call[s].newUser \/ account # {}
  /\ Carries(s) =>
       /\ call[s].newUser = FALSE
       /\ call[s].token \in Callers /\ Issued(call[s].token)
       /\ call[s].pc # "load" /\ Usable(call[s].token) => call[s].revoke
  /\ call[s].pc = "load" => Carries(s)

\* A login that no two requests carry at once: one token of it is usable at
\* most, and a request that carries one carries that one, alone.
ChainInv(l) ==
  /\ \A t, u \in Callers : Usable(t) /\ Usable(u) /\ tokens[t].login = l /\ tokens[u].login = l => t = u
  /\ \A s \in Callers : Carries(s) /\ HeldLogin(s) = l =>
       /\ \A t \in Callers : Usable(t) /\ tokens[t].login = l => t = call[s].token
       /\ \A o \in Callers : Carries(o) /\ HeldLogin(o) = l => o = s

\* The inductive invariant.
AccountsInv ==
  /\ AccountTypes /\ TablesInv
  /\ \A s \in Callers : CallInv(s)
  /\ \A l \in Callers \ shared : ChainInv(l)

------------------------------------------------------------------------------

LEMMA UncalledFacts ==
  /\ \A pc \in {"new", "done", "failed"} :
       /\ [Uncalled EXCEPT !.pc = pc] \in CallRecord
       /\ [Uncalled EXCEPT !.pc = pc].pc = pc
       /\ [Uncalled EXCEPT !.pc = pc].op = "none"
       /\ [Uncalled EXCEPT !.pc = pc].newUser = FALSE
  /\ Uncalled \in CallRecord /\ Uncalled.pc = "new" /\ Uncalled.op = "none" /\ Uncalled.newUser = FALSE
  BY DEF Uncalled, CallRecord

LEMMA TokenFacts ==
  /\ \A t \in Token \cup {Unissued} :
       /\ t.state \in Stored <=> t \in Token
       /\ t # Unissued => t.state \in Stored
       /\ t.login \in Callers => t.state \in Stored
       /\ t.state \in Stored => t.login \in Callers
  /\ Unissued.state = "none" /\ Unissued.login = NoToken /\ Unissued \notin Token
  /\ "valid" \in Stored /\ "revoked" \in Stored /\ "expired" \in Stored /\ "none" \notin Stored
<1>1. Unissued.state = "none" /\ Unissued.login = NoToken
  BY DEF Unissued
<1>2. \A t \in Token : t.state \in Stored /\ t.login \in Callers
  BY DEF Token
<1>3. "valid" \in Stored /\ "revoked" \in Stored /\ "expired" \in Stored /\ "none" \notin Stored
  BY DEF Stored
<1>. QED  BY <1>1, <1>2, <1>3, AccountsAssumption

\* A step of one request that changes no table.
LEMMA AccountCallStep ==
  ASSUME AccountsInv, NEW s \in Callers, NEW c \in CallRecord,
         call' = [call EXCEPT ![s] = c],
         UNCHANGED <<account, tokens, audit, shared>>,
         c.pc # "done" => tokens[s] = Unissued,
         c.pc \in {"new", "done", "failed"} => c.op = "none",
         c.pc \in {"issue", "commit"} => c.op # "none",
         c.pc = "load" => c.op \in {"refresh", "logout"},
         c.op = "none" => c.newUser = FALSE,
         c.op = "login" => /\ c.token = NoToken /\ c.revoke = FALSE
                           /\ c.newUser \/ account # {},
         c.op \in {"refresh", "logout"} =>
           /\ c.op = call[s].op /\ c.token = call[s].token /\ c.newUser = FALSE
           /\ c.pc # "load" /\ Usable(c.token) => c.revoke
  PROVE  AccountsInv'
<1>1. /\ call \in [Callers -> CallRecord] /\ call'[s] = c
      /\ \A o \in Callers : o # s => call'[o] = call[o]
  BY DEF AccountsInv, AccountTypes
<1>2. \A t \in Callers : Issued(t)' = Issued(t) /\ Usable(t)' = Usable(t)
  BY DEF Issued, Usable
<1>3. \A o \in Callers : Carries(o)' => Carries(o) /\ call'[o].token = call[o].token
  BY <1>1 DEF Carries
<1>4. AccountTypes'
  BY DEF AccountsInv, AccountTypes
<1>5. TablesInv'
  BY <1>2 DEF AccountsInv, TablesInv
<1>6. ASSUME NEW o \in Callers PROVE CallInv(o)'
  <2>1. CASE o # s
    <3>1. call'[o] = call[o] /\ Carries(o)' = Carries(o) /\ CallInv(o)
      BY <1>1, <2>1 DEF Carries, AccountsInv
    <3>2. Carries(o) => Usable(call[o].token)' = Usable(call[o].token) /\ Issued(call[o].token)' = Issued(call[o].token)
      BY <3>1 DEF Issued, Usable
    <3>. QED  BY <3>1, <3>2 DEF CallInv
  <2>2. CASE o = s
    <3>1. call'[o] = c
      BY <1>1, <2>2
    <3>2. c.op \in {"refresh", "logout"} =>
            /\ c.token \in Callers /\ Issued(c.token)' /\ Usable(c.token)' = Usable(c.token)
      BY <1>2, <2>2 DEF AccountsInv, CallInv, Carries
    <3>. QED  BY <2>2, <3>1, <3>2 DEF CallInv, Carries
  <2>. QED  BY <2>1, <2>2
<1>7. ASSUME NEW l \in Callers \ shared PROVE ChainInv(l)'
  <2>1. \A o \in Callers : Carries(o)' => Carries(o) /\ HeldLogin(o)' = HeldLogin(o)
    BY <1>3 DEF HeldLogin
  <2>. QED  BY <1>2, <1>3, <2>1 DEF AccountsInv, ChainInv
<1>. QED  BY <1>4, <1>5, <1>6, <1>7 DEF AccountsInv

LEMMA EndsStep ==
  ASSUME AccountsInv, NEW s \in Callers, NEW pc \in {"done", "failed"}, call[s].pc # "done", Ends(s, pc),
         UNCHANGED <<account, tokens, audit, shared>>
  PROVE  AccountsInv'
<1> DEFINE c == [Uncalled EXCEPT !.pc = pc]
<1>1. c \in CallRecord /\ c.pc = pc /\ c.op = "none" /\ c.newUser = FALSE
  BY UncalledFacts
<1>2. call' = [call EXCEPT ![s] = c]
  BY DEF Ends, Proceeds
<1>3. tokens[s] = Unissued
  BY DEF AccountsInv, CallInv
<1> HIDE DEF c
<1>. QED  BY <1>1, <1>2, <1>3, AccountCallStep

LEMMA LoginStep ==
  ASSUME AccountsInv, NEW s \in Callers, PostLogin(s)
  PROVE  AccountsInv'
<1>1. call[s].pc = "new" /\ Login(s)
  BY DEF PostLogin, Arrives
<1>2. CASE Ends(s, "failed")
  BY <1>1, <1>2, EndsStep DEF Login
<1>3. CASE Proceeds(s, [Uncalled EXCEPT !.pc = "issue", !.op = "login", !.newUser = (account = {})])
  <2> DEFINE c == [Uncalled EXCEPT !.pc = "issue", !.op = "login", !.newUser = (account = {})]
  <2>1. /\ c \in CallRecord /\ c.pc = "issue" /\ c.op = "login" /\ c.token = NoToken
        /\ c.revoke = FALSE
        /\ (c.newUser \/ account # {})
    BY DEF Uncalled, CallRecord
  <2>2. call' = [call EXCEPT ![s] = c] /\ UNCHANGED <<account, tokens, audit, shared>>
    BY <1>1, <1>3 DEF Proceeds, Login
  <2>3. tokens[s] = Unissued
    BY <1>1 DEF AccountsInv, CallInv
  <2> HIDE DEF c
  <2>4. c.op \notin {"none", "refresh", "logout"} /\ c.pc \notin {"new", "load", "done", "failed"}
    BY <2>1
  <2>. QED  BY <2>1, <2>2, <2>3, <2>4, AccountCallStep
<1>. QED  BY <1>1, <1>2, <1>3 DEF Login

LEMMA LoadStep ==
  ASSUME AccountsInv, NEW s \in Callers, LoadToken(s)
  PROVE  AccountsInv'
<1> DEFINE c == [call[s] EXCEPT !.revoke = tokens[call[s].token].state # "revoked",
                                !.pc = IF call[s].op = "refresh" THEN "issue" ELSE "commit"]
<1>1. call[s] \in CallRecord /\ CallInv(s) /\ call[s].pc = "load"
  BY DEF AccountsInv, AccountTypes, LoadToken
<1>2. /\ c \in CallRecord /\ c.pc \in {"issue", "commit"} /\ c.op = call[s].op
      /\ c.token = call[s].token /\ c.newUser = call[s].newUser
      /\ c.revoke = (tokens[call[s].token].state # "revoked")
  BY <1>1 DEF CallRecord
<1>3. call' = [call EXCEPT ![s] = c] /\ UNCHANGED <<account, tokens, audit, shared>>
  BY DEF LoadToken, Proceeds
<1> HIDE DEF c
<1>4. c.op \in {"refresh", "logout"} /\ call[s].newUser = FALSE /\ tokens[s] = Unissued
  BY <1>1, <1>2 DEF CallInv, Carries
<1>5. Usable(c.token) => c.revoke
  BY <1>2 DEF Usable
<1>. QED  BY <1>2, <1>3, <1>4, <1>5, AccountCallStep

LEMMA IssueStep ==
  ASSUME AccountsInv, NEW s \in Callers, IssueRefreshToken(s)
  PROVE  AccountsInv'
<1> DEFINE c == [call[s] EXCEPT !.pc = "commit"]
<1>1. call[s] \in CallRecord /\ CallInv(s) /\ call[s].pc = "issue"
  BY DEF AccountsInv, AccountTypes, IssueRefreshToken
<1>2. /\ c \in CallRecord /\ c.pc = "commit" /\ c.op = call[s].op
      /\ c.token = call[s].token /\ c.newUser = call[s].newUser /\ c.revoke = call[s].revoke
  BY <1>1 DEF CallRecord
<1>3. call' = [call EXCEPT ![s] = c] /\ UNCHANGED <<account, tokens, audit, shared>>
  BY DEF IssueRefreshToken, Proceeds
<1> HIDE DEF c
<1>. QED  BY <1>1, <1>2, <1>3, AccountCallStep DEF CallInv, Carries

\* A request that finds its token usable.
LEMMA PresentStep ==
  ASSUME AccountsInv, NEW s \in Callers, NEW t \in Callers, NEW op \in {"refresh", "logout"},
         call[s].pc = "new", PresentToken(s, op, t)
  PROVE  AccountsInv'
<1>1. CASE tokens[t].state # "valid"
  BY <1>1, EndsStep DEF PresentToken
<1>2. CASE tokens[t].state = "valid"
  <2> DEFINE c == [Uncalled EXCEPT !.pc = "load", !.op = op, !.token = t]
  <2>1. /\ c \in CallRecord /\ c.pc = "load" /\ c.op = op /\ c.token = t /\ c.newUser = FALSE
    BY DEF Uncalled, CallRecord
  <2>2. /\ call' = [call EXCEPT ![s] = c] /\ UNCHANGED <<account, tokens, audit>>
        /\ shared' = IF \E o \in Callers : InProgress(o) /\ call[o].token = t
                     THEN shared \cup {tokens[t].login} ELSE shared
    BY <1>2 DEF PresentToken, Proceeds
  <2> HIDE DEF c
  <2>3. /\ call'[s] = c /\ \A o \in Callers : o # s => call'[o] = call[o]
        /\ call' \in [Callers -> CallRecord]
    BY <2>1, <2>2 DEF AccountsInv, AccountTypes
  <2>4. Issued(t) /\ Usable(t) /\ tokens[t].login \in Callers
    BY <1>2, TokenFacts DEF Issued, Usable, AccountsInv, AccountTypes
  <2>5. \A u \in Callers : Issued(u)' = Issued(u) /\ Usable(u)' = Usable(u)
    BY <2>2 DEF Issued, Usable
  <2>6. AccountTypes'
    BY <2>2, <2>3, <2>4 DEF AccountsInv, AccountTypes
  <2>7. TablesInv'
    BY <2>2, <2>5 DEF AccountsInv, TablesInv
  <2>8. ASSUME NEW o \in Callers PROVE CallInv(o)'
    <3>1. CASE o = s
      <4>1. tokens[s] = Unissued
        BY DEF AccountsInv, CallInv
      <4>. QED  BY <2>1, <2>2, <2>3, <2>4, <2>5, <3>1, <4>1 DEF CallInv, Carries
    <3>2. CASE o # s
      <4>1. call'[o] = call[o] /\ Carries(o)' = Carries(o) /\ CallInv(o)
        BY <2>3, <3>2 DEF Carries, AccountsInv
      <4>2. Usable(call[o].token)' = Usable(call[o].token) /\ Issued(call[o].token)' = Issued(call[o].token)
        BY <2>2, <4>1 DEF Issued, Usable
      <4>. QED  BY <2>2, <4>1, <4>2 DEF CallInv
    <3>. QED  BY <3>1, <3>2
  <2>9. ASSUME NEW l \in Callers \ shared' PROVE ChainInv(l)'
    <3>1. l \notin shared /\ ChainInv(l)
      BY <2>2 DEF AccountsInv
    <3>2. ~ Carries(s)
      BY DEF AccountsInv, CallInv, Carries
    <3>3. \A o \in Callers : o # s => /\ Carries(o)' = Carries(o) /\ HeldLogin(o)' = HeldLogin(o)
                                      /\ call'[o].token = call[o].token
      BY <2>2, <2>3 DEF Carries, HeldLogin
    <3>4. Carries(s)' /\ HeldLogin(s)' = tokens[t].login /\ call'[s].token = t
      BY <2>1, <2>2, <2>3 DEF Carries, HeldLogin
    <3>5. CASE l # tokens[t].login
      BY <2>2, <2>5, <3>1, <3>2, <3>3, <3>4, <3>5 DEF ChainInv
    <3>6. CASE l = tokens[t].login
      <4>1. ASSUME NEW o \in Callers, o # s, Carries(o), HeldLogin(o) = l PROVE FALSE
        <5>1. call[o].token = t
          BY <2>4, <3>1, <3>6, <4>1 DEF ChainInv
        <5>2. InProgress(o)
          BY <4>1 DEF AccountsInv, CallInv, Carries, InProgress
        <5>. QED  BY <2>2, <3>6, <5>1, <5>2
      <4>2. \A u \in Callers : Usable(u) /\ tokens[u].login = l => u = t
        BY <2>4, <3>1, <3>6 DEF ChainInv
      <4>. QED  BY <2>2, <2>5, <3>1, <3>3, <3>4, <4>1, <4>2 DEF ChainInv
    <3>. QED  BY <3>5, <3>6
  <2>. QED  BY <2>6, <2>7, <2>8, <2>9 DEF AccountsInv
<1>. QED  BY <1>1, <1>2

LEMMA ExpireStep ==
  ASSUME AccountsInv, NEW t \in Callers, Expire(t)
  PROVE  AccountsInv'
<1>1. /\ UNCHANGED <<account, audit, call, shared>> /\ tokens[t] \in Token
      /\ tokens' = [tokens EXCEPT ![t].state = "expired"]
  BY TokenFacts DEF Expire, AccountsInv, AccountTypes
<1>2. [tokens[t] EXCEPT !.state = "expired"] \in Token
  BY <1>1, TokenFacts DEF Token
<1>3. AccountTypes'
  BY <1>1, <1>2 DEF AccountsInv, AccountTypes
<1>4. \A u \in Callers : /\ tokens'[u].login = tokens[u].login /\ Issued(u)' = Issued(u)
                         /\ Usable(u)' => Usable(u)
                         /\ tokens[u] = Unissued => tokens'[u] = Unissued
  <2>1. tokens'[t].state = "expired" /\ tokens'[t].login = tokens[t].login
    BY <1>1 DEF Token, AccountsInv, AccountTypes
  <2>2. \A u \in Callers : u # t => tokens'[u] = tokens[u]
    BY <1>1 DEF AccountsInv, AccountTypes
  <2>3. Issued(t) /\ tokens[t] # Unissued
    BY <1>1, TokenFacts DEF Issued
  <2>. QED  BY <2>1, <2>2, <2>3, TokenFacts DEF Issued, Usable
<1>5. TablesInv'
  BY <1>1, <1>4 DEF AccountsInv, TablesInv
<1>6. ASSUME NEW o \in Callers PROVE CallInv(o)'
  <2>1. call'[o] = call[o] /\ Carries(o)' = Carries(o) /\ CallInv(o)
    BY <1>1 DEF AccountsInv, Carries
  <2>2. call[o].token \in Callers => /\ Usable(call[o].token)' => Usable(call[o].token)
                                     /\ Issued(call[o].token)' = Issued(call[o].token)
    BY <1>4, <2>1
  <2>. QED  BY <1>1, <1>4, <2>1, <2>2 DEF CallInv
<1>7. ASSUME NEW l \in Callers \ shared' PROVE ChainInv(l)'
  <2>1. \A o \in Callers : Carries(o)' => /\ Carries(o) /\ HeldLogin(o)' = HeldLogin(o)
                                          /\ call'[o].token = call[o].token
    BY <1>1, <1>4 DEF Carries, HeldLogin, AccountsInv, CallInv
  <2>. QED  BY <1>1, <1>4, <2>1 DEF AccountsInv, ChainInv
<1>. QED  BY <1>3, <1>5, <1>6, <1>7 DEF AccountsInv

\* A commit revokes the token it presents and issues its own.
LEMMA CommitCallStep ==
  ASSUME AccountsInv, NEW s \in Callers, CommitCall(s)
  PROVE  AccountsInv'
<1> DEFINE c == call[s]
           login == IF c.op = "login" THEN s ELSE tokens[c.token].login
           issues == c.op # "logout"
<1>1. c \in CallRecord /\ c.pc = "commit" /\ CallInv(s) /\ tokens[s] = Unissued
  BY DEF CommitCall, AccountsInv, AccountTypes, CallInv
<1>2. c.op \in {"login", "refresh", "logout"} /\ (c.op = "login" <=> ~ Carries(s))
  BY <1>1 DEF CallInv, CallRecord, Carries
<1>3. login \in Callers
  <2>1. CASE c.op = "login"
    BY <2>1
  <2>2. CASE c.op # "login"
    <3>1. c.token \in Callers /\ Issued(c.token)
      BY <1>1, <1>2, <2>2 DEF CallInv
    <3>. QED  BY <2>2, <3>1, TokenFacts DEF Issued, AccountsInv, AccountTypes
  <2>. QED  BY <2>1, <2>2
<1>4. [state |-> "valid", login |-> login] \in Token
  BY <1>3, TokenFacts DEF Token
<1>5. /\ issues => tokens'[s].state = "valid" /\ tokens'[s].login = login /\ tokens'[s] \in Token
      /\ ~ issues => tokens'[s] = Unissued
  <2>1. issues => tokens'[s] = [state |-> "valid", login |-> login]
    BY DEF CommitCall
  <2>2. ~ issues => tokens'[s] = tokens[s]
    <3>1. ~ issues => c.token # s
      BY <1>1, <1>2, TokenFacts DEF CallInv, Carries, Issued
    <3>. QED  BY <3>1 DEF CommitCall
  <2>. QED  BY <1>1, <1>4, <2>1, <2>2
<1>6. ASSUME NEW t \in Callers, t # s
      PROVE  /\ t = c.token /\ c.revoke => tokens'[t] = [tokens[t] EXCEPT !.state = "revoked"]
             /\ ~ (t = c.token /\ c.revoke) => tokens'[t] = tokens[t]
  BY <1>6 DEF CommitCall
<1>7. ASSUME NEW t \in Callers, t # s
      PROVE  /\ tokens'[t] \in Token \cup {Unissued} /\ tokens'[t].login = tokens[t].login
             /\ Issued(t)' = Issued(t) /\ (Usable(t)' => Usable(t))
             /\ t = c.token /\ c.revoke => ~ Usable(t)'
             /\ tokens[t] = Unissued => tokens'[t] = Unissued
  <2>1. CASE t = c.token /\ c.revoke
    <3>1. tokens[t] \in Token
      <4>1. Carries(s)
        BY <1>1, <1>2, <1>7, <2>1 DEF CallInv
      <4>2. Issued(t)
        BY <1>1, <2>1, <4>1 DEF CallInv
      <4>. QED  BY <4>2, TokenFacts DEF Issued, AccountsInv, AccountTypes
    <3>2. /\ [tokens[t] EXCEPT !.state = "revoked"] \in Token
          /\ [tokens[t] EXCEPT !.state = "revoked"].state = "revoked"
          /\ [tokens[t] EXCEPT !.state = "revoked"].login = tokens[t].login
      BY <3>1, TokenFacts DEF Token
    <3>3. tokens'[t] = [tokens[t] EXCEPT !.state = "revoked"]
      BY <1>6, <1>7, <2>1
    <3>4. tokens'[t] \in Token /\ tokens'[t].state = "revoked" /\ tokens'[t].login = tokens[t].login
      BY <3>2, <3>3
    <3>. QED  BY <3>1, <3>4, TokenFacts DEF Issued, Usable
  <2>2. CASE ~ (t = c.token /\ c.revoke)
    BY <1>6, <1>7, <2>2 DEF Issued, Usable, AccountsInv, AccountTypes
  <2>. QED  BY <2>1, <2>2
<1>8. /\ account' = IF c.newUser THEN {s} ELSE account
      /\ audit' = IF c.op = "login" THEN audit \cup {s} ELSE audit
      /\ shared' = shared
      /\ c.newUser => account = {}
  BY DEF CommitCall
<1>9. /\ call'[s].op = "none" /\ call'[s].pc = "done" /\ call'[s].newUser = FALSE
      /\ call' \in [Callers -> CallRecord]
      /\ \A o \in Callers : o # s => call'[o] = call[o]
  BY UncalledFacts DEF CommitCall, Ends, Proceeds, AccountsInv, AccountTypes
<1>10. /\ c.op = "login" => c.newUser \/ account # {}
       /\ c.op # "login" => c.newUser = FALSE
  BY <1>1, <1>2 DEF CallInv
<1>11. c.op # "login" =>
         /\ c.token \in Callers /\ Issued(c.token) /\ tokens[c.token].login \in audit
         /\ Usable(c.token) => c.revoke
  BY <1>1, <1>2 DEF CallInv, AccountsInv, TablesInv
<1>12. s \notin audit /\ ~ Issued(s)
  BY <1>1, TokenFacts, AccountsAssumption DEF AccountsInv, TablesInv, Issued
<1>13. tokens' \in [Callers -> Token \cup {Unissued}]
  <2>1. \A t \in Callers : tokens'[t] \in Token \cup {Unissued}
    BY <1>5, <1>7
  <2>2. tokens' = [t \in Callers |-> tokens'[t]]
    BY DEF CommitCall
  <2>. QED  BY <2>1, <2>2
<1> HIDE DEF c
<1>14. AccountTypes'
  BY <1>8, <1>9, <1>13 DEF AccountsInv, AccountTypes
<1>15. TablesInv'
  <2>1. (\A a, b \in account' : a = b) /\ ((audit' = {}) <=> (account' = {}))
    BY <1>8, <1>10 DEF AccountsInv, TablesInv
  <2>2. ASSUME NEW t \in Callers PROVE t \in audit' <=> tokens'[t].login = t
    <3>1. CASE t # s
      BY <1>7, <1>8, <3>1 DEF AccountsInv, TablesInv
    <3>2. CASE t = s /\ c.op = "login"
      BY <1>5, <1>8, <3>2
    <3>3. CASE t = s /\ c.op # "login"
      BY <1>5, <1>8, <1>11, <1>12, <3>3, TokenFacts, AccountsAssumption
    <3>. QED  BY <3>1, <3>2, <3>3
  <2>3. ASSUME NEW t \in Callers, Issued(t)' PROVE tokens'[t].login \in audit'
    <3>1. CASE t # s
      BY <1>7, <1>8, <2>3, <3>1 DEF AccountsInv, TablesInv
    <3>2. CASE t = s
      <4>1. issues
        BY <1>5, <2>3, <3>2, TokenFacts DEF Issued
      <4>. QED  BY <1>5, <1>8, <1>11, <3>2, <4>1
    <3>. QED  BY <3>1, <3>2
  <2>. QED  BY <2>1, <2>2, <2>3 DEF TablesInv
<1>16. ASSUME NEW o \in Callers PROVE CallInv(o)'
  <2>1. CASE o = s
    BY <1>9, <2>1 DEF CallInv, Carries
  <2>2. CASE o # s
    <3>1. call'[o] = call[o] /\ Carries(o)' = Carries(o) /\ CallInv(o)
      BY <1>9, <2>2 DEF Carries, AccountsInv
    <3>2. account # {} => account' # {}
      BY <1>8
    <3>3. call[o].pc # "done" => tokens'[o] = Unissued
      BY <1>7, <2>2, <3>1 DEF CallInv
    <3>4. Carries(o) => /\ call[o].token \in Callers /\ call[o].token # s
                        /\ Issued(call[o].token)' /\ (Usable(call[o].token)' => Usable(call[o].token))
      BY <1>7, <1>12, <3>1 DEF CallInv
    <3>. QED  BY <3>1, <3>2, <3>3, <3>4 DEF CallInv
  <2>. QED  BY <2>1, <2>2
<1>17. ASSUME NEW l \in Callers \ shared' PROVE ChainInv(l)'
  <2>1. ChainInv(l)
    BY <1>8 DEF AccountsInv
  <2>2. ASSUME NEW o \in Callers, Carries(o)'
        PROVE  /\ o # s /\ Carries(o) /\ call'[o].token = call[o].token /\ HeldLogin(o)' = HeldLogin(o)
               /\ HeldLogin(o) \in audit
    <3>1. o # s
      BY <1>9, <2>2 DEF Carries
    <3>2. Carries(o) /\ call'[o].token = call[o].token /\ CallInv(o)
      BY <1>9, <2>2, <3>1 DEF Carries, AccountsInv
    <3>3. call[o].token \in Callers /\ call[o].token # s /\ Issued(call[o].token)
      BY <1>12, <3>2 DEF CallInv
    <3>. QED  BY <1>7, <3>1, <3>2, <3>3 DEF HeldLogin, AccountsInv, TablesInv
  <2>3. CASE issues /\ l = login
    <3>1. ASSUME NEW t \in Callers, t # s, Usable(t)', tokens'[t].login = l PROVE FALSE
      <4>1. Usable(t) /\ tokens[t].login = l
        BY <1>7, <3>1
      <4>2. CASE c.op = "login"
        <5>1. l = s /\ Issued(t)
          BY <2>3, <4>1, <4>2, TokenFacts DEF Issued, Usable
        <5>. QED  BY <1>12, <4>1, <5>1 DEF AccountsInv, TablesInv
      <4>3. CASE c.op # "login"
        <5>1. Carries(s) /\ HeldLogin(s) = l
          BY <1>2, <2>3, <4>3 DEF HeldLogin, c
        <5>2. t = c.token
          BY <2>1, <4>1, <5>1 DEF ChainInv, c
        <5>. QED  BY <1>7, <1>11, <3>1, <4>1, <4>3, <5>2
      <4>. QED  BY <4>2, <4>3
    <3>2. ASSUME NEW o \in Callers, Carries(o)', HeldLogin(o)' = l PROVE FALSE
      <4>1. o # s /\ Carries(o) /\ HeldLogin(o) = l /\ l \in audit
        BY <2>2, <3>2
      <4>2. c.op # "login"
        BY <1>12, <2>3, <4>1
      <4>3. Carries(s) /\ HeldLogin(s) = l
        BY <1>2, <2>3, <4>2 DEF HeldLogin, c
      <4>. QED  BY <2>1, <4>1, <4>3 DEF ChainInv
    <3>. QED  BY <3>1, <3>2 DEF ChainInv
  <2>4. CASE ~ (issues /\ l = login)
    <3>1. ASSUME NEW t \in Callers, Usable(t)', tokens'[t].login = l
          PROVE  Usable(t) /\ tokens[t].login = l
      <4>1. CASE t = s
        BY <1>5, <2>4, <3>1, <4>1, TokenFacts DEF Usable
      <4>2. CASE t # s
        BY <1>7, <3>1, <4>2
      <4>. QED  BY <4>1, <4>2
    <3>2. ASSUME NEW t \in Callers, NEW u \in Callers,
                 Usable(t)', Usable(u)', tokens'[t].login = l, tokens'[u].login = l
          PROVE  t = u
      BY <2>1, <3>1, <3>2 DEF ChainInv
    <3>3. ASSUME NEW r \in Callers, Carries(r)', HeldLogin(r)' = l
          PROVE  /\ \A t \in Callers : Usable(t)' /\ tokens'[t].login = l => t = call'[r].token
                 /\ \A o \in Callers : Carries(o)' /\ HeldLogin(o)' = l => o = r
      <4>1. Carries(r) /\ HeldLogin(r) = l /\ call'[r].token = call[r].token
        BY <2>2, <3>3
      <4>2. ASSUME NEW t \in Callers, Usable(t)', tokens'[t].login = l PROVE t = call[r].token
        BY <2>1, <3>1, <4>1, <4>2 DEF ChainInv
      <4>3. ASSUME NEW o \in Callers, Carries(o)', HeldLogin(o)' = l PROVE o = r
        BY <2>1, <2>2, <4>1, <4>3 DEF ChainInv
      <4>. QED  BY <4>1, <4>2, <4>3
    <3>. QED  BY <3>2, <3>3 DEF ChainInv
  <2>. QED  BY <2>3, <2>4
<1>. QED  BY <1>14, <1>15, <1>16, <1>17 DEF AccountsInv

LEMMA AccountsInitInv == AccountsInit => AccountsInv
<1> SUFFICES ASSUME AccountsInit PROVE AccountsInv
  OBVIOUS
<1>1. /\ account = {} /\ audit = {} /\ shared = {}
      /\ tokens = [t \in Callers |-> Unissued] /\ call = [o \in Callers |-> Uncalled]
  BY DEF AccountsInit
<1>2. AccountTypes
  BY <1>1, UncalledFacts DEF AccountTypes
<1>3. \A t \in Callers : ~ Issued(t) /\ ~ Usable(t) /\ ~ Carries(t) /\ tokens[t].login # t
  BY <1>1, UncalledFacts, TokenFacts, AccountsAssumption DEF Issued, Usable, Carries
<1>4. TablesInv
  BY <1>1, <1>3 DEF TablesInv
<1>5. \A o \in Callers : CallInv(o)
  BY <1>1, <1>3, UncalledFacts DEF CallInv
<1>6. \A l \in Callers : ChainInv(l)
  BY <1>3 DEF ChainInv
<1>. QED  BY <1>2, <1>4, <1>5, <1>6 DEF AccountsInv

\* One step per action of AccountsNext.
LEMMA AccountsInvStep == AccountsInv /\ [AccountsNext]_accountVars => AccountsInv'
<1> SUFFICES ASSUME AccountsInv, [AccountsNext]_accountVars PROVE AccountsInv'
  OBVIOUS
<1>1. ASSUME NEW s \in Callers, NEW t \in Callers, PostRefresh(s, t) PROVE AccountsInv'
  BY <1>1, PresentStep DEF PostRefresh, Refresh, Arrives
<1>2. ASSUME NEW s \in Callers, NEW t \in Callers, PostLogout(s, t) PROVE AccountsInv'
  BY <1>2, PresentStep DEF PostLogout, Logout, Arrives
<1>3. ASSUME NEW s \in Callers, UserTaken(s) PROVE AccountsInv'
  BY <1>3, EndsStep DEF UserTaken
<1>4. ASSUME NEW s \in Callers, CallFails(s) PROVE AccountsInv'
  BY <1>4, EndsStep DEF CallFails, InProgress
<1>5. CASE UNCHANGED accountVars
  <2>1. UNCHANGED <<account, tokens, audit, call, shared>>
    BY <1>5 DEF accountVars
  <2>2. AccountTypes' /\ TablesInv'
    BY <2>1 DEF AccountsInv, AccountTypes, TablesInv, Issued
  <2>3. \A o \in Callers : CallInv(o)'
    BY <2>1 DEF AccountsInv, CallInv, Carries, Issued, Usable
  <2>4. \A l \in Callers \ shared' : ChainInv(l)'
    BY <2>1 DEF AccountsInv, ChainInv, Carries, HeldLogin, Usable
  <2>. QED  BY <2>2, <2>3, <2>4 DEF AccountsInv
<1>6. CASE AccountsNext
  <2>1. PICK s \in Callers :
          \/ PostLogin(s)
          \/ \E t \in Callers : PostRefresh(s, t) \/ PostLogout(s, t)
          \/ LoadToken(s) \/ IssueRefreshToken(s) \/ CommitCall(s)
          \/ UserTaken(s) \/ CallFails(s) \/ Expire(s)
    BY <1>6 DEF AccountsNext
  <2>. QED  BY <1>1, <1>2, <1>3, <1>4, <2>1, LoginStep, LoadStep, IssueStep, CommitCallStep, ExpireStep
<1>. QED  BY <1>5, <1>6

LEMMA AccountsInvHolds == AccountsSpec => []AccountsInv
  BY AccountsInitInv, AccountsInvStep, PTL DEF AccountsSpec

\* A set in which any two members are equal.
LEMMA AtMostOne ==
  ASSUME NEW S, \A a, b \in S : a = b
  PROVE  Cardinality(S) <= 1
<1>1. CASE S = {}
  BY <1>1, FS_EmptySet
<1>2. CASE S # {}
  <2>1. PICK a : a \in S
    BY <1>2
  <2>2. S = {a}
    BY <2>1
  <2>3. Cardinality({a}) = 1
    BY FS_Singleton
  <2>. QED  BY <2>2, <2>3
<1>. QED  BY <1>1, <1>2

\* The user row, the refresh tokens and the requests of AuthService stay in
\* their types, for any number of requests.
THEOREM AccountsTypeCorrect == AccountsSpec => []AccountsTypeOK
<1>1. AccountsInv => AccountsTypeOK
  BY AtMostOne DEF AccountsInv, AccountTypes, TablesInv, AccountsTypeOK, Token
<1>. QED  BY <1>1, AccountsInvHolds, PTL

\* Rotation in AuthService.refresh keeps every login to one usable token,
\* unless two requests carried a token of that login at once, for any number
\* of requests and any expiry: the rest of what an auth audit relies on
\* (every token goes back to an audited login) holds in any case.
THEOREM LoginsAreChains == AccountsSpec => []TokensAreAChain
<1>1. ASSUME AccountsInv PROVE TokensAreAChain
  <2>1. ASSUME NEW l \in audit \ shared
        PROVE  Cardinality({t \in Callers : tokens[t].login = l /\ tokens[t].state = "valid"}) <= 1
    <3> DEFINE S == {t \in Callers : tokens[t].login = l /\ tokens[t].state = "valid"}
    <3>1. l \in Callers \ shared
      BY <1>1 DEF AccountsInv, AccountTypes
    <3>2. \A t, u \in S : t = u
      BY <1>1, <3>1 DEF AccountsInv, ChainInv, Usable
    <3> HIDE DEF S
    <3>3. Cardinality(S) <= 1
      BY <3>2, AtMostOne
    <3>. QED  BY <3>3 DEF S
  <2>2. audit = {t \in Callers : tokens[t].login = t}
    BY <1>1 DEF AccountsInv, AccountTypes, TablesInv
  <2>. QED  BY <1>1, <2>1, <2>2 DEF TokensAreAChain, AccountsInv, TablesInv
<1>. QED  BY <1>1, AccountsInvHolds, PTL

------------------------------------------------------------------------------
(***************************************************************************)
(* Projects, features, agents, users                                       *)
(***************************************************************************)

\* The operations that change a row, and the records of requests.
Updates == {"update_project", "archive", "attach", "update_feature", "transition_feature",
            "update_agent", "update_user", "revoke"}
OperationRecord ==
  [name : Creates \cup Updates \cup {"none"}, kind : Kinds \cup {"none"},
   text : Texts \cup {"none"}, status : Statuses \cup {"none"}]
HandlerRecord ==
  [pc : {"new", "insert", "read", "reload", "flush", "commit", "done", "refused"},
   op : OperationRecord, want : Row \cup {Missing}, base : Row \cup {Missing},
   new : SUBSET Kinds, cols : SUBSET {"status", "text", "link"}]

\* What the endpoints ask for.
Asking(op) ==
  \/ op.name = "create" /\ op.kind \in {"project", "agent"}
  \/ op.name = "create_feature" /\ op.kind = "feature"
  \/ op.name = "grant" /\ op.kind = "user_role"
  \/ op.name = "update_project" /\ op.kind = "project" /\ op.status = "none"
  \/ op.name = "archive" /\ op.kind = "project" /\ op.text = "none" /\ op.status = "archived"
  \/ op.name = "attach" /\ op.kind = "project" /\ op.text = "none" /\ op.status = "none"
  \/ op.name = "update_feature" /\ op.kind = "feature" /\ op.status = "none"
  \/ op.name = "transition_feature" /\ op.kind = "feature" /\ op.text = "none" /\ op.status \in FeatureStatus
  \/ op.name = "update_agent" /\ op.kind = "agent"
  \/ op.name = "update_user" /\ op.kind = "user"
  \/ op.name = "revoke" /\ op.kind = "user_role"

ResourceTypes ==
  /\ rows \in [Kinds -> Row \cup {Missing}]
  /\ handler \in [Requests -> HandlerRecord]
  /\ overtaken \subseteq Requests /\ shadowed \subseteq overtaken

InsertedKey(op) == IF op.name = "attach" THEN "repository" ELSE op.kind

\* place in the code against what is read and written
PlaceInv(c) ==
  /\ c.pc \in {"insert", "read", "reload", "flush", "commit"} => Asking(c.op)
  /\ c.pc \in {"new", "insert", "done", "refused"} => c.new = {}
  /\ c.pc = "insert" => c.op.name \in Creates \cup {"attach"}
  /\ c.pc = "read" => c.op.name = "attach" /\ c.new # {}
  /\ c.pc \in {"reload", "flush"} => c.op.name \in Updates
  /\ c.op.name \in Creates => c.pc \in {"insert", "commit"} /\ (c.pc = "commit" => c.new = {c.op.kind})
  /\ c.op.name \in Updates => c.new \subseteq {"repository"} /\ (c.new # {} => c.op.name = "attach")
  /\ c.pc # "commit" \/ c.op.name \notin Updates => c.cols = {}
  /\ c.pc \notin {"reload", "flush", "commit"} \/ c.op.name \in Creates \cup {"revoke"} => c.want = Missing
  /\ c.pc \in {"reload", "flush", "commit"} /\ c.op.name \in Updates \ {"revoke"} => c.want \in Row

Changes(c) == {col \in Columns(c.op.kind) : c.want[col] # c.base[col]}

\* What a request has read against the rows as they are: its own until it is
\* shadowed (the row changed before it was read again) or overtaken (after).
RowsInv(s, c) ==
  LET k == c.op.kind IN
  /\ \A key \in c.new : rows[key] = Missing
  /\ c.pc \in {"reload", "flush", "commit"} /\ c.op.name \in Updates \ {"revoke"} => rows[k] # Missing
  /\ c.pc \in {"reload", "flush", "commit"} /\ c.op.name = "attach" /\ c.new = {} =>
       rows["repository"] # Missing
  /\ c.op.name \in Updates =>
       /\ c.pc = "reload" /\ s \notin shadowed => rows[k] # Missing /\ c.want \in Wanted(rows[k], c.op)
       /\ c.pc \in {"flush", "commit"} /\ s \notin shadowed => c.base \in Row /\ c.want \in Wanted(c.base, c.op)
       /\ c.pc \in {"flush", "commit"} /\ s \notin overtaken => c.base = rows[k]
       /\ c.pc = "commit" => c.cols = Changes(c)

\* No two requests hold one row.
Disjoint(s, o) == \A k \in Kinds : Underway(s) /\ Underway(o) => ~ (Holds(s, k) /\ Holds(o, k))

\* The inductive invariant.
ResourcesInv ==
  /\ ResourceTypes
  /\ \A s \in Requests : PlaceInv(handler[s])
  /\ \A s \in Requests : RowsInv(s, handler[s])
  /\ \A s, o \in Requests : s # o => Disjoint(s, o)

Resting == {"new", "done", "refused"}
Held(c, k) == k \in c.new \/ (k = c.op.kind /\ c.cols # {})

------------------------------------------------------------------------------

LEMMA MissingFacts ==
  /\ DOMAIN Missing = {"status", "text", "link"} /\ Missing.status = "none" /\ Missing \notin Row
  /\ \A k \in Kinds : Fresh(k) \in Row
<1>1. Missing.status = "none" /\ "none" \notin Statuses
  BY DEF Missing, Statuses, FeatureStatus, FeatureTransitions
<1>2. \A row \in Row : row.status \in Statuses
  BY DEF Row
<1>3. DOMAIN Missing = {"status", "text", "link"}
  BY DEF Missing
<1>4. \A k \in Kinds : Fresh(k) \in Row
  BY DEF Fresh, FirstStatus, Row, Statuses, Texts, FeatureStatus, FeatureTransitions
<1>. QED  BY <1>1, <1>2, <1>3, <1>4

LEMMA Mixed ==
  ASSUME NEW S \in SUBSET {"status", "text", "link"}, NEW a \in Row, NEW b \in Row
  PROVE  [c \in {"status", "text", "link"} |-> IF c \in S THEN a[c] ELSE b[c]] \in Row
  BY DEF Row

LEMMA MixedIsFirst ==
  ASSUME NEW S \in SUBSET {"status", "text", "link"}, NEW a \in Row, NEW b \in Row,
         \A c \in {"status", "text", "link"} : c \notin S => a[c] = b[c]
  PROVE  [c \in {"status", "text", "link"} |-> IF c \in S THEN a[c] ELSE b[c]] = a
  BY DEF Row

LEMMA MixedIsSecond ==
  ASSUME NEW a, NEW b \in Row
  PROVE  [c \in {"status", "text", "link"} |-> IF c \in {} THEN a[c] ELSE b[c]] = b
  BY DEF Row

LEMMA UnaskedFacts ==
  /\ Unasked \in HandlerRecord /\ Unasked.pc = "new" /\ Unasked.new = {} /\ Unasked.cols = {}
  /\ Unasked.want = Missing /\ Unasked.op.name = "none" /\ Unasked.op.kind = "none"
  /\ \A op \in OperationRecord :
       /\ [Unasked EXCEPT !.op = op] \in HandlerRecord
       /\ [Unasked EXCEPT !.op = op].pc = "new" /\ [Unasked EXCEPT !.op = op].op = op
       /\ [Unasked EXCEPT !.op = op].new = {} /\ [Unasked EXCEPT !.op = op].cols = {}
       /\ [Unasked EXCEPT !.op = op].want = Missing
  /\ \A pc \in Resting :
       /\ [Unasked EXCEPT !.pc = pc] \in HandlerRecord
       /\ [Unasked EXCEPT !.pc = pc].pc = pc /\ [Unasked EXCEPT !.pc = pc].op.name = "none"
       /\ [Unasked EXCEPT !.pc = pc].new = {} /\ [Unasked EXCEPT !.pc = pc].cols = {}
       /\ [Unasked EXCEPT !.pc = pc].want = Missing
<1>1. /\ NoOperation \in OperationRecord /\ NoOperation.name = "none" /\ NoOperation.kind = "none"
  BY DEF NoOperation, Operation, OperationRecord
<1>2. /\ Unasked \in HandlerRecord /\ Unasked.pc = "new" /\ Unasked.new = {} /\ Unasked.cols = {}
      /\ Unasked.want = Missing /\ Unasked.op = NoOperation
  BY <1>1 DEF Unasked, HandlerRecord
<1>. QED  BY <1>1, <1>2 DEF HandlerRecord, Resting

\* What a service wants differs from what it read only where it was asked to,
\* and in columns that the repository copies.
LEMMA WantedFacts ==
  ASSUME NEW op \in OperationRecord, Asking(op), op.name \in Updates, NEW row \in Row,
         NEW want \in Wanted(row, op)
  PROVE  /\ Wanted(row, op) = {want}
         /\ op.name = "revoke" => want = Missing
         /\ op.name # "revoke" =>
              /\ want \in Row
              /\ \A col \in DOMAIN Missing : col \notin Requested(op) => want[col] = row[col]
              /\ \A col \in DOMAIN Missing : col \notin Columns(op.kind) => want[col] = row[col]
<1>1. op.text \in Texts \cup {"none"} /\ op.status \in Statuses \cup {"none"}
  BY DEF OperationRecord
<1>2. CASE op.name = "update_project"
  <2>1. Wanted(row, op) = {[row EXCEPT !.text = Given(op.text, @)]}
    BY <1>2 DEF Wanted, UpdateProject
  <2>. QED  BY <1>1, <1>2, <2>1, MissingFacts DEF Given, Row, Requested, Columns, Asking, ProjectColumns
<1>3. CASE op.name = "archive"
  <2>1. Wanted(row, op) = {[row EXCEPT !.status = "archived"]}
    BY <1>3 DEF Wanted, ArchiveProject
  <2>2. op.kind = "project" /\ op.status = "archived" /\ "archived" \in Statuses
    BY <1>3 DEF Asking, Statuses, Creates
  <2>. QED  BY <1>1, <1>3, <2>1, <2>2, MissingFacts DEF Row, Requested, Columns, ProjectColumns
<1>4. CASE op.name = "attach"
  <2>1. Wanted(row, op) = {[row EXCEPT !.link = TRUE]}
    BY <1>4 DEF Wanted, AttachRepository
  <2>. QED  BY <1>1, <1>4, <2>1, MissingFacts DEF Row, Requested, Columns, Asking, ProjectColumns
<1>5. CASE op.name = "update_feature"
  <2>1. Wanted(row, op) = {[row EXCEPT !.text = Given(op.text, @)]}
    BY <1>5 DEF Wanted, UpdateFeature
  <2>. QED  BY <1>1, <1>5, <2>1, MissingFacts DEF Given, Row, Requested, Columns, Asking, FeatureColumns
<1>6. CASE op.name = "transition_feature"
  <2>1. Wanted(row, op) = {[row EXCEPT !.status = op.status]}
    BY <1>6 DEF Wanted, TransitionFeature
  <2>2. op.kind = "feature" /\ op.status \in Statuses /\ op.status # "none"
    BY <1>6 DEF Asking, Statuses, Creates, FeatureStatus, FeatureTransitions
  <2>. QED  BY <1>1, <1>6, <2>1, <2>2, MissingFacts DEF Row, Requested, Columns, FeatureColumns
<1>7. CASE op.name = "update_agent"
  <2> DEFINE status == Given(op.status, row.status)
             text == Given(op.text, row.text)
  <2>1. Wanted(row, op) = {[row EXCEPT !.status = status, !.text = text]}
    BY <1>7 DEF Wanted, UpdateAgent
  <2>2. /\ status \in Statuses /\ (op.status = "none" => status = row.status)
        /\ text \in Texts /\ (op.text = "none" => text = row.text)
    BY <1>1 DEF Given, Row
  <2> HIDE DEF status, text
  <2>3. /\ want \in Row /\ want["status"] = status /\ want["text"] = text /\ want["link"] = row["link"]
    BY <2>1, <2>2 DEF Row
  <2>4. Columns(op.kind) = {"status", "text"}
    BY <1>7 DEF Asking, Creates, Columns, AgentColumns
  <2>5. row["status"] = row.status /\ row["text"] = row.text
    OBVIOUS
  <2>6. ASSUME NEW col \in {"status", "text", "link"}, col \notin Requested(op) \/ col \notin {"status", "text"}
        PROVE  want[col] = row[col]
    BY <1>1, <2>2, <2>3, <2>5, <2>6, MissingFacts DEF Requested
  <2>. QED  BY <1>7, <2>1, <2>3, <2>4, <2>6, MissingFacts
<1>8. CASE op.name = "update_user"
  <2> DEFINE status == Given(op.status, row.status)
             text == Given(op.text, row.text)
  <2>1. Wanted(row, op) = {[row EXCEPT !.status = status, !.text = text]}
    BY <1>8 DEF Wanted, UpdateUser
  <2>2. /\ status \in Statuses /\ (op.status = "none" => status = row.status)
        /\ text \in Texts /\ (op.text = "none" => text = row.text)
    BY <1>1 DEF Given, Row
  <2> HIDE DEF status, text
  <2>3. /\ want \in Row /\ want["status"] = status /\ want["text"] = text /\ want["link"] = row["link"]
    BY <2>1, <2>2 DEF Row
  <2>4. Columns(op.kind) = {"status", "text"}
    BY <1>8 DEF Asking, Creates, Columns, UserColumns
  <2>5. row["status"] = row.status /\ row["text"] = row.text
    OBVIOUS
  <2>6. ASSUME NEW col \in {"status", "text", "link"}, col \notin Requested(op) \/ col \notin {"status", "text"}
        PROVE  want[col] = row[col]
    BY <1>1, <2>2, <2>3, <2>5, <2>6, MissingFacts DEF Requested
  <2>. QED  BY <1>8, <2>1, <2>3, <2>4, <2>6, MissingFacts
<1>9. CASE op.name = "revoke"
  BY <1>9 DEF Wanted, RevokeRole
<1>. QED  BY <1>2, <1>3, <1>4, <1>5, <1>6, <1>7, <1>8, <1>9 DEF Updates

------------------------------------------------------------------------------

\* A step of one request that commits nothing.
LEMMA GoesStep ==
  ASSUME ResourcesInv, NEW s \in Requests, NEW c \in HandlerRecord, Goes(s, c),
         PlaceInv(c), RowsInv(s, c),
         \A k \in Kinds : Held(c, k) => ~ Taken(s, k) \/ (Underway(s) /\ Holds(s, k))
  PROVE  ResourcesInv'
<1>1. /\ handler' \in [Requests -> HandlerRecord] /\ handler'[s] = c
      /\ \A o \in Requests : o # s => handler'[o] = handler[o]
      /\ UNCHANGED <<rows, overtaken, shadowed>>
  BY DEF ResourcesInv, ResourceTypes, Goes
<1>2. ResourceTypes'
  BY <1>1 DEF ResourcesInv, ResourceTypes
<1>3. ASSUME NEW o \in Requests PROVE PlaceInv(handler[o])'
  BY <1>1 DEF ResourcesInv, PlaceInv
<1>4. ASSUME NEW o \in Requests PROVE RowsInv(o, handler[o])'
  <2>1. CASE o = s
    <3>1. handler'[o] = c
      BY <1>1, <2>1
    <3>. QED  BY <1>1, <2>1, <3>1 DEF RowsInv, Changes
  <2>2. CASE o # s
    <3>1. handler'[o] = handler[o] /\ RowsInv(o, handler[o])
      BY <1>1, <2>2 DEF ResourcesInv
    <3>. QED  BY <1>1, <3>1 DEF RowsInv, Changes
  <2>. QED  BY <2>1, <2>2
<1>5. ASSUME NEW o \in Requests, o # s, NEW k \in Kinds, Underway(o)', Holds(o, k)', Holds(s, k)'
      PROVE  FALSE
  <2>1. Underway(o) /\ Holds(o, k)
    BY <1>1, <1>5 DEF Underway, Holds
  <2>2. Held(c, k)
    BY <1>1, <1>5 DEF Holds, Held
  <2>3. ~ Taken(s, k) \/ (Underway(s) /\ Holds(s, k))
    BY <2>2
  <2>. QED  BY <1>5, <2>1, <2>3 DEF Taken, ResourcesInv, Disjoint
<1>6. ASSUME NEW o \in Requests, NEW p \in Requests, o # p PROVE Disjoint(o, p)'
  <2>1. CASE o # s /\ p # s
    <3>1. handler'[o] = handler[o] /\ handler'[p] = handler[p] /\ Disjoint(o, p)
      BY <1>1, <1>6, <2>1 DEF ResourcesInv
    <3>. QED  BY <3>1 DEF Disjoint, Underway, Holds
  <2>2. CASE o = s
    BY <1>5, <1>6, <2>2 DEF Disjoint
  <2>3. CASE p = s
    BY <1>5, <1>6, <2>3 DEF Disjoint
  <2>. QED  BY <2>1, <2>2, <2>3
<1>. QED  BY <1>2, <1>3, <1>4, <1>6 DEF ResourcesInv

LEMMA OverStep ==
  ASSUME ResourcesInv, NEW s \in Requests, Over(s, "refused")
  PROVE  ResourcesInv'
<1> DEFINE c == [Unasked EXCEPT !.pc = "refused"]
<1>1. /\ c \in HandlerRecord /\ c.pc = "refused" /\ c.op.name = "none"
      /\ c.new = {} /\ c.cols = {} /\ c.want = Missing
  BY UnaskedFacts DEF Resting
<1>2. Goes(s, c)
  BY DEF Over
<1> HIDE DEF c
<1>3. PlaceInv(c)
  BY <1>1 DEF PlaceInv, Updates, Creates
<1>4. RowsInv(s, c)
  BY <1>1 DEF RowsInv, Updates
<1>. QED  BY <1>1, <1>2, <1>3, <1>4, GoesStep DEF Held

\* get_by_id for a request c that may already have inserted a repository.
LEMMA ReadStep ==
  ASSUME ResourcesInv, NEW s \in Requests, NEW c \in HandlerRecord, ReadRow(s, c),
         Asking(c.op), c.op.name \in Updates, c.new \subseteq {"repository"}, c.cols = {}, c.want = Missing,
         c.new # {} => c.op.name = "attach" /\ rows["repository"] = Missing /\ Underway(s) /\ Holds(s, "repository"),
         c.op.name = "attach" /\ c.new = {} => rows["repository"] # Missing
  PROVE  ResourcesInv'
<1> DEFINE k == c.op.kind
<1>1. CASE Over(s, "refused")
  BY <1>1, OverStep
<1>2. CASE rows[k] # Missing /\ \E row \in Wanted(rows[k], c.op) : Goes(s, [c EXCEPT !.pc = "reload", !.want = row])
  <2>1. PICK row \in Wanted(rows[k], c.op) : Goes(s, [c EXCEPT !.pc = "reload", !.want = row])
    BY <1>2
  <2>2. k \in Kinds /\ c.op \in OperationRecord
    BY DEF Asking, Kinds, HandlerRecord
  <2>3. rows[k] \in Row
    BY <1>2, <2>2 DEF ResourcesInv, ResourceTypes
  <2>4. /\ c.op.name = "revoke" => row = Missing
        /\ c.op.name # "revoke" => row \in Row
    BY <2>1, <2>2, <2>3, WantedFacts
  <2> DEFINE d == [c EXCEPT !.pc = "reload", !.want = row]
  <2>5. /\ d \in HandlerRecord /\ d.pc = "reload" /\ d.want = row /\ d.op = c.op
        /\ d.new = c.new /\ d.cols = {}
    BY <2>4 DEF HandlerRecord
  <2>6. Goes(s, d)
    BY <2>1
  <2> HIDE DEF d
  <2>7. PlaceInv(d)
    BY <2>4, <2>5 DEF PlaceInv, Updates, Creates
  <2>8. RowsInv(s, d)
    BY <1>2, <2>1, <2>5 DEF RowsInv
  <2>. QED  BY <2>5, <2>6, <2>7, <2>8, GoesStep DEF Held
<1>. QED  BY <1>1, <1>2 DEF ReadRow

\* The first step of an update.
LEMMA AskToUpdate ==
  ASSUME ResourcesInv, NEW s \in Requests, NEW op \in OperationRecord, Asking(op), op.name \in Updates,
         ReadRow(s, [Unasked EXCEPT !.op = op]),
         op.name = "attach" => rows["repository"] # Missing
  PROVE  ResourcesInv'
<1> DEFINE c == [Unasked EXCEPT !.op = op]
<1>1. c \in HandlerRecord /\ c.op = op /\ c.new = {} /\ c.cols = {} /\ c.want = Missing
  BY UnaskedFacts
<1>2. ReadRow(s, c)
  OBVIOUS
<1> HIDE DEF c
<1>. QED  BY <1>1, <1>2, ReadStep

\* The first step of a request that is to insert a row.
LEMMA AskToInsert ==
  ASSUME ResourcesInv, NEW s \in Requests, NEW op \in OperationRecord, Asking(op),
         op.name \in Creates \cup {"attach"},
         Goes(s, [[Unasked EXCEPT !.op = op] EXCEPT !.pc = "insert"])
  PROVE  ResourcesInv'
<1> DEFINE c == [Unasked EXCEPT !.op = op]
           d == [c EXCEPT !.pc = "insert"]
<1>1. c \in HandlerRecord /\ c.op = op /\ c.new = {} /\ c.cols = {} /\ c.want = Missing
  BY UnaskedFacts
<1>2. Goes(s, d)
  OBVIOUS
<1> HIDE DEF c
<1>3. /\ d \in HandlerRecord /\ d.pc = "insert" /\ d.op = op /\ d.new = {} /\ d.cols = {}
      /\ d.want = Missing
  BY <1>1 DEF HandlerRecord
<1> HIDE DEF d
<1>4. PlaceInv(d)
  BY <1>3 DEF PlaceInv, Updates, Creates
<1>5. RowsInv(s, d)
  BY <1>3 DEF RowsInv
<1>. QED  BY <1>2, <1>3, <1>4, <1>5, GoesStep DEF Held

LEMMA LookUpStep ==
  ASSUME ResourcesInv, NEW s \in Requests, NEW op \in OperationRecord, Asking(op), op.name \in Creates,
         NEW key, LookUp(s, [Unasked EXCEPT !.op = op], key)
  PROVE  ResourcesInv'
  BY OverStep, AskToInsert DEF LookUp

LEMMA CreatesStep ==
  ASSUME ResourcesInv, NEW s \in Requests,
         CreateProject(s) \/ RegisterAgent(s) \/ CreateFeature(s) \/ GrantRole(s)
  PROVE  ResourcesInv'
<1>1. CASE CreateProject(s)
  <2> DEFINE op == Operation("create", "project", "none", "none")
  <2>1. op \in OperationRecord /\ op.name = "create" /\ op.kind = "project"
    BY DEF Operation, OperationRecord, Creates, Kinds
  <2>2. LookUp(s, [Unasked EXCEPT !.op = op], "project")
    BY <1>1 DEF CreateProject, Asks, NewProject
  <2> HIDE DEF op
  <2>. QED  BY <2>1, <2>2, LookUpStep DEF Asking, Creates
<1>2. CASE RegisterAgent(s)
  <2> DEFINE op == Operation("create", "agent", "none", "none")
  <2>1. op \in OperationRecord /\ op.name = "create" /\ op.kind = "agent"
    BY DEF Operation, OperationRecord, Creates, Kinds
  <2>2. LookUp(s, [Unasked EXCEPT !.op = op], "agent")
    BY <1>2 DEF RegisterAgent, Asks, NewAgent
  <2> HIDE DEF op
  <2>. QED  BY <2>1, <2>2, LookUpStep DEF Asking, Creates
<1>3. CASE CreateFeature(s)
  <2> DEFINE op == Operation("create_feature", "feature", "none", "none")
  <2>1. op \in OperationRecord /\ op.name = "create_feature" /\ op.kind = "feature"
    BY DEF Operation, OperationRecord, Creates, Kinds
  <2>2. Over(s, "refused") \/ LookUp(s, [Unasked EXCEPT !.op = op], "feature")
    BY <1>3 DEF CreateFeature, Asks, NewFeature
  <2> HIDE DEF op
  <2>. QED  BY <2>1, <2>2, LookUpStep, OverStep DEF Asking, Creates
<1>4. CASE GrantRole(s)
  <2> DEFINE op == Operation("grant", "user_role", "none", "none")
  <2>1. op \in OperationRecord /\ op.name = "grant" /\ op.kind = "user_role"
    BY DEF Operation, OperationRecord, Creates, Kinds
  <2>2. Over(s, "refused") \/ LookUp(s, [Unasked EXCEPT !.op = op], "user_role")
    BY <1>4 DEF GrantRole, Asks, NewRole
  <2> HIDE DEF op
  <2>. QED  BY <2>1, <2>2, LookUpStep, OverStep DEF Asking, Creates
<1>. QED  BY <1>1, <1>2, <1>3, <1>4

LEMMA UpdatesStep ==
  ASSUME ResourcesInv, NEW s \in Requests,
         \/ PatchProject(s) \/ PostArchive(s) \/ PatchFeature(s) \/ PostFeatureStatus(s)
         \/ PatchAgent(s) \/ PatchUser(s) \/ DeleteRole(s)
  PROVE  ResourcesInv'
<1>1. CASE PatchProject(s)
  <2>1. PICK text \in Texts :
          ReadRow(s, [Unasked EXCEPT !.op = Operation("update_project", "project", text, "none")])
    BY <1>1 DEF PatchProject, Asks
  <2> DEFINE op == Operation("update_project", "project", text, "none")
  <2>2. op \in OperationRecord /\ op.name = "update_project" /\ op.kind = "project" /\ op.status = "none"
    BY DEF Operation, OperationRecord, Updates, Kinds
  <2>3. ReadRow(s, [Unasked EXCEPT !.op = op])
    BY <2>1
  <2> HIDE DEF op
  <2>. QED  BY <2>2, <2>3, AskToUpdate DEF Asking, Updates
<1>2. CASE PostArchive(s)
  <2> DEFINE op == Operation("archive", "project", "none", "archived")
  <2>1. /\ op \in OperationRecord /\ op.name = "archive" /\ op.kind = "project"
        /\ op.text = "none" /\ op.status = "archived"
    BY DEF Operation, OperationRecord, Updates, Kinds, Statuses
  <2>2. ReadRow(s, [Unasked EXCEPT !.op = op])
    BY <1>2 DEF PostArchive, Asks
  <2> HIDE DEF op
  <2>. QED  BY <2>1, <2>2, AskToUpdate DEF Asking, Updates
<1>3. CASE PatchFeature(s)
  <2>1. PICK text \in Texts :
          ReadRow(s, [Unasked EXCEPT !.op = Operation("update_feature", "feature", text, "none")])
    BY <1>3 DEF PatchFeature, Asks
  <2> DEFINE op == Operation("update_feature", "feature", text, "none")
  <2>2. op \in OperationRecord /\ op.name = "update_feature" /\ op.kind = "feature" /\ op.status = "none"
    BY DEF Operation, OperationRecord, Updates, Kinds
  <2>3. ReadRow(s, [Unasked EXCEPT !.op = op])
    BY <2>1
  <2> HIDE DEF op
  <2>. QED  BY <2>2, <2>3, AskToUpdate DEF Asking, Updates
<1>4. CASE PostFeatureStatus(s)
  <2>1. PICK to \in FeatureStatus :
          ReadRow(s, [Unasked EXCEPT !.op = Operation("transition_feature", "feature", "none", to)])
    BY <1>4 DEF PostFeatureStatus, Asks
  <2> DEFINE op == Operation("transition_feature", "feature", "none", to)
  <2>2. /\ op \in OperationRecord /\ op.name = "transition_feature" /\ op.kind = "feature"
        /\ op.text = "none" /\ op.status \in FeatureStatus
    BY DEF Operation, OperationRecord, Updates, Kinds, Statuses
  <2>3. ReadRow(s, [Unasked EXCEPT !.op = op])
    BY <2>1
  <2> HIDE DEF op
  <2>. QED  BY <2>2, <2>3, AskToUpdate DEF Asking, Updates
<1>5. CASE PatchAgent(s)
  <2>1. PICK text \in {"second", "none"}, status \in {"active", "disabled", "none"} :
          ReadRow(s, [Unasked EXCEPT !.op = Operation("update_agent", "agent", text, status)])
    BY <1>5 DEF PatchAgent, Asks
  <2> DEFINE op == Operation("update_agent", "agent", text, status)
  <2>2. op \in OperationRecord /\ op.name = "update_agent" /\ op.kind = "agent"
    BY DEF Operation, OperationRecord, Updates, Kinds, Statuses, Texts
  <2>3. ReadRow(s, [Unasked EXCEPT !.op = op])
    BY <2>1
  <2> HIDE DEF op
  <2>. QED  BY <2>2, <2>3, AskToUpdate DEF Asking, Updates
<1>6. CASE PatchUser(s)
  <2>1. PICK text \in {"second", "none"}, status \in {"active", "disabled", "none"} :
          ReadRow(s, [Unasked EXCEPT !.op = Operation("update_user", "user", text, status)])
    BY <1>6 DEF PatchUser, Asks
  <2> DEFINE op == Operation("update_user", "user", text, status)
  <2>2. op \in OperationRecord /\ op.name = "update_user" /\ op.kind = "user"
    BY DEF Operation, OperationRecord, Updates, Kinds, Statuses, Texts
  <2>3. ReadRow(s, [Unasked EXCEPT !.op = op])
    BY <2>1
  <2> HIDE DEF op
  <2>. QED  BY <2>2, <2>3, AskToUpdate DEF Asking, Updates
<1>7. CASE DeleteRole(s)
  <2> DEFINE op == Operation("revoke", "user_role", "none", "none")
  <2>1. op \in OperationRecord /\ op.name = "revoke" /\ op.kind = "user_role"
    BY DEF Operation, OperationRecord, Updates, Kinds
  <2>2. ReadRow(s, [Unasked EXCEPT !.op = op])
    BY <1>7 DEF DeleteRole, Asks
  <2> HIDE DEF op
  <2>. QED  BY <2>1, <2>2, AskToUpdate DEF Asking, Updates
<1>. QED  BY <1>1, <1>2, <1>3, <1>4, <1>5, <1>6, <1>7

LEMMA PutRepositoryStep ==
  ASSUME ResourcesInv, NEW s \in Requests, PutRepository(s)
  PROVE  ResourcesInv'
<1> DEFINE op == Operation("attach", "project", "none", "none")
<1>1. /\ op \in OperationRecord /\ op.name = "attach" /\ op.kind = "project"
      /\ op.text = "none" /\ op.status = "none"
  BY DEF Operation, OperationRecord, Updates, Kinds
<1>2. IF rows["repository"] = Missing THEN Goes(s, [[Unasked EXCEPT !.op = op] EXCEPT !.pc = "insert"])
      ELSE ReadRow(s, [Unasked EXCEPT !.op = op])
  BY DEF PutRepository, Asks
<1> HIDE DEF op
<1>3. Asking(op) /\ op.name \in Updates
  BY <1>1 DEF Asking, Updates
<1>4. CASE rows["repository"] = Missing
  BY <1>1, <1>2, <1>3, <1>4, AskToInsert
<1>5. CASE rows["repository"] # Missing
  BY <1>1, <1>2, <1>3, <1>5, AskToUpdate
<1>. QED  BY <1>4, <1>5

LEMMA InsertRowStep ==
  ASSUME ResourcesInv, NEW s \in Requests, InsertRow(s)
  PROVE  ResourcesInv'
<1> DEFINE c == handler[s]
           key == InsertedKey(c.op)
           d == [c EXCEPT !.new = {key}, !.pc = IF c.op.name \in Creates THEN "commit" ELSE "read"]
<1>1. /\ c \in HandlerRecord /\ c.pc = "insert" /\ PlaceInv(c)
      /\ ~ Taken(s, key)
      /\ IF rows[key] # Missing THEN Over(s, "refused") ELSE Goes(s, d)
  BY DEF ResourcesInv, ResourceTypes, InsertRow, InsertedKey
<1>2. CASE rows[key] # Missing
  BY <1>1, <1>2, OverStep
<1>3. CASE rows[key] = Missing
  <2>1. Goes(s, d)
    BY <1>1, <1>3
  <2>2. /\ Asking(c.op) /\ c.op.name \in Creates \cup {"attach"} /\ c.cols = {} /\ c.want = Missing
        /\ c.op \in OperationRecord
    BY <1>1 DEF PlaceInv, HandlerRecord
  <2>3. key \in Kinds /\ (c.op.name = "attach" => key = "repository") /\ (c.op.name \in Creates => key = c.op.kind)
    BY <2>2 DEF InsertedKey, Asking, Kinds, Creates
  <2>4. /\ d \in HandlerRecord /\ d.op = c.op /\ d.new = {key} /\ d.cols = {} /\ d.want = Missing
        /\ d.pc = IF c.op.name \in Creates THEN "commit" ELSE "read"
    BY <1>1, <2>2, <2>3 DEF HandlerRecord
  <2> HIDE DEF d, key, c
  <2>5. PlaceInv(d)
    BY <2>2, <2>3, <2>4 DEF PlaceInv, Updates, Creates
  <2>6. RowsInv(s, d)
    BY <1>3, <2>2, <2>4 DEF RowsInv, Updates, Creates
  <2>7. \A k \in Kinds : Held(d, k) => ~ Taken(s, k)
    BY <1>1, <2>4 DEF Held
  <2>. QED  BY <2>1, <2>4, <2>5, <2>6, <2>7, GoesStep
<1>. QED  BY <1>2, <1>3

LEMMA ReadProjectStep ==
  ASSUME ResourcesInv, NEW s \in Requests, ReadProject(s)
  PROVE  ResourcesInv'
<1>1. /\ handler[s] \in HandlerRecord /\ handler[s].pc = "read" /\ ReadRow(s, handler[s])
      /\ PlaceInv(handler[s]) /\ RowsInv(s, handler[s])
  BY DEF ResourcesInv, ResourceTypes, ReadProject
<1>2. handler[s].op.name = "attach" /\ handler[s].op.name \in Updates /\ Asking(handler[s].op)
  BY <1>1 DEF PlaceInv, Updates
<1>3. handler[s].new \subseteq {"repository"} /\ handler[s].cols = {} /\ handler[s].want = Missing
  BY <1>1, <1>2 DEF PlaceInv
<1>4. handler[s].new # {} => rows["repository"] = Missing /\ Underway(s) /\ Holds(s, "repository")
  BY <1>1, <1>3 DEF RowsInv, Underway, Holds
<1>5. handler[s].new # {}
  BY <1>1 DEF PlaceInv
<1>. QED  BY <1>1, <1>2, <1>3, <1>4, <1>5, ReadStep

LEMMA ReloadStep ==
  ASSUME ResourcesInv, NEW s \in Requests, Reload(s)
  PROVE  ResourcesInv'
<1> DEFINE c == handler[s]
           k == c.op.kind
           d == [c EXCEPT !.pc = "flush", !.base = rows[k]]
<1>1. /\ c \in HandlerRecord /\ c.pc = "reload" /\ Goes(s, d)
      /\ PlaceInv(c) /\ RowsInv(s, c)
  BY DEF ResourcesInv, ResourceTypes, Reload
<1>2. Asking(c.op) /\ c.op.name \in Updates /\ c.op.name \notin Creates /\ c.cols = {}
  BY <1>1 DEF PlaceInv
<1>3. k \in Kinds /\ rows[k] \in Row \cup {Missing}
  BY <1>2 DEF Asking, Kinds, ResourcesInv, ResourceTypes
<1>4. /\ d \in HandlerRecord /\ d.op = c.op /\ d.new = c.new /\ d.cols = {} /\ d.want = c.want
      /\ d.pc = "flush" /\ d.base = rows[k]
  BY <1>1, <1>2, <1>3 DEF HandlerRecord
<1> HIDE DEF d
<1>5. PlaceInv(d)
  BY <1>1, <1>2, <1>4 DEF PlaceInv
<1>6. RowsInv(s, d)
  BY <1>1, <1>2, <1>3, <1>4 DEF RowsInv
<1>7. \A x \in Kinds : Held(d, x) => Underway(s) /\ Holds(s, x)
  BY <1>1, <1>4 DEF Held, Underway, Holds
<1>. QED  BY <1>1, <1>4, <1>5, <1>6, <1>7, GoesStep

LEMMA FlushStep ==
  ASSUME ResourcesInv, NEW s \in Requests, Flush(s)
  PROVE  ResourcesInv'
<1> DEFINE c == handler[s]
           k == c.op.kind
           d == [c EXCEPT !.pc = "commit", !.cols = Changes(c)]
<1>1. /\ c \in HandlerRecord /\ c.pc = "flush" /\ Goes(s, d)
      /\ Changes(c) # {} => ~ Taken(s, k)
      /\ PlaceInv(c) /\ RowsInv(s, c)
  BY DEF ResourcesInv, ResourceTypes, Flush, Changes
<1>2. Asking(c.op) /\ c.op.name \in Updates /\ c.op.name \notin Creates
  BY <1>1 DEF PlaceInv
<1>3. Changes(c) \in SUBSET {"status", "text", "link"}
  BY DEF Changes, Columns, ProjectColumns, FeatureColumns, AgentColumns, UserColumns
<1>4. /\ d \in HandlerRecord /\ d.op = c.op /\ d.new = c.new /\ d.cols = Changes(c) /\ d.want = c.want
      /\ d.pc = "commit" /\ d.base = c.base
  BY <1>1, <1>2, <1>3 DEF HandlerRecord
<1> HIDE DEF d
<1>5. PlaceInv(d)
  BY <1>1, <1>2, <1>4 DEF PlaceInv
<1>6. RowsInv(s, d)
  <2>1. Changes(d) = Changes(c)
    BY <1>4 DEF Changes
  <2>. QED  BY <1>1, <1>2, <1>4, <2>1 DEF RowsInv
<1>7. \A x \in Kinds : Held(d, x) => ~ Taken(s, x) \/ (Underway(s) /\ Holds(s, x))
  BY <1>1, <1>4 DEF Held, Underway, Holds
<1>. QED  BY <1>1, <1>4, <1>5, <1>6, <1>7, GoesStep

------------------------------------------------------------------------------

\* What a commit leaves in each row.
LEMMA CommittedFacts ==
  ASSUME ResourcesInv, NEW s \in Requests, CommitRequest(s), NEW k \in Kinds
  PROVE  /\ rows'[k] \in Row \cup {Missing}
         /\ rows'[k] # rows[k] => Holds(s, k)
         /\ k # "user_role" /\ rows[k] # Missing => rows'[k] # Missing
         /\ k \in handler[s].new => rows'[k] = Fresh(k)
         /\ k \notin handler[s].new /\ k # handler[s].op.kind => rows'[k] = rows[k]
         /\ k \notin handler[s].new /\ k = handler[s].op.kind /\ rows[k] # Missing =>
              rows'[k] = IF handler[s].want = Missing /\ handler[s].cols # {} THEN Missing
                         ELSE [c \in {"status", "text", "link"} |->
                                 IF c \in handler[s].cols THEN handler[s].want[c] ELSE rows[k][c]]
<1> DEFINE h == handler[s]
           mixed == [c \in {"status", "text", "link"} |-> IF c \in h.cols THEN h.want[c] ELSE rows[k][c]]
<1>1. /\ h \in HandlerRecord /\ PlaceInv(h) /\ h.pc = "commit" /\ rows[k] \in Row \cup {Missing}
  BY DEF ResourcesInv, ResourceTypes, CommitRequest
<1>2. rows'[k] = IF k \in h.new THEN Fresh(k)
                 ELSE IF k = h.op.kind /\ rows[k] # Missing
                 THEN IF h.want = Missing /\ h.cols # {} THEN Missing ELSE mixed
                 ELSE rows[k]
  BY DEF CommitRequest, Committed
<1>3. /\ h.cols \in SUBSET {"status", "text", "link"} /\ h.want \in Row \cup {Missing}
  BY <1>1 DEF HandlerRecord
<1>4. Fresh(k) \in Row /\ Missing \notin Row
  BY MissingFacts
<1>5. h.want = Missing /\ h.cols # {} => h.op.name = "revoke" /\ h.op.kind = "user_role"
  <2>1. h.cols # {} => h.op.name \in Updates
    BY <1>1 DEF PlaceInv
  <2>2. h.want = Missing /\ h.op.name \in Updates => h.op.name = "revoke"
    BY <1>1, <1>4 DEF PlaceInv
  <2>3. h.op.name = "revoke" => h.op.kind = "user_role"
    BY <1>1 DEF PlaceInv, Asking, Creates
  <2>. QED  BY <2>1, <2>2, <2>3
<1> HIDE DEF h
<1>6. rows[k] # Missing /\ ~ (h.want = Missing /\ h.cols # {}) => mixed \in Row
  <2>1. CASE h.want \in Row /\ rows[k] \in Row
    BY <1>3, <2>1, Mixed
  <2>2. CASE h.cols = {} /\ rows[k] \in Row
    <3>1. mixed = rows[k]
      BY <2>2, MixedIsSecond
    <3>. QED  BY <2>2, <3>1
  <2>. QED  BY <1>1, <1>3, <2>1, <2>2
<1>7. rows[k] # Missing /\ h.cols = {} => mixed = rows[k]
  BY <1>1, MixedIsSecond
<1>8. Holds(s, k) <=> Held(h, k)
  BY DEF Holds, Held, h
<1> HIDE DEF mixed
<1>9. rows'[k] \in Row \cup {Missing}
  BY <1>1, <1>2, <1>4, <1>6
<1>10. rows'[k] # rows[k] => Held(h, k)
  BY <1>2, <1>7 DEF Held
<1>11. k # "user_role" /\ rows[k] # Missing => rows'[k] # Missing
  BY <1>2, <1>4, <1>5, <1>6
<1>. QED  BY <1>2, <1>8, <1>9, <1>10, <1>11 DEF h, mixed

LEMMA CommitRequestStep ==
  ASSUME ResourcesInv, NEW s \in Requests, CommitRequest(s)
  PROVE  ResourcesInv'
<1> DEFINE behind == {o \in Requests \ {s} :
                        Underway(o) /\ rows'[handler[o].op.kind] # rows[handler[o].op.kind]}
<1>1. /\ overtaken' = overtaken \cup behind
      /\ shadowed' = shadowed \cup {o \in behind : handler[o].pc = "reload"}
  BY DEF CommitRequest
<1>2. /\ handler'[s] \in HandlerRecord /\ handler'[s].pc = "done" /\ handler'[s].op.name = "none"
      /\ handler'[s].new = {} /\ handler'[s].cols = {} /\ handler'[s].want = Missing
      /\ handler' \in [Requests -> HandlerRecord]
      /\ \A o \in Requests : o # s => handler'[o] = handler[o]
  BY UnaskedFacts DEF CommitRequest, ResourcesInv, ResourceTypes, Resting
<1>3. ResourceTypes'
  <2>1. rows' = [k \in Kinds |-> rows'[k]]
    BY DEF CommitRequest, Committed
  <2>2. rows' \in [Kinds -> Row \cup {Missing}]
    BY <2>1, CommittedFacts
  <2>. QED  BY <1>1, <1>2, <2>2 DEF ResourcesInv, ResourceTypes
<1>4. ASSUME NEW o \in Requests PROVE PlaceInv(handler[o])'
  <2>1. CASE o = s
    BY <1>2, <2>1 DEF PlaceInv, Creates, Updates
  <2>2. CASE o # s
    <3>1. handler'[o] = handler[o] /\ PlaceInv(handler[o])
      BY <1>2, <2>2 DEF ResourcesInv
    <3>. QED  BY <3>1 DEF PlaceInv
  <2>. QED  BY <2>1, <2>2
<1>5. ASSUME NEW o \in Requests, o # s PROVE RowsInv(o, handler[o])'
  <2> DEFINE c == handler[o]
             k == c.op.kind
  <2>1. handler'[o] = c /\ PlaceInv(c) /\ RowsInv(o, c) /\ c \in HandlerRecord
    BY <1>2, <1>5 DEF ResourcesInv, ResourceTypes
  <2>2. \A key \in Kinds : Underway(o) /\ key \in c.new => rows'[key] = rows[key]
    <3>1. ASSUME NEW key \in Kinds, Underway(o), key \in c.new PROVE ~ Holds(s, key)
      <4>1. Holds(o, key) /\ Underway(s)
        BY <3>1 DEF Holds, Underway, CommitRequest
      <4>. QED  BY <1>5, <3>1, <4>1 DEF ResourcesInv, Disjoint
    <3>. QED  BY <3>1, CommittedFacts
  <2>3. c.new # {} => Underway(o)
    BY <2>1 DEF PlaceInv, Underway
  <2>4. c.pc \in {"reload", "flush", "commit"} => k \in Kinds /\ Underway(o)
    BY <2>1 DEF PlaceInv, Asking, Underway, Kinds
  <2>5. c.pc \in {"reload", "flush", "commit"} /\ c.op.name \in Updates \ {"revoke"} => k # "user_role"
    BY <2>1 DEF PlaceInv, Asking, Updates, Creates
  <2>6. /\ c.pc \in {"reload", "flush", "commit"} /\ o \notin overtaken' => rows'[k] = rows[k] /\ o \notin overtaken
        /\ c.pc = "reload" /\ o \notin shadowed' => rows'[k] = rows[k] /\ o \notin shadowed
        /\ o \notin shadowed' => o \notin shadowed
    BY <1>1, <1>5, <2>4
  <2>7. c.new \subseteq Kinds
    BY <2>1 DEF HandlerRecord
  <2>8. rows["repository"] # Missing => rows'["repository"] # Missing
    BY CommittedFacts DEF Kinds
  <2> HIDE DEF c, behind
  <2>9. \A key \in c.new : rows'[key] = Missing
    BY <2>1, <2>2, <2>3, <2>7 DEF RowsInv
  <2>10. c.pc \in {"reload", "flush", "commit"} /\ c.op.name \in Updates \ {"revoke"} => rows'[k] # Missing
    BY <2>1, <2>4, <2>5, CommittedFacts DEF RowsInv
  <2>11. c.op.name \in Updates =>
       /\ c.pc = "reload" /\ o \notin shadowed' => rows'[k] # Missing /\ c.want \in Wanted(rows'[k], c.op)
       /\ c.pc \in {"flush", "commit"} /\ o \notin shadowed' => c.base \in Row /\ c.want \in Wanted(c.base, c.op)
       /\ c.pc \in {"flush", "commit"} /\ o \notin overtaken' => c.base = rows'[k]
       /\ c.pc = "commit" => c.cols = Changes(c)
    BY <2>1, <2>6 DEF RowsInv
  <2>. QED  BY <2>1, <2>8, <2>9, <2>10, <2>11 DEF RowsInv, Changes
<1>6. RowsInv(s, handler[s])'
  BY <1>2 DEF RowsInv, Updates
<1>7. ASSUME NEW o \in Requests, NEW p \in Requests, o # p PROVE Disjoint(o, p)'
  <2>1. CASE o # s /\ p # s
    <3>1. handler'[o] = handler[o] /\ handler'[p] = handler[p] /\ Disjoint(o, p)
      BY <1>2, <1>7, <2>1 DEF ResourcesInv
    <3>. QED  BY <3>1 DEF Disjoint, Underway, Holds
  <2>2. CASE o = s \/ p = s
    BY <1>2, <2>2 DEF Disjoint, Underway
  <2>. QED  BY <2>1, <2>2
<1>. QED  BY <1>3, <1>4, <1>5, <1>6, <1>7 DEF ResourcesInv

LEMMA ResourcesInitInv == ResourcesInit => ResourcesInv
<1> SUFFICES ASSUME ResourcesInit PROVE ResourcesInv
  OBVIOUS
<1>1. rows \in [Kinds -> Row \cup {Missing}]
  <2>1. PICK k \in Kinds, row \in Row :
          rows \in {[[x \in Kinds |-> Fresh(x)] EXCEPT ![k] = row],
                    [x \in Kinds |-> IF x = "user" THEN Fresh(x) ELSE Missing]}
    BY DEF ResourcesInit
  <2>. QED  BY <2>1, MissingFacts
<1>2. handler = [o \in Requests |-> Unasked] /\ overtaken = {} /\ shadowed = {}
  BY DEF ResourcesInit
<1>3. ResourceTypes
  BY <1>1, <1>2, UnaskedFacts DEF ResourceTypes
<1>4. \A o \in Requests : PlaceInv(handler[o])
  BY <1>2, UnaskedFacts DEF PlaceInv, Creates, Updates
<1>5. \A o \in Requests : RowsInv(o, handler[o])
  BY <1>2, UnaskedFacts DEF RowsInv, Updates
<1>6. \A o, p \in Requests : Disjoint(o, p)
  BY <1>2, UnaskedFacts DEF Disjoint, Underway
<1>. QED  BY <1>3, <1>4, <1>5, <1>6 DEF ResourcesInv

\* One step per action of ResourcesNext.
LEMMA ResourcesInvStep == ResourcesInv /\ [ResourcesNext]_resourceVars => ResourcesInv'
<1> SUFFICES ASSUME ResourcesInv, [ResourcesNext]_resourceVars PROVE ResourcesInv'
  OBVIOUS
<1>1. ASSUME NEW s \in Requests, ResourceRequestFails(s) PROVE ResourcesInv'
  BY <1>1, OverStep DEF ResourceRequestFails
<1>2. CASE UNCHANGED resourceVars
  <2>1. UNCHANGED <<rows, handler, overtaken, shadowed>>
    BY <1>2 DEF resourceVars
  <2>2. ResourceTypes' /\ \A o \in Requests : PlaceInv(handler[o])'
    BY <2>1 DEF ResourcesInv, ResourceTypes, PlaceInv
  <2>3. \A o \in Requests : RowsInv(o, handler[o])'
    BY <2>1 DEF ResourcesInv, RowsInv, Changes
  <2>4. \A o, p \in Requests : o # p => Disjoint(o, p)'
    BY <2>1 DEF ResourcesInv, Disjoint, Underway, Holds
  <2>. QED  BY <2>2, <2>3, <2>4 DEF ResourcesInv
<1>3. CASE ResourcesNext
  <2>1. PICK s \in Requests :
          \/ CreateProject(s) \/ PatchProject(s) \/ PostArchive(s) \/ PutRepository(s)
          \/ CreateFeature(s) \/ PatchFeature(s) \/ PostFeatureStatus(s)
          \/ RegisterAgent(s) \/ PatchAgent(s) \/ PatchUser(s) \/ GrantRole(s) \/ DeleteRole(s)
          \/ InsertRow(s) \/ ReadProject(s) \/ Reload(s) \/ Flush(s)
          \/ CommitRequest(s) \/ ResourceRequestFails(s)
    BY <1>3 DEF ResourcesNext
  <2>. QED  BY <1>1, <2>1, CreatesStep, UpdatesStep, PutRepositoryStep, InsertRowStep,
              ReadProjectStep, ReloadStep, FlushStep, CommitRequestStep
<1>. QED  BY <1>2, <1>3

LEMMA ResourcesInvHolds == ResourcesSpec => []ResourcesInv
  BY ResourcesInitInv, ResourcesInvStep, PTL DEF ResourcesSpec

\* Projects, features, agents, users and roles, and the requests that change
\* them, stay in their types for any number of requests.
THEOREM ResourcesTypeCorrect == ResourcesSpec => []ResourcesTypeOK
<1>1. ResourcesInv => ResourcesTypeOK
  BY MissingFacts DEF ResourcesInv, ResourceTypes, HandlerRecord, ResourcesTypeOK
<1>. QED  BY <1>1, ResourcesInvHolds, PTL

\* A commit that nobody overtook does what its operation does alone ...
LEMMA CommitAlone ==
  ASSUME ResourcesInv, NEW s \in Requests, CommitRequest(s), s \notin overtaken
  PROVE  Permitted(handler[s].op) /\ rows' = Alone(handler[s].op)
<1> DEFINE c == handler[s]
           op == c.op
           k == op.kind
<1>1. /\ c \in HandlerRecord /\ PlaceInv(c) /\ RowsInv(s, c) /\ c.pc = "commit" /\ s \notin shadowed
      /\ op \in OperationRecord
  BY DEF ResourcesInv, ResourceTypes, CommitRequest, HandlerRecord
<1>2. Asking(op) /\ k \in Kinds
  BY <1>1 DEF PlaceInv, Asking, Kinds
<1>3. rows' = [x \in Kinds |-> rows'[x]]
  BY DEF CommitRequest, Committed
<1>4. CASE op.name \in Creates
  <2>1. c.new = {k} /\ rows[k] = Missing
    BY <1>1, <1>4 DEF PlaceInv, RowsInv
  <2>2. op.name # "attach"
    BY <1>4 DEF Creates
  <2>3. ASSUME NEW x \in Kinds PROVE rows'[x] = Alone(op)[x]
    BY <1>4, <2>1, <2>2, CommittedFacts DEF Alone
  <2>. QED  BY <1>3, <1>4, <2>1, <2>3 DEF Permitted, Alone
<1>5. CASE op.name \in Updates
  <2>1. c.base = rows[k] /\ c.base \in Row /\ c.want \in Wanted(rows[k], op) /\ c.cols = Changes(c)
    BY <1>1, <1>5 DEF RowsInv
  <2>2. Wanted(rows[k], op) = {c.want}
    BY <1>1, <1>2, <1>5, <2>1, WantedFacts
  <2>3. (CHOOSE row \in Wanted(rows[k], op) : TRUE) = c.want
    BY <2>2
  <2>4. op.name \notin Creates /\ k \notin c.new /\ rows[k] # Missing
    <3>1. op.name \notin Creates
      BY <1>5 DEF Updates, Creates
    <3>2. c.new \subseteq {"repository"} /\ k # "repository"
      BY <1>1, <1>2, <1>5 DEF PlaceInv, Asking
    <3>. QED  BY <2>1, <3>1, <3>2, MissingFacts
  <2>5. rows'[k] = c.want
    <3>1. rows'[k] = IF c.want = Missing /\ c.cols # {} THEN Missing
                     ELSE [x \in {"status", "text", "link"} |-> IF x \in c.cols THEN c.want[x] ELSE rows[k][x]]
      BY <1>2, <2>4, CommittedFacts
    <3>2. CASE op.name = "revoke"
      <4>1. c.want = Missing
        BY <1>1, <1>2, <1>5, <2>1, <3>2, WantedFacts
      <4>2. "status" \in Columns(k)
        BY <1>2, <3>2 DEF Asking, Columns, Creates
      <4>3. c.want["status"] = "none" /\ c.base["status"] # "none"
        BY <2>1, <4>1, MissingFacts DEF Row, Statuses, FeatureStatus, FeatureTransitions
      <4>. QED  BY <2>1, <3>1, <4>1, <4>2, <4>3 DEF Changes
    <3>3. CASE op.name # "revoke"
      <4>1. c.want \in Row /\ \A col \in DOMAIN Missing : col \notin Columns(k) => c.want[col] = c.base[col]
        BY <1>1, <1>2, <1>5, <2>1, <3>3, WantedFacts
      <4>2. \A col \in {"status", "text", "link"} : col \notin c.cols => c.want[col] = rows[k][col]
        BY <2>1, <4>1, MissingFacts DEF Changes
      <4>3. c.cols \in SUBSET {"status", "text", "link"}
        BY <1>1 DEF HandlerRecord
      <4>4. [x \in {"status", "text", "link"} |-> IF x \in c.cols THEN c.want[x] ELSE rows[k][x]] = c.want
        BY <2>1, <4>1, <4>2, <4>3, MixedIsFirst
      <4>. QED  BY <3>1, <4>1, <4>4, MissingFacts
    <3>. QED  BY <3>2, <3>3
  <2>6. ASSUME NEW x \in Kinds PROVE rows'[x] = Alone(op)[x]
    <3>1. CASE x = k
      BY <2>3, <2>4, <2>5, <3>1 DEF Alone
    <3>2. CASE x # k /\ x \in c.new
      <4>1. x = "repository" /\ op.name = "attach" /\ rows[x] = Missing
        BY <1>1, <1>5, <3>2 DEF PlaceInv, RowsInv
      <4>. QED  BY <3>2, <4>1, CommittedFacts DEF Alone
    <3>3. CASE x # k /\ x \notin c.new
      <4>1. x = "repository" /\ op.name = "attach" => rows[x] # Missing
        <5>1. op.name = "attach" => c.new \subseteq {"repository"}
          BY <1>1, <1>5 DEF PlaceInv
        <5>. QED  BY <1>1, <3>3, <5>1 DEF RowsInv
      <4>2. rows'[x] = rows[x]
        BY <3>3, CommittedFacts
      <4>. QED  BY <3>3, <4>1, <4>2 DEF Alone
    <3>. QED  BY <3>1, <3>2, <3>3
  <2>. QED  BY <1>3, <2>2, <2>4, <2>6 DEF Permitted, Alone
<1>. QED  BY <1>2, <1>4, <1>5 DEF Asking, Creates, Updates

\* ... and one overtaken, if not shadowed, still keeps to the columns asked for.
LEMMA CommitOnlyRequested ==
  ASSUME ResourcesInv, NEW s \in Requests, CommitRequest(s), s \notin shadowed,
         handler[s].op.name \notin Creates \cup {"revoke"},
         NEW col \in DOMAIN Missing \ Requested(handler[s].op)
  PROVE  rows'[handler[s].op.kind][col] = rows[handler[s].op.kind][col]
<1> DEFINE c == handler[s]
           op == c.op
           k == op.kind
<1>1. /\ c \in HandlerRecord /\ PlaceInv(c) /\ RowsInv(s, c) /\ c.pc = "commit"
      /\ op \in OperationRecord
  BY DEF ResourcesInv, ResourceTypes, CommitRequest, HandlerRecord
<1>2. Asking(op) /\ k \in Kinds
  BY <1>1 DEF PlaceInv, Asking, Kinds
<1>3. op.name \in Updates \ {"revoke"}
  BY <1>2 DEF Asking, Updates, Creates
<1>4. /\ c.base \in Row /\ c.want \in Wanted(c.base, op) /\ c.cols = Changes(c) /\ rows[k] # Missing
  BY <1>1, <1>3 DEF RowsInv
<1>5. c.want \in Row /\ c.want[col] = c.base[col]
  BY <1>1, <1>2, <1>3, <1>4, WantedFacts
<1>6. col \notin c.cols /\ c.want # Missing /\ col \in {"status", "text", "link"}
  BY <1>4, <1>5, MissingFacts DEF Changes
<1>7. k \notin c.new
  BY <1>1, <1>2, <1>3 DEF PlaceInv, Asking
<1>8. rows'[k] = [x \in {"status", "text", "link"} |-> IF x \in c.cols THEN c.want[x] ELSE rows[k][x]]
  BY <1>2, <1>4, <1>6, <1>7, CommittedFacts
<1>. QED  BY <1>6, <1>8

\* For any number of concurrent requests: an update that no other commit
\* overtook is legal (a transition of the feature's state machine, say) and
\* has the effect it has alone, and one that was overtaken still writes the
\* columns it was asked to change and no other (SQLAlchemy's dirty columns).
THEOREM UpdatesTakeEffectAlone == ResourcesSpec => UpdatesAsIfAlone
<1>1. ASSUME ResourcesInv, NEW s \in Requests, CommitRequest(s)
      PROVE  LET op == handler[s].op IN
             /\ s \notin overtaken => Permitted(op) /\ rows' = Alone(op)
             /\ s \notin shadowed /\ op.name \notin Creates \cup {"revoke"} =>
                  \A col \in DOMAIN Missing \ Requested(op) : rows'[op.kind][col] = rows[op.kind][col]
  BY <1>1, CommitAlone, CommitOnlyRequested
<1>2. ResourcesInv /\ [ResourcesNext]_resourceVars =>
        [\A s \in Requests : CommitRequest(s) =>
           LET op == handler[s].op IN
           /\ s \notin overtaken => Permitted(op) /\ rows' = Alone(op)
           /\ s \notin shadowed /\ op.name \notin Creates \cup {"revoke"} =>
                \A col \in DOMAIN Missing \ Requested(op) :
                  rows'[op.kind][col] = rows[op.kind][col]]_resourceVars
  BY <1>1
<1>. QED  BY <1>2, ResourcesInvHolds, PTL DEF ResourcesSpec, UpdatesAsIfAlone

------------------------------------------------------------------------------
(***************************************************************************)
(* Lists, read page by page                                                *)
(***************************************************************************)

\* The lists read by cursor, those with the newest row first, and those read by page number.
CursorLists == {"audit_events", "execution_history", "tasks", "agent_runs", "metrics", "task_graph"}
NewestFirst == {"audit_events", "execution_history", "agents", "context_packages",
                "source_documents", "prompt_templates"}
PageLists == {"projects", "users", "agents", "context_packages", "source_documents", "prompt_templates"}
ReaderRecord ==
  [list : CursorLists \cup PageLists \cup {"none"}, newest : BOOLEAN, limit : Nat,
   pc : {"idle", "cursor", "count", "counted", "finished"}, cursor : [at : Nat, id : Nat],
   offset : Nat, total : Nat, got : Seq(Ids), before : SUBSET Ids]

\* Rows and reader, what the type invariant leaves open included.
ListingTypes ==
  /\ table \in [Ids -> [state : {"none", "flushed", "committed"}, at : 0..MaxClock]]
  /\ clock \in 1..MaxClock
  /\ reader \in ReaderRecord
  /\ passed \in BOOLEAN
  /\ \A r \in Ids : table[r].state = "none" => table[r] = NoRow
  /\ \A r \in Ids : table[r].state # "none" => table[r].at > 0
  /\ IsFiniteSet(CommittedRows)

\* Where a reader is, and what it has seen is committed.
ReaderPlace ==
  /\ reader.pc = "idle" <=> reader = NoReader
  /\ reader.pc # "idle" => reader.limit > 0
  /\ reader.pc # "idle" => reader.list \in CursorLists \cup PageLists
  /\ reader.pc = "cursor" => reader.list \in CursorLists
  /\ reader.pc \in {"count", "counted"} => reader.list \in PageLists
  /\ reader.list \in CursorLists => reader.total = 0 /\ reader.offset = 0
  /\ reader.list \in PageLists /\ reader.pc = "finished" => reader.offset > 0
  /\ reader.list \in CursorLists => (reader.newest <=> reader.list \in NewestFirst)
  /\ reader.list \in PageLists \ {"projects", "users"} => reader.newest
  /\ reader.before \subseteq CommittedRows
  /\ \A i \in DOMAIN reader.got : reader.got[i] \in CommittedRows

\* By cursor: what was there is seen, or comes after the last row seen.
ByCursor ==
  reader.list \in CursorLists =>
    /\ \A i, j \in DOMAIN reader.got : i < j => InOrder(reader.got[i], reader.got[j])
    /\ reader.pc = "cursor" /\ reader.got = <<>> => reader.cursor = NoCursor
    /\ reader.pc = "cursor" /\ reader.got # <<>> =>
         /\ reader.cursor = Key(Last(reader.got))
         /\ \A r \in reader.before \ ToSet(reader.got) : InOrder(Last(reader.got), r)
    /\ reader.pc = "finished" => reader.before \subseteq ToSet(reader.got)

\* By page number: the rows that come before one, if no two share a time.
Ahead(newest, r) == {x \in CommittedRows : Misplaced(newest, r, x)}

ByPage ==
  reader.list \in PageLists /\ ~ Ties =>
    /\ \A r \in reader.before \ ToSet(reader.got) :
         Cardinality(Ahead(reader.newest, r)) >= reader.offset
    /\ reader.pc = "counted" /\ ~ passed => reader.total = Cardinality(CommittedRows)
    /\ reader.pc = "finished" /\ ~ passed => reader.before \subseteq ToSet(reader.got)
    /\ reader.before = CommittedRows =>
         /\ Len(reader.got) <= reader.offset
         /\ reader.offset <= Cardinality(CommittedRows) => Len(reader.got) = reader.offset
         /\ \A i \in DOMAIN reader.got : Cardinality(Ahead(reader.newest, reader.got[i])) = i - 1

\* The inductive invariant.
ListingInv == ListingTypes /\ ReaderPlace /\ ByCursor /\ ByPage

------------------------------------------------------------------------------

\* A permutation of a finite set is a sequence of all its elements.
LEMMA PermutationFacts ==
  ASSUME NEW S, IsFiniteSet(S), NEW o \in SetToSeqs(S)
  PROVE  /\ o \in Seq(S) /\ Len(o) = Cardinality(S) /\ ToSet(o) = S
         /\ \A i, j \in 1..Len(o) : i # j => o[i] # o[j]
<1> DEFINE n == Cardinality(S)
<1>1. n \in Nat
  BY FS_CardinalityType
<1>2. o \in [1..n -> S] /\ \A i, j \in 1..n : i # j => o[i] # o[j]
  BY DEF SetToSeqs
<1> HIDE DEF n
<1>3. o \in Seq(S) /\ Len(o) = n
  BY <1>1, <1>2
<1>4. o \in Injection(1..n, S)
  BY <1>2, Fun_IsInj
<1>5. Cardinality(1..n) = n
  BY <1>1, FS_Interval
<1>6. o \in Surjection(1..n, S)
  BY <1>4, <1>5, FS_Injection DEF n
<1>7. ToSet(o) = S
  <2>1. \A t \in S : \E i \in 1..n : o[i] = t
    BY <1>6 DEF Surjection
  <2>2. DOMAIN o = 1..n /\ \A i \in 1..n : o[i] \in S
    BY <1>2
  <2>3. \A x : x \in {o[i] : i \in DOMAIN o} <=> x \in S
    BY <2>1, <2>2
  <2>4. {o[i] : i \in DOMAIN o} = S
    BY <2>3
  <2>5. ToSet(o) = {o[i] : i \in DOMAIN o}
    BY DEF ToSet
  <2>. QED  BY <2>4, <2>5
<1>. QED  BY <1>2, <1>3, <1>7 DEF n

\* A finite set can be listed in the order of any strict total order on it.
LEMMA SortedListExists ==
  ASSUME NEW S, IsFiniteSet(S), NEW R,
         \A x \in S : <<x, x>> \notin R,
         \A x, y \in S : x # y => <<x, y>> \in R \/ <<y, x>> \in R,
         \A x, y, z \in S : <<x, y>> \in R /\ <<y, z>> \in R => <<x, z>> \in R
  PROVE  \E o \in SetToSeqs(S) :
           \A i, j \in DOMAIN o : i < j => <<o[j], o[i]>> \notin R
<1> DEFINE n == Cardinality(S)
           Smaller(x) == {y \in S : <<y, x>> \in R}
           rank == [x \in S |-> Cardinality(Smaller(x)) + 1]
<1>1. n \in Nat
  BY FS_CardinalityType
<1>2. ASSUME NEW x \in S
      PROVE  /\ IsFiniteSet(Smaller(x)) /\ Cardinality(Smaller(x)) \in Nat
             /\ Cardinality(Smaller(x) \cup {x}) = Cardinality(Smaller(x)) + 1
             /\ rank[x] \in 1..n
  <2>1. IsFiniteSet(Smaller(x))
    BY FS_Subset
  <2>2. Cardinality(Smaller(x)) \in Nat
    BY <2>1, FS_CardinalityType
  <2>3. x \notin Smaller(x)
    OBVIOUS
  <2>4. Cardinality(Smaller(x) \cup {x}) =
          IF x \in Smaller(x) THEN Cardinality(Smaller(x)) ELSE Cardinality(Smaller(x)) + 1
    BY <2>1, FS_AddElement
  <2>5. Cardinality(Smaller(x) \cup {x}) = Cardinality(Smaller(x)) + 1
    BY <2>3, <2>4
  <2>6. Smaller(x) \cup {x} \in SUBSET S
    OBVIOUS
  <2>7. Cardinality(Smaller(x) \cup {x}) <= n
    BY <2>6, FS_Subset
  <2> HIDE DEF Smaller, n
  <2>8. rank[x] \in 1..n
    BY <1>1, <2>2, <2>5, <2>7
  <2>. QED  BY <2>1, <2>2, <2>5, <2>8
<1>3. ASSUME NEW x \in S, NEW y \in S, <<x, y>> \in R
      PROVE  rank[x] < rank[y]
  <2>1. Smaller(x) \cup {x} \in SUBSET Smaller(y)
    BY <1>3
  <2>2. IsFiniteSet(Smaller(y))
    BY <1>2
  <2>3. Cardinality(Smaller(x) \cup {x}) <= Cardinality(Smaller(y))
    BY <2>1, <2>2, FS_Subset
  <2>4. Cardinality(Smaller(x)) + 1 <= Cardinality(Smaller(y))
    BY <1>2, <2>3
  <2>5. Cardinality(Smaller(x)) \in Nat /\ Cardinality(Smaller(y)) \in Nat
    BY <1>2
  <2>. QED  BY <2>4, <2>5
<1> HIDE DEF rank, n
<1>4. rank \in [S -> 1..n]
  BY <1>2 DEF rank
<1>5. ASSUME NEW x \in S, NEW y \in S, rank[x] = rank[y] PROVE x = y
  <2>1. rank[x] \in Nat
    BY <1>1, <1>4
  <2>2. ~ (rank[x] < rank[y]) /\ ~ (rank[y] < rank[x])
    BY <1>5, <2>1
  <2>. QED  BY <1>3, <2>2
<1>6. rank \in Injection(S, 1..n)
  BY <1>4, <1>5, Fun_IsInj
<1>7. IsFiniteSet(1..n) /\ Cardinality(1..n) = n
  BY <1>1, FS_Interval
<1>8. rank \in Surjection(S, 1..n)
  BY <1>6, <1>7, FS_Injection DEF n
<1>9. \A k \in 1..n : \E x \in S : rank[x] = k
  BY <1>8, Fun_SurjectionProperties
<1> DEFINE o == [k \in 1..n |-> CHOOSE x \in S : rank[x] = k]
<1>10. \A k \in 1..n : o[k] \in S /\ rank[o[k]] = k
  BY <1>9
<1> HIDE DEF o
<1>11. DOMAIN o = 1..n
  BY DEF o
<1>12. o \in [1..n -> S]
  BY <1>10 DEF o
<1>13. \A i, j \in 1..n : i # j => o[i] # o[j]
  BY <1>10
<1>14. o \in SetToSeqs(S)
  BY <1>12, <1>13 DEF SetToSeqs, n
<1>15. \A i, j \in DOMAIN o : i < j => <<o[j], o[i]>> \notin R
  <2>1. ASSUME NEW i \in 1..n, NEW j \in 1..n, i < j, <<o[j], o[i]>> \in R
        PROVE  FALSE
    <3>1. rank[o[j]] < rank[o[i]]
      BY <1>3, <1>10, <2>1
    <3>. QED  BY <1>10, <2>1, <3>1
  <2>. QED  BY <1>11, <2>1
<1>. QED  BY <1>14, <1>15

\* The elements of S that come before x.
Preceding(S, R, x) == {y \in S : <<y, x>> \in R}

\* In such a list, as many elements come before one as its position says.
LEMMA PositionCounts ==
  ASSUME NEW S, IsFiniteSet(S), NEW R,
         \A x \in S : <<x, x>> \notin R,
         \A x, y \in S : x # y => <<x, y>> \in R \/ <<y, x>> \in R,
         NEW o \in SetToSeqs(S),
         \A i, j \in DOMAIN o : i < j => <<o[j], o[i]>> \notin R,
         NEW k \in DOMAIN o
  PROVE  Cardinality(Preceding(S, R, o[k])) = k - 1
<1> DEFINE T == {y \in S : <<y, o[k]>> \in R}
           f == [i \in 1..(k - 1) |-> o[i]]
<1>1. /\ o \in Seq(S) /\ ToSet(o) = S
      /\ \A i, j \in 1..Len(o) : i # j => o[i] # o[j]
  BY PermutationFacts
<1>2. DOMAIN o = 1..Len(o) /\ Len(o) \in Nat
  BY <1>1
<1>3. k \in 1..Len(o) /\ \A i \in 1..Len(o) : o[i] \in S
  BY <1>1, <1>2
<1>4. ASSUME NEW i \in 1..Len(o) PROVE o[i] \in T <=> i < k
  <2>1. CASE i = k
    BY <1>3, <2>1
  <2>2. CASE i < k
    <3>1. o[i] # o[k] /\ <<o[k], o[i]>> \notin R
      BY <1>1, <1>2, <1>3, <2>2
    <3>. QED  BY <1>3, <2>2, <3>1
  <2>3. CASE k < i
    <3>1. <<o[i], o[k]>> \notin R
      BY <1>2, <1>3, <2>3
    <3>. QED  BY <1>3, <2>3, <3>1
  <2>. QED  BY <1>3, <2>1, <2>2, <2>3
<1>5. \A y \in T : \E i \in 1..Len(o) : y = o[i]
  BY <1>1, <1>2 DEF ToSet
<1> HIDE DEF T
<1>6. f \in [1..(k - 1) -> T]
  BY <1>3, <1>4
<1>7. \A i, j \in 1..(k - 1) : f[i] = f[j] => i = j
  BY <1>1, <1>3
<1>8. \A y \in T : \E i \in 1..(k - 1) : f[i] = y
  <2>1. ASSUME NEW y \in T PROVE \E i \in 1..(k - 1) : f[i] = y
    <3>1. PICK i \in 1..Len(o) : y = o[i]
      BY <1>5
    <3>2. i \in 1..(k - 1)
      BY <1>3, <1>4, <3>1
    <3>. QED  BY <3>1, <3>2
  <2>. QED  BY <2>1
<1> HIDE DEF f
<1>9. f \in Bijection(1..(k - 1), T)
  BY <1>6, <1>7, <1>8, Fun_IsBij
<1>10. ExistsBijection(1..(k - 1), T)
  BY <1>9, Fun_ExistsBij
<1>14. k - 1 \in Int /\ 1 \in Int
  BY <1>3
<1>11. IsFiniteSet(1..(k - 1)) /\ Cardinality(1..(k - 1)) = IF 1 > k - 1 THEN 0 ELSE k - 1 - 1 + 1
  BY <1>14, FS_Interval
<1>12. Cardinality(T) = Cardinality(1..(k - 1))
  BY <1>10, <1>11, FS_Bijection
<1>13. Cardinality(1..(k - 1)) = k - 1
  BY <1>3, <1>11
<1>. QED  BY <1>12, <1>13 DEF T, Preceding

------------------------------------------------------------------------------

\* The order of the cursor lists, as a relation on the rows.
Comes(newest) ==
  {p \in Ids \X Ids : IF newest THEN Newer(Key(p[1]), Key(p[2])) ELSE Older(Key(p[1]), Key(p[2]))}

\* Keys are told apart by their ids; a committed row is not the empty cursor.
LEMMA KeyFacts ==
  ASSUME ListingTypes
  PROVE  /\ Ids \subseteq Nat
         /\ \A r \in Ids : /\ table[r].at \in Nat
                           /\ Key(r).at = table[r].at /\ Key(r).id = r
                           /\ Key(r) \in [at : Nat, id : Nat]
         /\ \A r \in CommittedRows : r \in Ids /\ table[r].at > 0 /\ Key(r) # NoCursor
<1>1. Ids \subseteq Nat
  BY ListingsAssumption
<1>2. \A r \in Ids : table[r].at \in Nat
  BY ListingsAssumption DEF ListingTypes
<1>3. \A r \in CommittedRows : r \in Ids /\ table[r].at > 0
  BY DEF ListingTypes, CommittedRows
<1>4. NoCursor.at = 0
  BY DEF NoCursor
<1>5. \A r \in Ids : Key(r).at = table[r].at /\ Key(r).id = r
  BY DEF Key
<1>6. \A r \in Ids : Key(r) \in [at : Nat, id : Nat]
  BY <1>1, <1>2 DEF Key
<1>7. \A r \in CommittedRows : Key(r) # NoCursor
  <2> SUFFICES ASSUME NEW r \in CommittedRows PROVE Key(r) # NoCursor
    OBVIOUS
  <2>1. table[r].at > 0 /\ Key(r).at = table[r].at
    BY <1>3, <1>5
  <2>. QED  BY <1>4, <2>1
<1>. QED  BY <1>1, <1>2, <1>3, <1>5, <1>6, <1>7

\* Created_at, then id: a strict total order, whichever end is first.
LEMMA RowOrder ==
  ASSUME ListingTypes, NEW newest \in BOOLEAN
  PROVE  /\ \A x \in Ids : <<x, x>> \notin Comes(newest)
         /\ \A x, y \in Ids : x # y => <<x, y>> \in Comes(newest) \/ <<y, x>> \in Comes(newest)
         /\ \A x, y, z \in Ids :
              <<x, y>> \in Comes(newest) /\ <<y, z>> \in Comes(newest) => <<x, z>> \in Comes(newest)
<1>1. \A a, b \in Ids : <<a, b>> \in Comes(newest) <=>
        IF newest THEN Older(Key(b), Key(a)) ELSE Older(Key(a), Key(b))
  BY DEF Comes, Newer
<1>2. \A a, b \in Ids : Older(Key(a), Key(b)) <=>
        table[a].at < table[b].at \/ (table[a].at = table[b].at /\ a < b)
  BY KeyFacts DEF Older
<1>3. \A a \in Ids : a \in Nat /\ table[a].at \in Nat
  BY KeyFacts
<1>4. \A a, b, c \in Ids :
        /\ ~ Older(Key(a), Key(a))
        /\ a # b => Older(Key(a), Key(b)) \/ Older(Key(b), Key(a))
        /\ Older(Key(a), Key(b)) /\ Older(Key(b), Key(c)) => Older(Key(a), Key(c))
  BY <1>2, <1>3
<1>5. CASE newest
  BY <1>1, <1>4, <1>5
<1>6. CASE ~ newest
  BY <1>1, <1>4, <1>6
<1>. QED  BY <1>5, <1>6

\* The rows beyond a cursor, and what a page of them is.
Beyond(newest, cursor) ==
  {r \in CommittedRows :
     \/ cursor = NoCursor
     \/ IF newest THEN Newer(DecodeCursor(cursor), Key(r)) ELSE Older(DecodeCursor(cursor), Key(r))}

IsPage(answer, o, limit) ==
  IF Len(o) > limit
  THEN LET page == SubSeq(o, 1, limit) IN
       answer = [page |-> page, more |-> TRUE, next |-> Key(page[Len(page)])]
  ELSE answer = [page |-> SubSeq(o, 1, Len(o)), more |-> FALSE, next |-> NoCursor]

Sorted(o, newest) ==
  /\ o \in Seq(CommittedRows)
  /\ \A i, j \in 1..Len(o) : i < j => <<o[i], o[j]>> \in Comes(newest)

\* A page is the first of the rows beyond the cursor, in their order.
LEMMA CursorPageFacts ==
  ASSUME ListingTypes, NEW newest \in BOOLEAN, NEW cursor, NEW limit \in Nat
  PROVE  \E o : /\ Sorted(o, newest) /\ ToSet(o) = Beyond(newest, cursor)
                /\ IsPage(CursorPage(newest, cursor, limit), o, limit)
<1> DEFINE S == Beyond(newest, cursor)
           R == Comes(newest)
           Orders == {q \in SetToSeqs(S) : \A i, j \in DOMAIN q : i < j => <<q[j], q[i]>> \notin R}
           o == CHOOSE q \in SetToSeqs(S) : \A i, j \in DOMAIN q : i < j => <<q[j], q[i]>> \notin R
<1>1. S \subseteq CommittedRows /\ CommittedRows \subseteq Ids
  BY DEF Beyond, CommittedRows
<1>2. IsFiniteSet(S)
  BY <1>1, FS_Subset DEF ListingTypes
<1>3. /\ \A x \in S : <<x, x>> \notin R
      /\ \A x, y \in S : x # y => <<x, y>> \in R \/ <<y, x>> \in R
      /\ \A x, y, z \in S : <<x, y>> \in R /\ <<y, z>> \in R => <<x, z>> \in R
  BY <1>1, RowOrder
<1> HIDE DEF S, R
<1>4. \E q \in SetToSeqs(S) : \A i, j \in DOMAIN q : i < j => <<q[j], q[i]>> \notin R
  BY <1>2, <1>3, SortedListExists
<1>5. o \in SetToSeqs(S) /\ \A i, j \in DOMAIN o : i < j => <<o[j], o[i]>> \notin R
  BY <1>4
<1>6. IsPage(CursorPage(newest, cursor, limit), o, limit)
  <2> DEFINE Before(a, b) == IF newest THEN Newer(a, b) ELSE Older(a, b)
             found == {r \in CommittedRows : cursor = NoCursor \/ Before(DecodeCursor(cursor), Key(r))}
             ordered == CHOOSE q \in SetToSeqs(found) :
                          \A i, j \in DOMAIN q : i < j => ~ Before(Key(q[j]), Key(q[i]))
             page == SubSeq(ordered, 1, IF Len(ordered) < limit THEN Len(ordered) ELSE limit)
             more == Len(ordered) > limit
  <2>1. CursorPage(newest, cursor, limit) =
          [page |-> page, more |-> more, next |-> IF more THEN EncodeCursor(page[Len(page)]) ELSE NoCursor]
    BY DEF CursorPage
  <2>2. found = S
    BY DEF S, Beyond
  <2>3. \A q \in SetToSeqs(S) : \A i \in DOMAIN q : q[i] \in Ids
    <3>1. ASSUME NEW q \in SetToSeqs(S), NEW i \in DOMAIN q PROVE q[i] \in Ids
      <4>1. q \in Seq(S)
        BY <1>2, PermutationFacts
      <4>. QED  BY <1>1, <4>1
    <3>. QED  BY <3>1
  <2>4. \A q \in SetToSeqs(S) :
          (\A i, j \in DOMAIN q : i < j => ~ Before(Key(q[j]), Key(q[i]))) <=>
          (\A i, j \in DOMAIN q : i < j => <<q[j], q[i]>> \notin R)
    BY <2>3 DEF R, Comes
  <2> HIDE DEF found
  <2>5. ordered = o
    BY <2>2, <2>4
  <2>6. o \in Seq(S) /\ Len(o) \in Nat
    BY <1>2, <1>5, PermutationFacts
  <2> HIDE DEF ordered, o
  <2>7. CASE Len(o) > limit
    <3>1. more = TRUE /\ page = SubSeq(o, 1, limit)
      BY <2>5, <2>6, <2>7
    <3>. QED  BY <2>1, <2>7, <3>1 DEF IsPage, EncodeCursor
  <2>8. CASE ~ (Len(o) > limit)
    <3>1. more = FALSE /\ page = SubSeq(o, 1, Len(o))
      BY <2>5, <2>6, <2>8
    <3>. QED  BY <2>1, <2>8, <3>1 DEF IsPage
  <2>. QED  BY <2>7, <2>8
<1> HIDE DEF o
<1>7. o \in Seq(S) /\ ToSet(o) = S /\ \A i, j \in 1..Len(o) : i # j => o[i] # o[j]
  BY <1>2, <1>5, PermutationFacts
<1>8. Sorted(o, newest)
  <2>1. o \in Seq(CommittedRows)
    BY <1>1, <1>7
  <2>2. ASSUME NEW i \in 1..Len(o), NEW j \in 1..Len(o), i < j PROVE <<o[i], o[j]>> \in R
    <3>1. DOMAIN o = 1..Len(o) /\ o[i] \in S /\ o[j] \in S /\ o[i] # o[j]
      BY <1>7, <2>2
    <3>2. <<o[j], o[i]>> \notin R
      BY <1>5, <2>2, <3>1
    <3>. QED  BY <1>3, <3>1, <3>2
  <2>. QED  BY <2>1, <2>2 DEF Sorted, R
<1>. QED  BY <1>6, <1>7, <1>8 DEF S

\* The order that the property speaks of is that of the query.
LEMMA InOrderFacts ==
  ASSUME NEW a \in Ids, NEW b \in Ids
  PROVE  InOrder(a, b) <=> <<a, b>> \in Comes(reader.newest)
  BY DEF InOrder, Comes

------------------------------------------------------------------------------

\* What is committed stays, with its time; others commit at most one row.
Settles ==
  /\ reader' = reader
  /\ \A x \in CommittedRows : table'[x].at = table[x].at
  /\ \/ CommittedRows' = CommittedRows /\ passed' = passed
     \/ \E r \in Ids \ CommittedRows :
          CommittedRows' = CommittedRows \cup {r} /\ passed' = (passed \/ reader.pc = "counted")

\* What other sessions do to the table.
LEMMA TickStep ==
  ASSUME ListingTypes, Tick
  PROVE  ListingTypes' /\ Settles
<1>1. clock' \in 1..MaxClock /\ table' = table /\ reader' = reader /\ passed' = passed
  BY ListingsAssumption DEF Tick, ListingTypes
<1>2. CommittedRows' = CommittedRows
  BY <1>1 DEF CommittedRows
<1>3. Settles
  BY <1>1, <1>2 DEF Settles
<1>. QED  BY <1>1, <1>2, <1>3 DEF ListingTypes

\* A row is inserted, committed or rolled back.
LEMMA RowStep ==
  ASSUME ListingTypes, NEW r \in Ids, AddRow(r) \/ CommitRow(r) \/ RollBackRow(r)
  PROVE  ListingTypes' /\ Settles
<1> DEFINE RowType == [state : {"none", "flushed", "committed"}, at : 0..MaxClock]
<1>1. table \in [Ids -> RowType] /\ clock \in 1..MaxClock /\ MaxClock \in Nat /\ IsFiniteSet(CommittedRows)
  BY ListingsAssumption DEF ListingTypes
<1>2. PICK row \in RowType :
        /\ table' = [table EXCEPT ![r] = row]
        /\ row.state = "none" => row = NoRow
        /\ row.state # "none" => row.at > 0
        /\ table[r].state # "committed"
        /\ \/ row.state # "committed" /\ passed' = passed
           \/ row.state = "committed" /\ passed' = (passed \/ reader.pc = "counted")
        /\ reader' = reader /\ clock' = clock
  <2>1. CASE AddRow(r)
    <3> DEFINE new == [state |-> "flushed", at |-> clock]
    <3>1. new \in RowType /\ new.state = "flushed" /\ new.at > 0
      BY <1>1
    <3>2. table[r].state # "committed"
      BY <2>1 DEF AddRow, NoRow
    <3>. QED  BY <2>1, <3>1, <3>2 DEF AddRow
  <2>2. CASE CommitRow(r)
    <3> DEFINE new == [table[r] EXCEPT !.state = "committed"]
    <3>1. table[r] \in RowType /\ table[r].state = "flushed" /\ table[r].at > 0
      BY <1>1, <2>2 DEF CommitRow, ListingTypes
    <3>2. new \in RowType /\ new.state = "committed" /\ new.at = table[r].at
      BY <3>1
    <3>3. table' = [table EXCEPT ![r] = new]
      BY <1>1, <2>2 DEF CommitRow
    <3>. QED  BY <2>2, <3>1, <3>2, <3>3 DEF CommitRow
  <2>3. CASE RollBackRow(r)
    <3>1. NoRow \in RowType /\ NoRow.state = "none"
      BY <1>1 DEF NoRow
    <3>. QED  BY <2>3, <3>1 DEF RollBackRow
  <2>. QED  BY <2>1, <2>2, <2>3
<1>3. \A x \in Ids : table'[x] = IF x = r THEN row ELSE table[x]
  BY <1>1, <1>2
<1>4. table' \in [Ids -> RowType]
  BY <1>1, <1>2
<1>5. CommittedRows' = IF row.state = "committed" THEN CommittedRows \cup {r} ELSE CommittedRows
  BY <1>2, <1>3 DEF CommittedRows
<1>6. IsFiniteSet(CommittedRows')
  <2>1. IsFiniteSet(CommittedRows \cup {r})
    BY <1>1, FS_AddElement
  <2>. QED  BY <1>1, <1>5, <2>1
<1>7. r \notin CommittedRows
  BY <1>2 DEF CommittedRows
<1>8. Settles
  <2>1. \A x \in CommittedRows : table'[x].at = table[x].at
    BY <1>3, <1>7 DEF CommittedRows
  <2>. QED  BY <1>2, <1>5, <1>7, <2>1 DEF Settles
<1>9. passed' \in BOOLEAN
  BY <1>2 DEF ListingTypes
<1>10. ListingTypes'
  <2>1. \A x \in Ids : table'[x].state = "none" => table'[x] = NoRow
    BY <1>2, <1>3 DEF ListingTypes
  <2>2. \A x \in Ids : table'[x].state # "none" => table'[x].at > 0
    BY <1>2, <1>3 DEF ListingTypes
  <2>. QED  BY <1>1, <1>2, <1>4, <1>6, <1>9, <2>1, <2>2 DEF ListingTypes
<1>. QED  BY <1>8, <1>10

\* Whatever becomes of the rows, a reader is where it was, and has not missed
\* what it has not passed.
LEMMA SettlesStep ==
  ASSUME ListingInv, ListingTypes', Settles
  PROVE  ReaderPlace' /\ ByCursor' /\ ByPage'
<1>1. /\ reader' = reader /\ CommittedRows \subseteq CommittedRows' /\ CommittedRows \subseteq Ids
      /\ \A x \in CommittedRows : table'[x].at = table[x].at
      /\ reader \in ReaderRecord
  BY DEF Settles, CommittedRows, ListingInv, ListingTypes
<1>2. ReaderPlace'
  BY <1>1 DEF ListingInv, ReaderPlace
<1>3. \A x \in CommittedRows : Key(x)' = Key(x)
  BY <1>1 DEF Key
<1>4. \A a, b \in CommittedRows : InOrder(a, b)' <=> InOrder(a, b)
  BY <1>1, <1>3 DEF InOrder
<1>5. /\ reader.before \subseteq CommittedRows
      /\ \A i \in DOMAIN reader.got : reader.got[i] \in CommittedRows
  BY DEF ListingInv, ReaderPlace
<1>6. DOMAIN reader.got = 1..Len(reader.got) /\ Len(reader.got) \in Nat
  BY <1>1 DEF ReaderRecord
<1>7. ByCursor'
  <2> SUFFICES ASSUME reader.list \in CursorLists PROVE ByCursor'
    BY <1>1 DEF ByCursor
  <2>1. \A i, j \in DOMAIN reader.got : i < j => InOrder(reader.got[i], reader.got[j])'
    BY <1>1, <1>4, <1>5 DEF ListingInv, ByCursor
  <2>2. reader.got # <<>> => Last(reader.got) \in CommittedRows
    BY <1>1, <1>5, <1>6 DEF Last, ReaderRecord
  <2>3. reader.got # <<>> => Key(Last(reader.got))' = Key(Last(reader.got))
    BY <1>1, <1>3, <2>2
  <2>4. reader.got # <<>> => \A r \in reader.before :
          InOrder(Last(reader.got), r)' <=> InOrder(Last(reader.got), r)
    BY <1>1, <1>4, <1>5, <2>2
  <2>. QED  BY <1>1, <2>1, <2>3, <2>4 DEF ListingInv, ByCursor
<1>8. ByPage'
  <2> SUFFICES ASSUME reader.list \in PageLists, ~ Ties' PROVE ByPage'
    BY <1>1 DEF ByPage
  <2> DEFINE nw == reader.newest
  <2>1. ~ Ties
    BY <1>1 DEF Ties
  <2>2. ASSUME NEW r \in CommittedRows
        PROVE  /\ Cardinality(Ahead(nw, r)) <= Cardinality(Ahead(nw, r)')
               /\ CommittedRows' = CommittedRows => Ahead(nw, r)' = Ahead(nw, r)
               /\ Cardinality(Ahead(nw, r)) \in Nat /\ Cardinality(Ahead(nw, r)') \in Nat
    <3>1. Ahead(nw, r) \in SUBSET (Ahead(nw, r)')
      BY <1>1 DEF Ahead, Misplaced
    <3>2. IsFiniteSet(Ahead(nw, r)')
      <4>1. Ahead(nw, r)' \in SUBSET (CommittedRows')
        BY DEF Ahead
      <4>. QED  BY <4>1, FS_Subset DEF ListingTypes
    <3>3. IsFiniteSet(Ahead(nw, r))
      BY <3>1, <3>2, FS_Subset
    <3>4. CommittedRows' = CommittedRows => Ahead(nw, r)' = Ahead(nw, r)
      BY <1>1 DEF Ahead, Misplaced
    <3>. QED  BY <3>1, <3>2, <3>3, <3>4, FS_Subset, FS_CardinalityType
  <2>3. \A r \in reader.before \ ToSet(reader.got) :
          Cardinality(Ahead(nw, r)') >= reader.offset
    <3> SUFFICES ASSUME NEW r \in reader.before \ ToSet(reader.got)
                 PROVE  Cardinality(Ahead(nw, r)') >= reader.offset
      OBVIOUS
    <3>1. Cardinality(Ahead(nw, r)) >= reader.offset
      BY <2>1 DEF ListingInv, ByPage
    <3>2. r \in CommittedRows
      BY <1>5
    <3>3. reader.offset \in Nat
      BY <1>1 DEF ReaderRecord
    <3>. QED  BY <2>2, <3>1, <3>2, <3>3
  <2>4. reader.pc = "counted" /\ ~ passed' => reader.total = Cardinality(CommittedRows)'
    <3>1. CASE CommittedRows' = CommittedRows /\ passed' = passed
      BY <2>1, <3>1 DEF ListingInv, ByPage
    <3>2. CASE passed' = (passed \/ reader.pc = "counted")
      BY <3>2
    <3>. QED  BY <3>1, <3>2 DEF Settles
  <2>5. reader.pc = "finished" /\ ~ passed' => reader.before \subseteq ToSet(reader.got)
    <3>1. CASE passed' = passed
      BY <2>1, <3>1 DEF ListingInv, ByPage
    <3>2. CASE passed' = (passed \/ reader.pc = "counted")
      BY <2>1, <3>2, Zenon DEF ListingInv, ByPage
    <3>. QED  BY <3>1, <3>2 DEF Settles
  <2>6. ASSUME reader.before = CommittedRows'
        PROVE  /\ Len(reader.got) <= reader.offset
               /\ reader.offset <= Cardinality(CommittedRows') => Len(reader.got) = reader.offset
               /\ \A i \in DOMAIN reader.got : Cardinality(Ahead(nw, reader.got[i])') = i - 1
    <3>1. CommittedRows' = CommittedRows
      BY <1>1, <1>5, <2>6
    <3>2. \A i \in DOMAIN reader.got : Ahead(nw, reader.got[i])' = Ahead(nw, reader.got[i])
      BY <1>1, <1>5, <2>2, <3>1
    <3>. QED  BY <2>1, <2>6, <3>1, <3>2 DEF ListingInv, ByPage
  <2>. QED  BY <1>1, <2>3, <2>4, <2>5, <2>6 DEF ByPage
<1>. QED  BY <1>2, <1>7, <1>8

------------------------------------------------------------------------------

\* The record of no reader, named so that its parts can be used one by one.
NoReaderFacts == /\ NoReader \in ReaderRecord /\ NoReader.list = "none" /\ NoReader.pc = "idle"
                 /\ NoReader.before = {} /\ NoReader.got = <<>> /\ NoReader.limit = 0
                 /\ NoReader.offset = 0 /\ NoReader.total = 0 /\ NoReader.cursor = NoCursor

\* The record of no reader is the record of a reader.
LEMMA NoReaderType == NoReaderFacts
<1>1. <<>> \in Seq(Ids)
  OBVIOUS
<1> DEFINE nothing == <<>>
<1> HIDE DEF nothing
<1>2. nothing \in Seq(Ids)
  BY <1>1 DEF nothing
<1>3. NoCursor \in [at : Nat, id : Nat]
  BY DEF NoCursor
<1>4. NoReader = [list |-> "none", newest |-> TRUE, limit |-> 0, pc |-> "idle", cursor |-> NoCursor,
                  offset |-> 0, total |-> 0, got |-> nothing, before |-> {}]
  BY DEF NoReader, nothing
<1>. QED  BY <1>2, <1>3, <1>4 DEF NoReaderFacts, ReaderRecord, nothing

\* A client begins to read.
LEMMA OpensStep ==
  ASSUME ListingInv, NEW list \in CursorLists \cup PageLists, NEW newest \in BOOLEAN, NEW pc,
         Opens(list, newest, pc),
         \/ list \in CursorLists /\ pc = "cursor" /\ (newest <=> list \in NewestFirst)
         \/ list \in PageLists /\ pc = "count" /\ (newest \/ list \in {"projects", "users"})
  PROVE  ListingInv'
<1>1. PICK limit \in Limits :
        /\ reader' = [NoReader EXCEPT !.list = list, !.newest = newest, !.limit = limit, !.pc = pc,
                                      !.before = CommittedRows]
        /\ table' = table /\ clock' = clock /\ passed' = passed
  BY DEF Opens
<1>2. limit \in Nat /\ limit > 0 /\ CommittedRows \subseteq Ids
  BY ListingsAssumption DEF CommittedRows
<1>3. NoReaderFacts
  BY NoReaderType
<1>4. /\ reader' \in ReaderRecord
      /\ reader'.list = list /\ reader'.newest = newest /\ reader'.limit = limit /\ reader'.pc = pc
      /\ reader'.before = CommittedRows /\ reader'.got = <<>> /\ reader'.cursor = NoCursor
      /\ reader'.offset = 0 /\ reader'.total = 0
  BY <1>1, <1>2, <1>3 DEF NoReaderFacts, ReaderRecord
<1>5. CommittedRows' = CommittedRows
  BY <1>1 DEF CommittedRows
<1>6. ListingTypes'
  BY <1>1, <1>4, <1>5 DEF ListingInv, ListingTypes
<1>7. Len(<<>>) = 0 /\ DOMAIN <<>> = {}
  OBVIOUS
<1>8. CursorLists \cap PageLists = {} /\ "none" \notin CursorLists \cup PageLists
  BY DEF CursorLists, PageLists
<1>9. ReaderPlace'
  <2>1. reader' # NoReader
    BY <1>3, <1>4 DEF NoReaderFacts
  <2>2. CASE list \in CursorLists
    BY <1>2, <1>4, <1>5, <1>7, <1>8, <2>1, <2>2 DEF ReaderPlace
  <2>3. CASE list \in PageLists
    BY <1>2, <1>4, <1>5, <1>7, <1>8, <2>1, <2>3 DEF ReaderPlace
  <2>. QED  BY <2>2, <2>3
<1>10. ByCursor'
  BY <1>4, <1>7, <1>8 DEF ByCursor
<1>11. ByPage'
  <2> SUFFICES ASSUME list \in PageLists PROVE ByPage'
    BY <1>4 DEF ByPage
  <2>1. pc = "count"
    BY <1>8
  <2>2. \A r \in CommittedRows : Cardinality(Ahead(newest, r)') \in Nat
    <3>1. ASSUME NEW r \in CommittedRows PROVE Cardinality(Ahead(newest, r)') \in Nat
      <4>1. Ahead(newest, r)' \in SUBSET (CommittedRows')
        BY DEF Ahead
      <4>. QED  BY <1>6, <4>1, FS_Subset, FS_CardinalityType DEF ListingTypes
    <3>. QED  BY <3>1
  <2>3. \A r \in reader'.before : Cardinality(Ahead(newest, r)') >= 0
    BY <1>4, <2>2
  <2>. QED  BY <1>4, <1>7, <2>1, <2>3 DEF ByPage
<1>. QED  BY <1>6, <1>9, <1>10, <1>11 DEF ListingInv

\* A page by cursor goes on where the one before ended.
LEMMA CursorStep ==
  ASSUME ListingInv, ReadCursorPage
  PROVE  ListingInv'
<1> DEFINE got == reader.got
           limit == reader.limit
           nw == reader.newest
           answer == CursorPage(nw, reader.cursor, limit)
<1>1. /\ reader \in ReaderRecord /\ reader.pc = "cursor" /\ reader.list \in CursorLists
      /\ limit \in Nat /\ limit > 0 /\ nw \in BOOLEAN /\ reader.total = 0 /\ reader.offset = 0
      /\ got \in Seq(Ids) /\ ListingTypes /\ CommittedRows \subseteq Ids
      /\ reader.before \subseteq CommittedRows
      /\ \A i \in 1..Len(got) : got[i] \in CommittedRows
  BY DEF ReadCursorPage, ListingInv, ListingTypes, ReaderPlace, ReaderRecord, CommittedRows
<1>2. AskedPage(reader.cursor, limit) = answer
  <2>1. nw = (reader.list \in NewestFirst)
    BY <1>1 DEF ListingInv, ReaderPlace
  <2>2. CASE reader.list \in {"audit_events", "execution_history"}
    <3>1. nw = TRUE
      BY <2>1, <2>2 DEF NewestFirst
    <3>. QED  BY <2>2, <3>1 DEF AskedPage, AuditEventPage, ExecutionHistoryPage
  <2>3. CASE reader.list \in {"tasks", "agent_runs", "metrics", "task_graph"}
    <3>1. reader.list \notin NewestFirst
      BY <2>3 DEF NewestFirst
    <3>2. nw = FALSE
      BY <1>1, <2>1, <3>1
    <3>. QED  BY <2>3, <3>2 DEF AskedPage, TaskPage, AgentRunPage, MetricPage
  <2>. QED  BY <1>1, <2>2, <2>3 DEF CursorLists
<1>3. PICK o : /\ Sorted(o, nw) /\ ToSet(o) = Beyond(nw, reader.cursor)
               /\ IsPage(answer, o, limit)
  BY <1>1, CursorPageFacts
<1>4. /\ reader' = [reader EXCEPT !.got = got \o answer.page, !.cursor = answer.next,
                                  !.pc = IF answer.more THEN "cursor" ELSE "finished"]
      /\ table' = table /\ clock' = clock /\ passed' = passed
  BY <1>2 DEF ReadCursorPage
<1> DEFINE m == IF Len(o) > limit THEN limit ELSE Len(o)
           page == SubSeq(o, 1, m)
<1>5. /\ o \in Seq(CommittedRows) /\ o \in Seq(Ids) /\ Len(o) \in Nat /\ m \in 0..Len(o)
      /\ \A i \in 1..Len(o) : o[i] \in CommittedRows
  BY <1>1, <1>3 DEF Sorted
<1> HIDE DEF answer
<1>6. /\ answer.page = page
      /\ IF Len(o) > limit THEN answer.more = TRUE /\ answer.next = Key(page[Len(page)])
         ELSE answer.more = FALSE /\ answer.next = NoCursor
  <2>1. CASE Len(o) > limit
    <3>1. page = SubSeq(o, 1, limit)
      BY <2>1
    <3> HIDE DEF page
    <3>2. answer = [page |-> page, more |-> TRUE, next |-> Key(page[Len(page)])]
      BY <1>3, <2>1, <3>1 DEF IsPage
    <3>. QED  BY <2>1, <3>2
  <2>2. CASE ~ (Len(o) > limit)
    <3>1. page = SubSeq(o, 1, Len(o))
      BY <2>2
    <3> HIDE DEF page
    <3>2. answer = [page |-> page, more |-> FALSE, next |-> NoCursor]
      BY <1>3, <2>2, <3>1 DEF IsPage
    <3>. QED  BY <2>2, <3>2
  <2>. QED  BY <2>1, <2>2
<1>7. page \in Seq(CommittedRows) /\ page \in Seq(Ids) /\ Len(page) = m /\ \A i \in 1..m : page[i] = o[i]
  <2>1. Len(page) = IF 1 <= m THEN m - 1 + 1 ELSE 0
    BY <1>5, SubSeqProperties
  <2>2. page \in Seq(CommittedRows) /\ \A i \in 1..(m - 1 + 1) : page[i] = o[1 + i - 1]
    BY <1>5, SubSeqProperties
  <2> HIDE DEF page, m
  <2>. QED  BY <1>1, <1>5, <2>1, <2>2
<1> HIDE DEF page
<1>34. PICK all : all = got \o page
  OBVIOUS
<1>8. /\ all \in Seq(Ids) /\ Len(all) = Len(got) + m /\ Len(got) \in Nat
      /\ \A i \in 1..Len(got) : all[i] = got[i]
      /\ \A i \in 1..m : all[Len(got) + i] = o[i]
      /\ \A k \in 1..Len(all) : k \in 1..Len(got) \/ k - Len(got) \in 1..m
  <2>1. Len(got) \in Nat /\ m \in Nat
    BY <1>1, <1>5
  <2>2. /\ all \in Seq(Ids) /\ Len(all) = Len(got) + Len(page)
        /\ \A i \in 1..(Len(got) + Len(page)) :
             all[i] = IF i <= Len(got) THEN got[i] ELSE page[i - Len(got)]
    <3>1. got \in Seq(Ids) /\ page \in Seq(Ids)
      BY <1>1, <1>7
    <3> HIDE DEF got
    <3>2. /\ got \o page \in Seq(Ids) /\ Len(got \o page) = Len(got) + Len(page)
          /\ \A i \in 1..(Len(got) + Len(page)) :
               (got \o page)[i] = IF i <= Len(got) THEN got[i] ELSE page[i - Len(got)]
      BY <3>1, ConcatProperties
    <3>. QED  BY <1>34, <3>2
  <2> HIDE DEF got, m
  <2>3. \A i \in 1..Len(got) : all[i] = got[i]
    BY <1>7, <2>1, <2>2
  <2>4. ASSUME NEW i \in 1..m PROVE all[Len(got) + i] = o[i]
    <3>1. Len(got) + i \in 1..(Len(got) + Len(page)) /\ ~ (Len(got) + i <= Len(got))
      BY <1>7, <2>1
    <3>2. all[Len(got) + i] = page[(Len(got) + i) - Len(got)]
      BY <2>2, <3>1
    <3>3. (Len(got) + i) - Len(got) = i
      BY <2>1
    <3>. QED  BY <1>7, <3>2, <3>3
  <2>5. ASSUME NEW k \in 1..Len(all) PROVE k \in 1..Len(got) \/ k - Len(got) \in 1..m
    BY <1>7, <2>1, <2>2
  <2>. QED  BY <1>7, <2>1, <2>2, <2>3, <2>4, <2>5
<1>9. \A r \in Ids : Key(r) \in [at : Nat, id : Nat]
  BY <1>1, KeyFacts
<1>10. answer.next \in [at : Nat, id : Nat]
  <2>1. CASE Len(o) > limit
    <3>1. page[Len(page)] \in Ids
      BY <1>1, <1>5, <1>7, <2>1
    <3>. QED  BY <1>6, <1>9, <2>1, <3>1
  <2>2. CASE ~ (Len(o) > limit)
    BY <1>6, <2>2 DEF NoCursor
  <2>. QED  BY <2>1, <2>2
<1> DEFINE next == answer.next
           pc == IF Len(o) > limit THEN "cursor" ELSE "finished"
<1>11. reader' = [reader EXCEPT !.got = all, !.cursor = next, !.pc = pc]
  <2>1. pc = IF answer.more THEN "cursor" ELSE "finished"
    BY <1>6
  <2>. QED  BY <1>4, <1>6, <1>34, <2>1
<1>12. pc \in {"cursor", "finished"}
  OBVIOUS
<1> HIDE DEF next, pc
<1>13. /\ reader' \in ReaderRecord
       /\ reader'.list = reader.list /\ reader'.newest = nw /\ reader'.limit = limit /\ reader'.pc = pc
       /\ reader'.before = reader.before /\ reader'.got = all /\ reader'.cursor = next
       /\ reader'.offset = 0 /\ reader'.total = 0
  BY <1>1, <1>8, <1>10, <1>11, <1>12 DEF ReaderRecord, next
<1>14. CommittedRows' = CommittedRows
  BY <1>4 DEF CommittedRows
<1>15. ListingTypes'
  BY <1>4, <1>13, <1>14 DEF ListingInv, ListingTypes
<1>16. CursorLists \cap PageLists = {} /\ "none" \notin CursorLists \cup PageLists
  BY DEF CursorLists, PageLists
<1>17. DOMAIN all = 1..Len(all) /\ DOMAIN got = 1..Len(got)
  BY <1>1, <1>8
<1>18. \A k \in 1..Len(all) : all[k] \in CommittedRows
  <2>1. ASSUME NEW k \in 1..Len(all) PROVE all[k] \in CommittedRows
    <3>1. CASE k \in 1..Len(got)
      BY <1>1, <1>8, <3>1
    <3>2. CASE k - Len(got) \in 1..m
      <4>1. all[Len(got) + (k - Len(got))] = o[k - Len(got)]
        BY <1>8, <3>2
      <4>3. k - Len(got) \in 1..Len(o)
        BY <1>5, <3>2
      <4>2. Len(got) + (k - Len(got)) = k
        BY <1>8
      <4>. QED  BY <1>5, <4>1, <4>2, <4>3
    <3>. QED  BY <1>8, <3>1, <3>2
  <2>. QED  BY <2>1
<1>19. ReaderPlace'
  <2>1. reader' # NoReader
    BY <1>12, <1>13, NoReaderType DEF NoReaderFacts
  <2>2. reader.list \in CursorLists => (nw <=> reader.list \in NewestFirst)
    BY DEF ListingInv, ReaderPlace
  <2>. QED  BY <1>1, <1>12, <1>13, <1>14, <1>16, <1>17, <1>18, <2>1, <2>2 DEF ReaderPlace
\* The rows of the page come after all that were seen before, in order.
<1>20. /\ \A x \in Ids : <<x, x>> \notin Comes(nw)
       /\ \A x, y, z \in Ids : <<x, y>> \in Comes(nw) /\ <<y, z>> \in Comes(nw) => <<x, z>> \in Comes(nw)
  BY <1>1, RowOrder
<1>21. \A a, b \in Ids : InOrder(a, b) <=> <<a, b>> \in Comes(nw)
  BY InOrderFacts
<1>22. got # <<>> => /\ reader.cursor = Key(Last(got)) /\ Last(got) \in CommittedRows
                    /\ Last(got) = got[Len(got)] /\ Len(got) > 0
                    /\ \A r \in reader.before \ ToSet(got) : <<Last(got), r>> \in Comes(nw)
  <2> SUFFICES ASSUME got # <<>>
               PROVE  /\ reader.cursor = Key(Last(got)) /\ Last(got) \in CommittedRows
                      /\ Last(got) = got[Len(got)] /\ Len(got) > 0
                      /\ \A r \in reader.before \ ToSet(got) : <<Last(got), r>> \in Comes(nw)
    OBVIOUS
  <2>1. Last(got) = got[Len(got)] /\ Len(got) > 0
    BY <1>1 DEF Last
  <2>2. Last(got) \in CommittedRows
    <3>1. Len(got) \in 1..Len(got)
      BY <1>8, <2>1
    <3>2. \A i \in 1..Len(got) : got[i] \in CommittedRows
      BY <1>1
    <3> HIDE DEF got
    <3>3. got[Len(got)] \in CommittedRows
      BY <3>1, <3>2
    <3>. QED  BY <2>1, <3>3
  <2>3. /\ reader.cursor = Key(Last(got))
        /\ \A r \in reader.before \ ToSet(got) : InOrder(Last(got), r)
    BY <1>1 DEF ListingInv, ByCursor
  <2>4. ASSUME NEW r \in reader.before \ ToSet(got) PROVE <<Last(got), r>> \in Comes(nw)
    <3>1. r \in Ids /\ Last(got) \in Ids /\ InOrder(Last(got), r)
      BY <1>1, <2>2, <2>3
    <3>. QED  BY <1>21, <3>1
  <2>. QED  BY <2>1, <2>2, <2>3, <2>4
<1>23. got # <<>> => \A r \in Ids :
         r \in Beyond(nw, reader.cursor) <=> r \in CommittedRows /\ <<Last(got), r>> \in Comes(nw)
  <2> SUFFICES ASSUME got # <<>>, NEW r \in CommittedRows
               PROVE  r \in Beyond(nw, reader.cursor) <=> <<Last(got), r>> \in Comes(nw)
    BY DEF Beyond
  <2>1. reader.cursor # NoCursor /\ Last(got) \in Ids /\ r \in Ids
    BY <1>1, <1>22, KeyFacts
  <2>2. DecodeCursor(reader.cursor) = Key(Last(got))
    BY <1>9, <1>22, <2>1 DEF DecodeCursor, Key
  <2>. QED  BY <2>1, <2>2 DEF Beyond, Comes
<1>24. got = <<>> => Beyond(nw, reader.cursor) = CommittedRows
  BY <1>1 DEF ListingInv, ByCursor, Beyond
<1>25. \A i \in 1..Len(o) : o[i] \in Beyond(nw, reader.cursor)
  BY <1>3, <1>5 DEF ToSet
<1>26. ASSUME NEW i \in 1..Len(all), NEW j \in 1..Len(all), i < j
       PROVE  <<all[i], all[j]>> \in Comes(nw)
  <2>1. CASE i \in 1..Len(got) /\ j \in 1..Len(got)
    <3>1. InOrder(got[i], got[j])
      BY <1>1, <1>17, <1>26, <2>1 DEF ListingInv, ByCursor
    <3>2. got[i] \in Ids /\ got[j] \in Ids
      BY <1>1, <2>1
    <3>. QED  BY <1>8, <1>21, <2>1, <3>1, <3>2
  <2>2. CASE i \in 1..Len(got) /\ j - Len(got) \in 1..m
    <3> DEFINE b == o[j - Len(got)]
               l == Last(got)
    <3>1. j - Len(got) \in 1..Len(o) /\ Len(got) + (j - Len(got)) = j
      BY <1>5, <1>8, <2>2
    <3>2. all[j] = b /\ all[i] = got[i] /\ b \in Ids /\ got[i] \in Ids
      <4>1. all[Len(got) + (j - Len(got))] = o[j - Len(got)]
        BY <1>8, <2>2
      <4>. QED  BY <1>1, <1>5, <1>8, <2>2, <3>1, <4>1
    <3>3. got # <<>> /\ l \in Ids /\ l = got[Len(got)] /\ Len(got) \in 1..Len(got)
      BY <1>1, <1>8, <1>22, <2>2
    <3> HIDE DEF l, b
    <3>4. <<l, b>> \in Comes(nw)
      BY <1>23, <1>25, <3>1, <3>2, <3>3 DEF l, b
    <3>5. i = Len(got) \/ <<got[i], l>> \in Comes(nw)
      <4>1. i < Len(got) => InOrder(got[i], got[Len(got)])
        BY <1>1, <1>17, <2>2, <3>3 DEF ListingInv, ByCursor
      <4>. QED  BY <1>8, <1>21, <2>2, <3>2, <3>3, <4>1
    <3>. QED  BY <1>20, <3>2, <3>3, <3>4, <3>5
  <2>3. CASE i - Len(got) \in 1..m /\ j - Len(got) \in 1..m
    <3>1. /\ i - Len(got) \in 1..Len(o) /\ j - Len(got) \in 1..Len(o) /\ i - Len(got) < j - Len(got)
          /\ Len(got) + (i - Len(got)) = i /\ Len(got) + (j - Len(got)) = j
      BY <1>5, <1>8, <1>26, <2>3
    <3>2. /\ all[Len(got) + (i - Len(got))] = o[i - Len(got)]
          /\ all[Len(got) + (j - Len(got))] = o[j - Len(got)]
      BY <1>8, <2>3
    <3>. QED  BY <1>3, <3>1, <3>2 DEF Sorted
  <2>4. ~ (i - Len(got) \in 1..m /\ j \in 1..Len(got))
    BY <1>5, <1>8, <1>26
  <2>. QED  BY <1>8, <2>1, <2>2, <2>3, <2>4
<1>27. \A r \in Ids : r \in ToSet(all) <=> \E k \in 1..Len(all) : r = all[k]
  BY <1>17 DEF ToSet
\* A row that was there is in the page, or after it.
<1>28. ASSUME NEW r \in reader.before, r \notin ToSet(all)
       PROVE  Len(o) > limit /\ <<page[Len(page)], r>> \in Comes(nw)
  <2>1. r \in Ids /\ r \in CommittedRows
    BY <1>1
  <2>2. r \notin ToSet(got)
    <3>1. \A k \in 1..Len(got) : k \in 1..Len(all) /\ all[k] = got[k]
      BY <1>5, <1>8
    <3>. QED  BY <1>17, <1>27, <1>28, <2>1, <3>1 DEF ToSet
  <2>3. r \in Beyond(nw, reader.cursor)
    BY <1>22, <1>23, <1>24, <2>1, <2>2
  <2>4. PICK k \in 1..Len(o) : r = o[k]
    BY <1>3, <1>5, <2>3 DEF ToSet
  <2>5. k \notin 1..m
    <3>1. k \in 1..m => Len(got) + k \in 1..Len(all) /\ all[Len(got) + k] = o[k]
      BY <1>5, <1>8
    <3>. QED  BY <1>27, <1>28, <2>1, <2>4, <3>1
  <2>6. Len(o) > limit /\ m = limit /\ limit < k /\ limit \in 1..Len(o)
    BY <1>1, <1>5, <2>5
  <2>7. page[Len(page)] = o[limit]
    BY <1>7, <2>6
  <2>. QED  BY <1>3, <2>4, <2>6, <2>7 DEF Sorted
<1>29. Len(o) > limit => all # <<>> /\ Last(all) = page[Len(page)] /\ Last(all) \in CommittedRows
  <2> SUFFICES ASSUME Len(o) > limit
               PROVE  all # <<>> /\ Last(all) = page[Len(page)] /\ Last(all) \in CommittedRows
    OBVIOUS
  <2>1. m = limit /\ limit \in 1..m
    BY <1>1, <1>5
  <2>2. Len(all) = Len(got) + limit /\ all[Len(got) + limit] = o[limit] /\ page[Len(page)] = o[limit]
    BY <1>7, <1>8, <2>1
  <2>3. all # <<>>
    BY <1>1, <1>8, <2>2
  <2>4. o[limit] \in CommittedRows
    BY <1>5, <2>1
  <2>. QED  BY <2>2, <2>3, <2>4 DEF Last
<1>30. \A a, b \in Ids : InOrder(a, b)' <=> <<a, b>> \in Comes(nw)
  BY <1>4, <1>13 DEF InOrder, Comes, Key
<1>31. \A x : Key(x)' = Key(x)
  BY <1>4 DEF Key
<1>32. ByCursor'
  <2>1. \A i, j \in 1..Len(all) : i < j => InOrder(all[i], all[j])'
    BY <1>1, <1>18, <1>26, <1>30
  <2>2. CASE Len(o) > limit
    <3>1. pc = "cursor" /\ next = Key(Last(all)) /\ all # <<>>
      BY <1>6, <1>29, <2>2 DEF pc, next
    <3>2. \A r \in reader.before \ ToSet(all) : InOrder(Last(all), r)'
      BY <1>1, <1>28, <1>29, <1>30, <2>2
    <3>3. Key(Last(all))' = next
      BY <1>13, <1>31, <3>1
    <3>. QED  BY <1>13, <1>17, <2>1, <3>1, <3>2, <3>3 DEF ByCursor
  <2>3. CASE ~ (Len(o) > limit)
    <3>1. pc = "finished" /\ reader.before \subseteq ToSet(all)
      BY <1>28, <2>3 DEF pc
    <3>. QED  BY <1>13, <1>17, <2>1, <3>1 DEF ByCursor
  <2>. QED  BY <2>2, <2>3
<1>33. ByPage'
  BY <1>1, <1>13, <1>16 DEF ByPage
<1>. QED  BY <1>15, <1>19, <1>32, <1>33 DEF ListingInv

\* The total that comes before a page by number.
LEMMA CountStep ==
  ASSUME ListingInv, CountRows
  PROVE  ListingInv'
<1> DEFINE n == Cardinality(CommittedRows)
<1>1. /\ reader \in ReaderRecord /\ reader.pc = "count" /\ reader.list \in PageLists
      /\ ListingTypes /\ ReaderPlace /\ ByPage
  BY DEF CountRows, ListingInv, ListingTypes, ReaderPlace
<1>2. n \in Nat
  BY <1>1, FS_CardinalityType DEF ListingTypes
<1> HIDE DEF n
<1>3. /\ reader' = [reader EXCEPT !.total = n, !.pc = "counted"]
      /\ table' = table /\ clock' = clock /\ passed' = passed
  BY DEF CountRows, n
<1>4. /\ reader' \in ReaderRecord
      /\ reader'.list = reader.list /\ reader'.newest = reader.newest /\ reader'.limit = reader.limit
      /\ reader'.pc = "counted" /\ reader'.before = reader.before /\ reader'.got = reader.got
      /\ reader'.offset = reader.offset /\ reader'.total = n
  BY <1>1, <1>2, <1>3 DEF ReaderRecord
<1>5. CommittedRows' = CommittedRows /\ (Ties' <=> Ties)
  BY <1>3 DEF CommittedRows, Ties
<1>6. ListingTypes'
  BY <1>1, <1>3, <1>4, <1>5 DEF ListingTypes
<1>7. CursorLists \cap PageLists = {} /\ "none" \notin CursorLists \cup PageLists
  BY DEF CursorLists, PageLists
<1>8. ReaderPlace'
  <2>1. reader' # NoReader
    BY <1>4, NoReaderType DEF NoReaderFacts
  <2>. QED  BY <1>1, <1>4, <1>5, <1>7, <2>1 DEF ReaderPlace
<1>9. ByCursor'
  BY <1>1, <1>4, <1>7 DEF ByCursor
<1>10. \A newest, r : Ahead(newest, r)' = Ahead(newest, r)
  BY <1>3, <1>5 DEF Ahead, Misplaced
<1>11. ByPage'
  <2> SUFFICES ASSUME ~ Ties PROVE ByPage'
    BY <1>4, <1>5 DEF ByPage
  <2>1. \A r \in reader.before : Ahead(reader.newest, r)' = Ahead(reader.newest, r)
    BY <1>4, <1>10
  <2>2. \A i \in DOMAIN reader.got :
          Ahead(reader.newest, reader.got[i])' = Ahead(reader.newest, reader.got[i])
    BY <1>4, <1>10
  <2>. QED  BY <1>1, <1>4, <1>5, <2>1, <2>2 DEF ByPage, n
<1>. QED  BY <1>6, <1>8, <1>9, <1>11 DEF ListingInv

\* Without ties there is one order, and a row's place in it is the number of
\* rows ahead of it.
IsOffsetPage(page, o, newest, limit, offset) ==
  /\ o \in Seq(CommittedRows) /\ Len(o) = Cardinality(CommittedRows)
  /\ ToSet(o) = CommittedRows
  /\ page = SubSeq(o, offset + 1, IF Len(o) < offset + limit THEN Len(o) ELSE offset + limit)
  /\ ~ Ties => \A k \in 1..Len(o) : Cardinality(Ahead(newest, o[k])) = k - 1

\* What the query of a page by number answers.
LEMMA OffsetPageFacts ==
  ASSUME ListingTypes, NEW newest \in BOOLEAN, NEW limit \in Nat, NEW offset \in Nat,
         NEW page \in OffsetPages(newest, limit, offset)
  PROVE  \E o : IsOffsetPage(page, o, newest, limit, offset)
<1> DEFINE R == {p \in Ids \X Ids : Misplaced(newest, p[2], p[1])}
<1>1. PICK o \in SetToSeqs(CommittedRows) :
        /\ \A i, j \in DOMAIN o : i < j => ~ Misplaced(newest, o[i], o[j])
        /\ page = SubSeq(o, offset + 1, IF Len(o) < offset + limit THEN Len(o) ELSE offset + limit)
  BY DEF OffsetPages
<1>2. /\ o \in Seq(CommittedRows) /\ Len(o) = Cardinality(CommittedRows)
      /\ ToSet(o) = CommittedRows
  BY PermutationFacts DEF ListingTypes
<1>3. CommittedRows \subseteq Ids /\ \A x \in Ids : table[x].at \in Nat
  BY KeyFacts DEF CommittedRows
<1>4. \A x, y \in Ids : <<x, y>> \in R <=> Misplaced(newest, y, x)
  OBVIOUS
<1> HIDE DEF R
<1>5. ASSUME ~ Ties, NEW k \in 1..Len(o)
      PROVE  Cardinality(Ahead(newest, o[k])) = k - 1
  <2>1. \A x \in CommittedRows : <<x, x>> \notin R
    BY <1>3, <1>4 DEF Misplaced
  <2>2. \A x, y \in CommittedRows : x # y => <<x, y>> \in R \/ <<y, x>> \in R
    <3>1. ASSUME NEW x \in CommittedRows, NEW y \in CommittedRows, x # y
          PROVE  <<x, y>> \in R \/ <<y, x>> \in R
      <4>1. table[x].at # table[y].at /\ table[x].at \in Nat /\ table[y].at \in Nat
        BY <1>3, <1>5, <3>1 DEF Ties
      <4>. QED  BY <1>3, <1>4, <4>1 DEF Misplaced
    <3>. QED  BY <3>1
  <2>3. DOMAIN o = 1..Len(o) /\ \A i \in 1..Len(o) : o[i] \in Ids
    BY <1>2, <1>3
  <2>4. \A i, j \in DOMAIN o : i < j => <<o[j], o[i]>> \notin R
    BY <1>1, <1>4, <2>3
  <2>5. Cardinality(Preceding(CommittedRows, R, o[k])) = k - 1
    <3>1. IsFiniteSet(CommittedRows) /\ k \in DOMAIN o /\ o \in SetToSeqs(CommittedRows)
      BY <1>1, <2>3 DEF ListingTypes
    <3>. QED  BY <2>1, <2>2, <2>4, <3>1, PositionCounts
  <2>6. Preceding(CommittedRows, R, o[k]) = Ahead(newest, o[k])
    BY <1>3, <1>4, <2>3 DEF Ahead, Preceding
  <2>. QED  BY <2>5, <2>6
<1>. QED  BY <1>1, <1>2, <1>5 DEF IsOffsetPage

\* A page by number.  A row not seen yet has at least `offset` rows ahead of
\* it, so it is in this page or still has as many as the next one skips.
LEMMA OffsetStep ==
  ASSUME ListingInv, ReadOffsetPage
  PROVE  ListingInv'
<1> DEFINE got == reader.got
           limit == reader.limit
           nw == reader.newest
           offset == reader.offset
           n == Cardinality(CommittedRows)
<1>1. /\ reader \in ReaderRecord /\ reader.pc = "counted" /\ reader.list \in PageLists
      /\ limit \in Nat /\ limit > 0 /\ nw \in BOOLEAN /\ offset \in Nat /\ reader.total \in Nat
      /\ got \in Seq(Ids) /\ ListingTypes /\ ReaderPlace /\ CommittedRows \subseteq Ids
      /\ reader.before \subseteq CommittedRows
      /\ \A i \in 1..Len(got) : got[i] \in CommittedRows
  BY DEF ReadOffsetPage, ListingInv, ListingTypes, ReaderPlace, ReaderRecord, CommittedRows
<1>2. AskedPages(limit, offset) = OffsetPages(nw, limit, offset)
  <2>1. CASE reader.list = "projects"
    BY <2>1 DEF AskedPages, ProjectPages
  <2>2. CASE reader.list = "users"
    BY <2>2 DEF AskedPages, UserPages
  <2>3. CASE reader.list \in {"agents", "context_packages", "source_documents", "prompt_templates"}
    <3>1. nw = TRUE
      BY <1>1, <2>3 DEF ReaderPlace
    <3>. QED  BY <2>3, <3>1 DEF AskedPages, AgentPages, ContextPackagePages, SourceDocumentPages,
                               PromptTemplatePages
  <2>. QED  BY <1>1, <2>1, <2>2, <2>3 DEF PageLists
<1>3. PICK page \in OffsetPages(nw, limit, offset) :
        /\ reader' = [reader EXCEPT !.got = got \o page, !.offset = offset + limit,
                        !.pc = IF offset + limit < reader.total THEN "count" ELSE "finished"]
        /\ table' = table /\ clock' = clock /\ passed' = passed
  BY <1>2 DEF ReadOffsetPage
<1>25. PICK o : IsOffsetPage(page, o, nw, limit, offset)
  BY <1>1, OffsetPageFacts
<1>4. /\ o \in Seq(CommittedRows) /\ Len(o) = n /\ ToSet(o) = CommittedRows
      /\ page = SubSeq(o, offset + 1, IF Len(o) < offset + limit THEN Len(o) ELSE offset + limit)
      /\ ~ Ties => \A k \in 1..Len(o) : Cardinality(Ahead(nw, o[k])) = k - 1
  BY <1>25 DEF IsOffsetPage
<1> DEFINE end == IF Len(o) < offset + limit THEN Len(o) ELSE offset + limit
           m == IF offset < end THEN end - offset ELSE 0
<1>5. /\ n \in Nat /\ end \in Nat /\ m \in Nat /\ end <= n
      /\ \A i \in 1..m : offset + i \in 1..n
      /\ \A i \in 1..n : i > offset /\ i <= offset + limit => i - offset \in 1..m /\ offset + (i - offset) = i
  <2>1. n \in Nat /\ Len(o) = n
    BY <1>4
  <2> HIDE DEF n, limit, offset
  <2>2. end \in Nat /\ end <= n /\ \A i \in 1..n : i <= offset + limit => i <= end
    BY <1>1, <2>1
  <2> HIDE DEF end
  <2>3. m \in Nat /\ (m > 0 => m = end - offset) /\ (offset < end => m = end - offset)
    BY <1>1, <2>2
  <2> HIDE DEF m
  <2>4. \A i \in 1..m : offset + i \in 1..n
    BY <1>1, <2>1, <2>2, <2>3
  <2>5. ASSUME NEW i \in 1..n, i > offset, i <= offset + limit
        PROVE  i - offset \in 1..m /\ offset + (i - offset) = i
    <3>1. i <= end /\ i \in Nat /\ offset < end
      BY <1>1, <2>1, <2>2, <2>5
    <3>. QED  BY <1>1, <2>2, <2>3, <2>5, <3>1
  <2>. QED  BY <2>1, <2>2, <2>3, <2>4, <2>5
<1>6. page \in Seq(CommittedRows) /\ page \in Seq(Ids) /\ Len(page) = m
      /\ \A i \in 1..m : page[i] = o[offset + i]
  <2>1. offset + 1 \in Int /\ end \in Int
    BY <1>1, <1>5
  <2>2. \A i \in (offset + 1)..end : o[i] \in CommittedRows
    BY <1>1, <1>4, <1>5
  <2> HIDE DEF end
  <2>3. /\ page \in Seq(CommittedRows)
        /\ Len(page) = IF offset + 1 <= end THEN end - (offset + 1) + 1 ELSE 0
        /\ \A i \in 1..(end - (offset + 1) + 1) : page[i] = o[(offset + 1) + i - 1]
    <3>1. page = SubSeq(o, offset + 1, end)
      BY <1>4 DEF end
    <3>. QED  BY <2>1, <2>2, <3>1, SubSeqProperties
  <2>4. Len(page) = m
    BY <1>1, <1>5, <2>3
  <2>5. ASSUME NEW i \in 1..m PROVE page[i] = o[offset + i]
    <3>1. i \in 1..(end - (offset + 1) + 1) /\ (offset + 1) + i - 1 = offset + i
      BY <1>1, <1>5
    <3>. QED  BY <2>3, <3>1
  <2>. QED  BY <1>1, <2>3, <2>4, <2>5
<1> HIDE DEF end, m, n
<1>7. PICK all : all = got \o page
  OBVIOUS
<1>8. /\ all \in Seq(Ids) /\ Len(all) = Len(got) + m /\ Len(got) \in Nat
      /\ \A i \in 1..Len(got) : all[i] = got[i]
      /\ \A i \in 1..m : all[Len(got) + i] = o[offset + i]
      /\ \A k \in 1..Len(all) : k \in 1..Len(got) \/ k - Len(got) \in 1..m
  <2>1. Len(got) \in Nat /\ m \in Nat
    BY <1>1, <1>5
  <2>2. /\ all \in Seq(Ids) /\ Len(all) = Len(got) + Len(page)
        /\ \A i \in 1..(Len(got) + Len(page)) :
             all[i] = IF i <= Len(got) THEN got[i] ELSE page[i - Len(got)]
    <3>1. got \in Seq(Ids) /\ page \in Seq(Ids)
      BY <1>1, <1>6
    <3> HIDE DEF got
    <3>2. /\ got \o page \in Seq(Ids) /\ Len(got \o page) = Len(got) + Len(page)
          /\ \A i \in 1..(Len(got) + Len(page)) :
               (got \o page)[i] = IF i <= Len(got) THEN got[i] ELSE page[i - Len(got)]
      BY <3>1, ConcatProperties
    <3>. QED  BY <1>7, <3>2
  <2> HIDE DEF got
  <2>3. \A i \in 1..Len(got) : all[i] = got[i]
    BY <1>6, <2>1, <2>2
  <2>4. ASSUME NEW i \in 1..m PROVE all[Len(got) + i] = o[offset + i]
    <3>1. Len(got) + i \in 1..(Len(got) + Len(page)) /\ ~ (Len(got) + i <= Len(got))
      BY <1>6, <2>1
    <3>2. all[Len(got) + i] = page[(Len(got) + i) - Len(got)]
      BY <2>2, <3>1
    <3>3. (Len(got) + i) - Len(got) = i
      BY <2>1
    <3>. QED  BY <1>6, <3>2, <3>3
  <2>5. ASSUME NEW k \in 1..Len(all) PROVE k \in 1..Len(got) \/ k - Len(got) \in 1..m
    BY <1>6, <2>1, <2>2
  <2>. QED  BY <1>6, <2>1, <2>2, <2>3, <2>4, <2>5
<1> DEFINE pc == IF offset + limit < reader.total THEN "count" ELSE "finished"
<1>9. pc \in {"count", "finished"}
  OBVIOUS
<1>10. reader' = [reader EXCEPT !.got = all, !.offset = offset + limit, !.pc = pc]
  BY <1>3, <1>7
<1>11. offset + limit \in Nat /\ offset + limit > 0
  BY <1>1
<1> HIDE DEF pc
<1>12. /\ reader' \in ReaderRecord
       /\ reader'.list = reader.list /\ reader'.newest = nw /\ reader'.limit = limit /\ reader'.pc = pc
       /\ reader'.before = reader.before /\ reader'.got = all
       /\ reader'.offset = offset + limit /\ reader'.total = reader.total
  BY <1>1, <1>8, <1>9, <1>10, <1>11 DEF ReaderRecord
<1>13. CommittedRows' = CommittedRows /\ (Ties' <=> Ties)
  BY <1>3 DEF CommittedRows, Ties
<1>14. ListingTypes'
  BY <1>1, <1>3, <1>12, <1>13 DEF ListingTypes
<1>15. CursorLists \cap PageLists = {} /\ "none" \notin CursorLists \cup PageLists
  BY DEF CursorLists, PageLists
<1>16. DOMAIN all = 1..Len(all) /\ DOMAIN got = 1..Len(got)
  BY <1>1, <1>8
<1>17. \A i \in 1..m : o[offset + i] \in CommittedRows
  BY <1>4, <1>5
<1>18. \A k \in 1..Len(all) : all[k] \in CommittedRows
  <2>1. ASSUME NEW k \in 1..Len(all) PROVE all[k] \in CommittedRows
    <3>1. CASE k \in 1..Len(got)
      BY <1>1, <1>8, <3>1
    <3>2. CASE k - Len(got) \in 1..m
      <4>1. all[Len(got) + (k - Len(got))] = o[offset + (k - Len(got))]
        BY <1>8, <3>2
      <4>2. Len(got) + (k - Len(got)) = k
        BY <1>8
      <4>. QED  BY <1>17, <3>2, <4>1, <4>2
    <3>. QED  BY <1>8, <3>1, <3>2
  <2>. QED  BY <2>1
<1>19. ReaderPlace'
  <2>1. reader' # NoReader
    BY <1>9, <1>12, NoReaderType DEF NoReaderFacts
  <2>. QED  BY <1>1, <1>9, <1>11, <1>12, <1>13, <1>15, <1>16, <1>18, <2>1 DEF ReaderPlace
<1>20. ByCursor'
  BY <1>1, <1>12, <1>15 DEF ByCursor
<1>21. \A newest, r : Ahead(newest, r)' = Ahead(newest, r)
  BY <1>3, <1>13 DEF Ahead, Misplaced
<1>22. \A r \in Ids : r \in ToSet(all) <=> \E k \in 1..Len(all) : r = all[k]
  BY <1>16 DEF ToSet
<1>23. ASSUME ~ Ties PROVE ByPage'
  <2>1. /\ \A r \in reader.before \ ToSet(got) : Cardinality(Ahead(nw, r)) >= offset
        /\ ~ passed => reader.total = n
        /\ reader.before = CommittedRows =>
             /\ Len(got) <= offset
             /\ offset <= n => Len(got) = offset
             /\ \A i \in DOMAIN got : Cardinality(Ahead(nw, got[i])) = i - 1
    BY <1>1, <1>23 DEF ListingInv, ByPage, n
  <2>2. \A k \in 1..n : Cardinality(Ahead(nw, o[k])) = k - 1
    BY <1>4, <1>23
  <2>3. ASSUME NEW r \in reader.before, r \notin ToSet(all)
        PROVE  Cardinality(Ahead(nw, r)) >= offset + limit /\ offset + limit < n
    <3>1. r \in Ids /\ r \in CommittedRows
      BY <1>1
    <3>2. r \notin ToSet(got)
      <4>1. \A k \in 1..Len(got) : k \in 1..Len(all) /\ all[k] = got[k]
        BY <1>5, <1>8
      <4>. QED  BY <1>16, <1>22, <2>3, <3>1, <4>1 DEF ToSet
    <3>3. PICK k \in 1..n : r = o[k]
      BY <1>4, <3>1 DEF ToSet
    <3>4. Cardinality(Ahead(nw, r)) = k - 1 /\ k - 1 >= offset
      BY <2>1, <2>2, <3>2, <3>3
    <3>5. ~ (k <= offset + limit)
      <4> SUFFICES ASSUME k <= offset + limit PROVE FALSE
        OBVIOUS
      <4>1. k > offset
        BY <1>1, <1>5, <3>4
      <4>2. PICK i \in 1..m : offset + i = k
        BY <1>5, <4>1
      <4>3. all[Len(got) + i] = r
        BY <1>8, <3>3, <4>2
      <4>4. Len(got) + i \in 1..Len(all)
        BY <1>5, <1>8, <4>2
      <4>5. r \in ToSet(all)
        BY <1>22, <3>1, <4>3, <4>4
      <4>. QED  BY <2>3, <4>5
    <3>. QED  BY <1>1, <1>5, <3>4, <3>5
  <2>4. pc = "finished" /\ ~ passed => reader.before \subseteq ToSet(all)
    <3> SUFFICES ASSUME pc = "finished", ~ passed, NEW r \in reader.before, r \notin ToSet(all)
                 PROVE  FALSE
      OBVIOUS
    <3>1. offset + limit < n
      BY <2>3
    <3>2. reader.total = n
      BY <2>1
    <3>3. ~ (offset + limit < reader.total)
      BY DEF pc
    <3>. QED  BY <3>1, <3>2, <3>3
  <2>5. ASSUME reader.before = CommittedRows
        PROVE  /\ Len(all) <= offset + limit
               /\ offset + limit <= n => Len(all) = offset + limit
               /\ \A i \in 1..Len(all) : Cardinality(Ahead(nw, all[i])) = i - 1
    <3>1. Len(got) <= offset /\ (offset <= n => Len(got) = offset)
      BY <2>1, <2>5
    <3>2. m <= limit /\ (m > 0 => offset <= n) /\ (offset + limit <= n => m = limit)
      BY <1>1, <1>4, <1>5 DEF m, end
    <3>3. ASSUME NEW i \in 1..Len(all) PROVE Cardinality(Ahead(nw, all[i])) = i - 1
      <4>1. CASE i \in 1..Len(got)
        BY <1>8, <1>16, <2>1, <2>5, <4>1
      <4>2. CASE i - Len(got) \in 1..m
        <5>1. Len(got) = offset
          BY <1>5, <3>1, <3>2, <4>2
        <5>2. all[Len(got) + (i - Len(got))] = o[offset + (i - Len(got))]
          BY <1>8, <4>2
        <5>3. Len(got) + (i - Len(got)) = i /\ offset + (i - Len(got)) = i
          BY <1>8, <5>1
        <5>4. i \in 1..n
          BY <1>5, <4>2, <5>3
        <5>. QED  BY <2>2, <5>2, <5>3, <5>4
      <4>. QED  BY <1>8, <4>1, <4>2
    <3>4. Len(all) <= offset + limit
      BY <1>1, <1>5, <1>8, <3>1, <3>2
    <3>5. offset + limit <= n => Len(all) = offset + limit
      BY <1>1, <1>5, <1>8, <3>1, <3>2
    <3>. QED  BY <3>3, <3>4, <3>5
  <2>6. \A r \in reader.before \ ToSet(all) : Ahead(reader.newest, r)' = Ahead(nw, r)
    BY <1>12, <1>21
  <2>7. \A i \in DOMAIN all : Ahead(reader.newest, all[i])' = Ahead(nw, all[i])
    BY <1>12, <1>21
  <2>8. \A r \in reader.before \ ToSet(all) : Cardinality(Ahead(nw, r)) >= offset + limit
    BY <2>3
  <2>9. \A r \in reader.before \ ToSet(all) : Cardinality(Ahead(reader.newest, r)') >= offset + limit
    BY <2>6, <2>8
  <2>10. reader.before = CommittedRows =>
           \A i \in DOMAIN all : Cardinality(Ahead(reader.newest, all[i])') = i - 1
    BY <1>16, <2>5, <2>7
  <2>. QED  BY <1>3, <1>9, <1>12, <1>13, <2>4, <2>5, <2>9, <2>10 DEF ByPage, n
<1>24. ByPage'
  <2>1. CASE Ties
    BY <1>13, <2>1 DEF ByPage
  <2>. QED  BY <1>23, <2>1
<1>. QED  BY <1>14, <1>19, <1>20, <1>24 DEF ListingInv

------------------------------------------------------------------------------
\* The invariant holds at first ...
LEMMA ListingInitial == ListingsInit => ListingInv
<1> SUFFICES ASSUME ListingsInit PROVE ListingInv
  OBVIOUS
<1>1. /\ table = [r \in Ids |-> NoRow] /\ clock = 1 /\ reader = NoReader /\ passed = FALSE
      /\ NoReaderFacts /\ 1 \in 1..MaxClock /\ 0 \in 0..MaxClock
  BY ListingsAssumption, NoReaderType DEF ListingsInit
<1>2. \A r \in Ids : table[r] = NoRow /\ table[r].state = "none" /\ NoRow.at = 0
  BY <1>1 DEF NoRow
<1>3. CommittedRows = {} /\ IsFiniteSet({})
  BY <1>2, FS_EmptySet DEF CommittedRows
<1>4. ListingTypes
  <2>1. NoRow \in [state : {"none", "flushed", "committed"}, at : 0..MaxClock]
    BY <1>1 DEF NoRow
  <2>. QED  BY <1>1, <1>2, <1>3, <2>1 DEF ListingTypes, NoReaderFacts
<1>5. "none" \notin CursorLists \cup PageLists
  BY DEF CursorLists, PageLists
<1>6. /\ reader.list = "none" /\ reader.pc = "idle" /\ reader.before = {} /\ DOMAIN reader.got = {}
  BY <1>1 DEF NoReader
<1>. QED  BY <1>1, <1>3, <1>4, <1>5, <1>6 DEF ListingInv, ReaderPlace, ByCursor, ByPage

\* ... and after every step: one case for each action of ListingsNext.
LEMMA ListingStep == ListingInv /\ [ListingsNext]_listingVars => ListingInv'
<1> SUFFICES ASSUME ListingInv, [ListingsNext]_listingVars PROVE ListingInv'
  OBVIOUS
<1>1. CASE Tick
  BY <1>1, TickStep, SettlesStep DEF ListingInv
<1>2. ASSUME NEW r \in Ids, AddRow(r) \/ CommitRow(r) \/ RollBackRow(r) PROVE ListingInv'
  <2>1. ListingTypes' /\ Settles
    BY <1>2, RowStep DEF ListingInv
  <2>. QED  BY <2>1, SettlesStep DEF ListingInv
<1>3. CASE ListAuditEvents
  BY <1>3, OpensStep DEF ListAuditEvents, CursorLists, NewestFirst
<1>4. CASE ListExecutionHistory
  BY <1>4, OpensStep DEF ListExecutionHistory, CursorLists, NewestFirst
<1>5. CASE ListTasks
  BY <1>5, OpensStep DEF ListTasks, CursorLists, NewestFirst
<1>6. CASE ListRuns
  BY <1>6, OpensStep DEF ListRuns, CursorLists, NewestFirst
<1>7. CASE ListMetrics
  BY <1>7, OpensStep DEF ListMetrics, CursorLists, NewestFirst
<1>8. CASE ListProjects
  <2>1. PICK newest \in BOOLEAN : Opens("projects", newest, "count")
    BY <1>8 DEF ListProjects
  <2>. QED  BY <2>1, OpensStep DEF PageLists
<1>9. CASE ListUsers
  <2>1. PICK newest \in BOOLEAN : Opens("users", newest, "count")
    BY <1>9 DEF ListUsers
  <2>. QED  BY <2>1, OpensStep DEF PageLists
<1>10. CASE ListAgents
  BY <1>10, OpensStep DEF ListAgents, PageLists
<1>11. CASE ListContextPackages
  BY <1>11, OpensStep DEF ListContextPackages, PageLists
<1>12. CASE ListSourceDocuments
  BY <1>12, OpensStep DEF ListSourceDocuments, PageLists
<1>13. CASE ListTemplates
  BY <1>13, OpensStep DEF ListTemplates, PageLists
<1>14. CASE ListAllTasksForFeature
  BY <1>14, OpensStep DEF ListAllTasksForFeature, CursorLists, NewestFirst
<1>15. CASE ReadCursorPage
  BY <1>15, CursorStep
<1>16. CASE CountRows
  BY <1>16, CountStep
<1>17. CASE ReadOffsetPage
  BY <1>17, OffsetStep
<1>18. CASE UNCHANGED listingVars
  <2>1. table' = table /\ clock' = clock /\ reader' = reader /\ passed' = passed
    BY <1>18 DEF listingVars
  <2>2. CommittedRows' = CommittedRows
    BY <2>1 DEF CommittedRows
  <2>3. ListingTypes' /\ Settles
    BY <2>1, <2>2 DEF ListingInv, ListingTypes, Settles
  <2>. QED  BY <2>3, SettlesStep DEF ListingInv
<1>. QED  BY <1>1, <1>2, <1>3, <1>4, <1>5, <1>6, <1>7, <1>8, <1>9, <1>10, <1>11, <1>12, <1>13, <1>14,
              <1>15, <1>16, <1>17, <1>18 DEF ListingsNext

\* The invariant holds in every reachable state of the lists and of their reader.
LEMMA ListingsKeep == ListingsSpec => []ListingInv
<1>. QED  BY ListingInitial, ListingStep, PTL DEF ListingsSpec

\* Every reachable state of the lists and of their reader has its type.
THEOREM ListingsTypeCorrect == ListingsSpec => []ListingsTypeOK
<1>1. ListingInv => ListingsTypeOK
  <2> SUFFICES ASSUME ListingInv PROVE ListingsTypeOK
    OBVIOUS
  <2>1. reader \in ReaderRecord /\ passed \in BOOLEAN
    BY DEF ListingInv, ListingTypes
  <2>2. /\ reader.pc \in {"idle", "cursor", "count", "counted", "finished"}
        /\ reader.got \in Seq(Ids) /\ reader.before \subseteq Ids
    BY <2>1 DEF ReaderRecord
  <2>3. \A r \in Ids : table[r].state \in {"none", "flushed", "committed"} /\ table[r].at \in 0..MaxClock
    BY DEF ListingInv, ListingTypes
  <2>. QED  BY <2>1, <2>2, <2>3 DEF ListingsTypeOK
<1>. QED  BY <1>1, ListingsKeep, PTL

\* Without ties, the rows of an exact list are in order: the one further on
\* has more rows ahead of it.
LEMMA PageOrder ==
  ASSUME ListingInv, reader.list \in PageLists, ~ Ties, reader.before = CommittedRows,
         NEW i \in DOMAIN reader.got, NEW j \in DOMAIN reader.got, i < j
  PROVE  InOrder(reader.got[i], reader.got[j])
<1>1. PICK a, b, nw : a = reader.got[i] /\ b = reader.got[j] /\ nw = reader.newest
  OBVIOUS
<1>2. /\ a \in CommittedRows /\ b \in CommittedRows /\ CommittedRows \subseteq Ids
      /\ IsFiniteSet(CommittedRows) /\ reader.got \in Seq(Ids)
  BY <1>1 DEF ListingInv, ListingTypes, ReaderPlace, ReaderRecord, CommittedRows
<1>3. Cardinality(Ahead(nw, a)) = i - 1 /\ Cardinality(Ahead(nw, b)) = j - 1
  BY <1>1 DEF ListingInv, ByPage
<1>4. i \in Int /\ j \in Int
  BY <1>2
<1>5. a # b
  BY <1>3, <1>4
<1>6. table[a].at # table[b].at /\ table[a].at \in Nat /\ table[b].at \in Nat
  BY <1>2, <1>5, KeyFacts DEF Ties, ListingInv
<1>7. ~ Misplaced(nw, a, b)
  <2> SUFFICES ASSUME Misplaced(nw, a, b) PROVE FALSE
    OBVIOUS
  <2>1. \A x \in CommittedRows : table[x].at \in Nat
    BY <1>2, KeyFacts DEF ListingInv
  <2>2. Ahead(nw, b) \subseteq Ahead(nw, a)
    BY <1>6, <2>1 DEF Ahead, Misplaced
  <2>3. IsFiniteSet(Ahead(nw, a))
    <3>1. Ahead(nw, a) \subseteq CommittedRows
      BY DEF Ahead
    <3>. QED  BY <1>2, <3>1, FS_Subset
  <2>4. Cardinality(Ahead(nw, b)) <= Cardinality(Ahead(nw, a))
    BY <2>2, <2>3, FS_Subset
  <2>. QED  BY <1>3, <1>4, <2>4
<1>8. /\ Key(a).at = table[a].at /\ Key(b).at = table[b].at
  BY DEF Key
<1>. QED  BY <1>1, <1>6, <1>7, <1>8 DEF InOrder, Misplaced, Newer, Older

\* list_audit_events, list_tasks, list_runs and the other lists.  A client
\* that reads one to its end has every row that was there when it began: by
\* cursor whatever commits on the way, once each and in order; by page number
\* as long as no two rows share a created_at and none commits between a count
\* and its page.  For any rows, any limits and any number of pages.
THEOREM PagesAreComplete == ListingsSpec => []PagesTellAll
<1>1. ListingInv => PagesTellAll
  <2> SUFFICES ASSUME ListingInv, reader.pc = "finished"
               PROVE  LET byCursor == reader.total = 0 /\ reader.offset = 0 IN
                      /\ byCursor \/ (~ Ties /\ ~ passed) => reader.before \subseteq ToSet(reader.got)
                      /\ byCursor \/ (~ Ties /\ reader.before = CommittedRows) =>
                           \A i, j \in DOMAIN reader.got : i < j => InOrder(reader.got[i], reader.got[j])
    BY DEF PagesTellAll
  <2>1. CASE reader.list \in CursorLists
    BY <2>1 DEF ListingInv, ByCursor
  <2>2. CASE reader.list \in PageLists
    <3>1. ~ (reader.total = 0 /\ reader.offset = 0)
      BY <2>2 DEF ListingInv, ReaderPlace
    <3>2. ~ Ties /\ ~ passed => reader.before \subseteq ToSet(reader.got)
      BY <2>2 DEF ListingInv, ByPage
    <3>3. ~ Ties /\ reader.before = CommittedRows =>
            \A i, j \in DOMAIN reader.got : i < j => InOrder(reader.got[i], reader.got[j])
      BY <2>2, PageOrder
    <3>. QED  BY <3>1, <3>2, <3>3
  <2>. QED  BY <2>1, <2>2 DEF ListingInv, ReaderPlace
<1>. QED  BY <1>1, ListingsKeep, PTL

==============================================================================
