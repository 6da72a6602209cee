--------------------------- MODULE EvaluationGate ----------------------------
(***************************************************************************)
(* The Evaluation Framework: evaluators run on an agent run that has       *)
(* succeeded, in two waves, their reports are stored, and the quality gate *)
(* of a task is computed from what is stored for its latest run.           *)
(*                                                                         *)
(* The runs of the task go on meanwhile; they are RunSessions' runs, whole *)
(* requests at a time, of a task that users leave alone while it runs.     *)
(***************************************************************************)
EXTENDS TaskStates, Naturals, Sequences

CONSTANTS
  Triggers,     \* POST .../evaluations requests to come, numbered as they arrive
  Asked,        \* what each may ask for: sets of evaluator types, none twice
  Registered,   \* those with a factory in the EvaluatorRegistry
  MaxRuns       \* bound: runs of the task

Deterministic == {"unit_test", "integration_test", "static_analysis", "coverage",
                  "performance", "architecture_rules", "security_scan"}
LLMAssisted == {"deepeval", "promptfoo", "llm_judge", "braintrust", "langfuse"}
EvaluatorType == Deterministic \cup LLMAssisted

ASSUME TypesAreKnown ==
  /\ Registered \subseteq EvaluatorType
  /\ \A g \in Triggers : Asked[g] \subseteq (SUBSET EvaluatorType) \ {{}}
ASSUME RunsAreBounded == MaxRuns \in Nat

VARIABLES
  work,         \* status of the task
  runs,         \* its agent runs, in order of creation: status
  evals,        \* committed evaluations, each with its results
  trig,         \* the trigger requests: place in the code, what was flushed
  producer,     \* auxiliary: the run whose result awaits approval, or 0
  backdated     \* auxiliary: a run that is not the latest was retried last

gateVars == <<work, runs, evals, trig, producer, backdated>>

------------------------------------------------------------------------------
(***************************************************************************)
(* Evaluators.  A report is told by its status, by whether every score     *)
(* passed (clean), and by whether every number fits its column (fits).     *)
(***************************************************************************)

EvaluationStatus == {"pending", "running", "passed", "failed", "error"}

\* A hook that raises, in any phase, makes an error report without scores;
\* an output that is pending makes a running one: nothing resumes it.
ErrorReport == [status |-> "error", clean |-> TRUE, fits |-> TRUE]
PendingReport == [status |-> "running", clean |-> TRUE, fits |-> TRUE]

\* NUMERIC(6, 4): four places, so two digits before the point.
ColumnLimit == 100

Score(value, threshold, passed) ==
  [fits |-> value < ColumnLimit /\ threshold < ColumnLimit, passed |-> passed]

AllScoresMustPass(scores) ==
  LET clean == \A s \in scores : s.passed IN
  [status |-> IF clean THEN "passed" ELSE "failed", clean |-> clean,
   fits |-> \A s \in scores : s.fits]

\* Cost and duration, each against its limit if it has one: a metric without
\* a limit, or without a number, gives no score and so cannot fail.
PerformanceReports ==
  LET Metric(values, limits) == {Score(v, l, v <= l) : v \in values, l \in limits}
      Numbers == {{}, {1}, {150}}
  IN {AllScoresMustPass(Metric(cost, maxCost) \cup Metric(duration, maxDuration)) :
        cost, duration, maxCost, maxDuration \in Numbers}

EchoJudgeReports ==
  LET Verdicts(met) == {Score(confidence, 0, met) : confidence \in {0, 1}}
  IN {AllScoresMustPass({verdict}) : verdict \in Verdicts(TRUE) \cup Verdicts(FALSE)}

\* Counts of a JUnit report; a timeout or a missing report raises.  A rate is
\* in hundredths, and 0 when nothing was collected.
UnitTestReports ==
  LET Rate(total, failed) == IF total = 0 THEN 0 ELSE (100 * (total - failed)) \div total
  IN {ErrorReport} \cup
     {AllScoresMustPass({Score(1, 1, Rate(n[1], n[2]) >= min), Score(n[2], 0, n[2] = 0)}) :
        n \in {<<0, 0>>, <<2, 0>>, <<2, 1>>, <<120, 120>>}, min \in {0, 100}}

\* What BaseEvaluator.run of a plugin may return; Braintrust and Langfuse
\* stand for the ones that are external, with scores of their own making.
Reports(type) ==
  {ErrorReport} \cup
  CASE type = "performance" -> PerformanceReports
    [] type = "llm_judge"   -> EchoJudgeReports
    [] type = "unit_test"   -> UnitTestReports
    [] OTHER -> {PendingReport} \cup
                [status : {"passed", "failed"}, clean : BOOLEAN, fits : BOOLEAN]

------------------------------------------------------------------------------
(***************************************************************************)
(* The quality gate                                                        *)
(***************************************************************************)

\* A faulty variant, as in TaskStates.
FirstRun == IF runs = <<>> THEN 0 ELSE 1

LatestRun == Len(runs)

Evaluations(r) == {e \in evals : e.run = r}

\* Pending beats failed beats passed.
Verdict(found) ==
  IF found = {} \/ \E e \in found : e.status \in {"pending", "running"} THEN "pending"
  ELSE IF \E e \in found : e.status \in {"failed", "error"} \/ ~ e.clean THEN "failed"
  ELSE "passed"

QualityGate == Verdict(Evaluations(LatestRun))

------------------------------------------------------------------------------

InFlight == {"deterministic", "llm_assisted", "commit"}

Idle(place) == [pc |-> place, run |-> 0, types |-> {}, failFast |-> FALSE, rows |-> {}]

GateInit ==
  /\ work = "ready"
  /\ runs = <<>>
  /\ evals = {}
  /\ trig = [g \in Triggers |-> Idle("new")]
  /\ producer = 0
  /\ backdated = FALSE

\* Trigger: the run has to be there and to have succeeded, the types to be
\* registered; otherwise the request is refused with 404 or 422.
Trigger(g, r, types, failFast) ==
  /\ trig' = [trig EXCEPT ![g] =
       IF runs[r] = "succeeded" /\ types \subseteq Registered
       THEN [pc |-> "deterministic", run |-> r, types |-> types,
             failFast |-> failFast, rows |-> {}]
       ELSE Idle("failed")]
  /\ UNCHANGED <<work, runs, evals, producer, backdated>>

Arrived(g) == trig[g].pc = "new" /\ \A h \in Triggers : h < g => trig[h].pc # "new"

\* The endpoint never fails fast; a caller within the process may.
PostEvaluations(g) ==
  /\ Arrived(g)
  /\ \E r \in DOMAIN runs, types \in Asked[g] : Trigger(g, r, types, FALSE)
TriggerFailingFast(g) ==
  /\ Arrived(g)
  /\ \E r \in DOMAIN runs, types \in Asked[g] : Trigger(g, r, types, TRUE)

SomeFailed(rows) == \E e \in rows : e.status = "failed"

\* A wave: all its evaluators run, then their reports are flushed.  A number
\* that does not fit its column fails the request.
RunWave(g, wave) ==
  LET types == trig[g].types \cap wave
      Follows(rows) ==
        IF wave = LLMAssisted \/ (trig[g].failFast /\ SomeFailed(rows)) THEN "commit" ELSE "llm_assisted"
  IN
  /\ \E report \in [types -> UNION {Reports(t) : t \in types}] :
       /\ \A t \in types : report[t] \in Reports(t)
       /\ LET rows == trig[g].rows \cup
                {[trigger |-> g, run |-> trig[g].run, type |-> t,
                  status |-> report[t].status, clean |-> report[t].clean] : t \in types}
          IN trig' = [trig EXCEPT ![g] =
               IF \A t \in types : report[t].fits
               THEN [@ EXCEPT !.rows = rows, !.pc = Follows(rows)]
               ELSE Idle("failed")]
  /\ UNCHANGED <<work, runs, evals, producer, backdated>>

RunDeterministic(g) == trig[g].pc = "deterministic" /\ RunWave(g, Deterministic)
RunLLMAssisted(g) == trig[g].pc = "llm_assisted" /\ RunWave(g, LLMAssisted)

CommitTrigger(g) ==
  /\ trig[g].pc = "commit"
  /\ evals' = evals \cup trig[g].rows
  /\ trig' = [trig EXCEPT ![g] = Idle("done")]
  /\ UNCHANGED <<work, runs, producer, backdated>>

\* A faulty variant, as in TaskStates.
TriggerFailsAfterFlush(g) ==
  /\ trig[g].pc \in InFlight
  /\ evals' = evals \cup trig[g].rows
  /\ trig' = [trig EXCEPT ![g] = Idle("failed")]
  /\ UNCHANGED <<work, runs, producer, backdated>>

\* The connection, the process or a publisher fails: all is rolled back.
TriggerFails(g) ==
  /\ trig[g].pc \in InFlight
  /\ trig' = [trig EXCEPT ![g] = Idle("failed")]
  /\ UNCHANGED <<work, runs, evals, producer, backdated>>

------------------------------------------------------------------------------

StartRun ==
  /\ Len(runs) < MaxRuns
  /\ IsLegalTaskTransition(work, "running")
  /\ work' = "running"
  /\ runs' = Append(runs, "running")
  /\ backdated' = FALSE
  /\ UNCHANGED <<evals, trig, producer>>

\* A faulty variant, as in TaskStates.
RetryFinishedRun(r) ==
  /\ runs[r] \in {"failed", "succeeded"}
  /\ IsLegalTaskTransition(work, "ready")
  /\ work' = "running"
  /\ runs' = [runs EXCEPT ![r] = "running"]
  /\ backdated' = (r # Len(runs))
  /\ UNCHANGED <<evals, trig, producer>>

RetryRun(r) ==
  /\ runs[r] = "failed"
  /\ IsLegalTaskTransition(work, "ready")
  /\ work' = "running"
  /\ runs' = [runs EXCEPT ![r] = "running"]
  /\ backdated' = (r # Len(runs))
  /\ UNCHANGED <<evals, trig, producer>>

\* What the status an agent reports, and its evaluation of itself, make of
\* the run, and what the task ends up as.
Outcome(reported, passed) ==
  CASE reported = "completed" -> <<"succeeded", IF passed THEN "awaiting_approval" ELSE "failed">>
    [] reported = "failed"    -> <<"failed", "failed">>
    [] reported = "cancelled" -> <<"cancelled", "cancelled">>

\* The agent of the catalogue, at any configuration: it polls its token, may
\* be set to fail, and finds itself good.
EchoOutcomes == {Outcome(reported, TRUE) : reported \in {"completed", "failed", "cancelled"}}

\* The agent that asks a model: the provider may raise, and what comes back
\* may be too short.  A draft that was cut off still passes.
DocumentationOutcomes ==
  LET Evaluate(length, min) == length > 0 /\ length >= min IN
  {Outcome("completed", Evaluate(length, 2)) : length \in 0..3}
  \cup {Outcome("failed", FALSE), Outcome("cancelled", FALSE)}

\* The run settles: its status, and the status its task ends up with.
Settle(r) ==
  /\ runs[r] = "running"
  /\ \E outcome \in EchoOutcomes \cup DocumentationOutcomes :
       /\ runs' = [runs EXCEPT ![r] = outcome[1]]
       /\ work' = outcome[2]
       /\ producer' = IF outcome[2] = "awaiting_approval" THEN r ELSE producer
  /\ UNCHANGED <<evals, trig, backdated>>

\* Approve, reject, merge and POST .../status.
MoveWork(to) ==
  /\ "running" \notin {work, to}
  /\ IsLegalTaskTransition(work, to)
  /\ work' = to
  /\ UNCHANGED <<runs, evals, trig, producer, backdated>>

GateNext ==
  \/ \E g \in Triggers :
       \/ PostEvaluations(g) \/ TriggerFailingFast(g)
       \/ RunDeterministic(g) \/ RunLLMAssisted(g) \/ CommitTrigger(g) \/ TriggerFails(g)
  \/ StartRun
  \/ \E r \in DOMAIN runs : RetryRun(r) \/ Settle(r)
  \/ \E to \in TaskStatus : MoveWork(to)

GateSpec == GateInit /\ [][GateNext]_gateVars

------------------------------------------------------------------------------
(***************************************************************************)
(* Properties                                                              *)
(***************************************************************************)

EvaluationRow == [trigger : Triggers, run : 1..MaxRuns, type : EvaluatorType,
                  status : EvaluationStatus, clean : BOOLEAN]

RequestState == [pc : {"new", "done", "failed"} \cup InFlight, run : 0..MaxRuns,
                 types : SUBSET EvaluatorType, failFast : BOOLEAN, rows : SUBSET EvaluationRow]

GateTypeOK ==
  /\ work \in TaskStatus
  /\ runs \in Seq({"running", "succeeded", "failed", "cancelled"})
  /\ evals \subseteq EvaluationRow
  /\ trig \in [Triggers -> RequestState]
  /\ producer \in 0..MaxRuns
  /\ backdated \in BOOLEAN

\* The gate shows passed beside a result only when it is that result which
\* was evaluated: the run it looks at, the one created last, is the one that
\* produced what is up for approval or already approved.  The exception is
\* a result that comes from the retry of an older run.
GateJudgesTheResult ==
  /\ QualityGate = "passed"
  /\ work \in {"awaiting_approval", "approved", "merged"}
  /\ ~ backdated
  => producer = LatestRun

\* A request adds one evaluation of each type it asked for, in one step, or
\* nothing: no failure on the way leaves a verdict that half of the
\* evaluators gave, and what is stored stays as it is.  Failing fast leaves
\* out exactly the second wave.
TriggerIsWhole ==
  [][/\ evals \subseteq evals'
     /\ \A g \in Triggers :
          LET rows == {e \in evals' \ evals : e.trigger = g}
              types == {e.type : e \in rows}
          IN rows # {} =>
               /\ \A e \in evals : e.trigger # g
               /\ \A e \in rows : e.run = trig[g].run
               /\ \A e, f \in rows : e.type = f.type => e = f
               /\ \/ types = trig[g].types
                  \/ /\ trig[g].failFast /\ SomeFailed(rows)
                     /\ types = trig[g].types \cap Deterministic]_gateVars

\* A run that has been evaluated stays the run that was evaluated: nobody
\* runs it again, whatever is retried, rejected or started meanwhile.
EvaluatedRunsAreFinal == \A e \in evals : runs[e.run] = "succeeded"

==============================================================================
