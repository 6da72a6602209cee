# A TLA+ model of AEP

AEP drives work on software through a pipeline: a project has features, a feature has a graph of
tasks, a task is given an agent and a context, the agent runs, its result is evaluated, a person
approves it, and it is merged. This directory holds TLA+ modules that model the parts of the
backend and of the agent SDK that decide whether this pipeline can be trusted, the TLC
configurations that check them on small instances, and proofs, checked by TLAPS, that hold for
every instance. Paths below are relative to `src/`; `M` stands for `backend/src/aep/modules`.

`PROJECT.json` lists, for tools, what this file explains: components, runs, the source lines of
every definition (`map`), the hazards, what was found and what is proved.

## The system

The backend is one process running one asyncio event loop. FastAPI gives each HTTP request a
database session (`core/db.py`): committed when the handler returns, rolled back when it raises.
PostgreSQL runs at its default isolation, READ COMMITTED; no code takes a lock. Modules call each
other's service objects within the request and so share its session. Three things outlive a
request: the rows, the process-wide singletons `RunRegistry` and `RunEventBroker`, and the
asyncio task that runs an agent.

| Component | State | Operations | Talks to | Hard because |
|---|---|---|---|---|
| Task Memory (`M/task_memory`) | tasks, dependencies, execution history | create, update, assign, transition, add and remove dependency | rows only | checks and writes are separate statements; objects are written back whole |
| Orchestrator: runs (`M/orchestrator`) | agent runs; the registry | start, cancel, retry, approve, reject, merge; the background task settles | Task Memory in the same session; agent SDK; registry | the background task starts before the request commits, and has a session of its own |
| Orchestrator: events | broker: history and queues per run | publish, subscribe | agent (through the adapter), background task, SSE clients | clients attach at any moment; a retry keeps the run's identifier |
| Agent SDK (`sdk/aep-agent-sdk`) | token, attempt, progress | run, retry, cancel, heartbeat; four hooks | publisher | cancellation is polled; a heartbeat task runs beside the hooks |
| Evaluation (`M/evaluation`, `sdk/aep-eval-sdk`) | evaluations, results | trigger in two waves, quality gate | Orchestrator's runs | repeated triggers; retries; partial waves |
| Prompt Library (`M/prompt_library`) | templates, versions | create, activate, render | rows only | version numbers and the active version under concurrency |
| Context Builder (`M/context_builder`) | context packages, sources | index, generate, assemble | Task Memory, Projects, files | boundaries of chunking, deduplication and budget |
| Provider SDK (`sdk/aep-provider-sdk`) | attempt | generate, stream, embed | external models | retries of streams |
| Projects (`M/projects`) | projects, features | create, update, transition | rows only | the same write-back as tasks |
| Auth (`M/auth`) | users, roles, refresh tokens, audit events | login, refresh, logout, grant | OAuth provider | two refreshes with one token |
| Metrics (`M/metrics`) | metric points | record, aggregate | Projects | percentile index |
| Dashboard (`M/dashboard_api`) | none | read-only views | all of the above | – |
| Shell (`main.py`, `core`) | settings, engine | wiring | – | – |

What makes each correct. *Task Memory*: the graph never makes tasks wait for each other, history is
the life of the task, nothing is merged past a gate, terminal is terminal. *Runs*: task and run
agree, a live run can be cancelled and settles, one run at a time. *Events*: complete, in order,
ending, and ending at the right moment. *SDK*: cancellation is honoured at the next check, retries
are earned and bounded, the story told by the events is the run. *Evaluation*: a trigger is stored
whole or not at all, and the gate's verdict is about the result that would be merged. *Prompt
Library*: version numbers have no gap, and once a version is active there is always exactly one.
*Context Builder*: every line is in a chunk, the best of near duplicates stays, the budget is kept
and used. *Providers*: a caller gets one answer, of one attempt. *Projects*, *agents*, *users*: an
update takes effect as if alone, or at least gives nobody's change back. *Auth*: a login is one chain
of tokens. *Lists*: a client that follows the pages misses nothing that was there. *Metrics*: the
summaries agree with the rows and with each other.

## The modules

```
TaskStates ──┬─> TaskMemory ──> MCTaskMemory, TaskMemoryProofs
TaskGraph ──┬┘                  (TaskGraphProofs is used by both proof modules)
            └──> DependencyWrites ──> MCDependencyWrites, DependencyWritesProofs
TaskStates ────> RunSessions ──> RunSessionsProofs
AgentLifecycle ──(instance)──> RunEvents ──(refines)──> EventStream
      └─> AgentLifecycleProofs     └─> RunEventsProofs

TaskStates ──> EvaluationGate, PromptLibrary, Accounts, Resources, Listings
               ModelProvider, ContextPackages, Metrics
               the first five ──> TransactionProofs; all eight ──> MCServices
               MCServices, TransactionProofs ──> ServicesProofs
               ContextPackages ──> MCContextPackages
```

**TaskStates** – the transition table of `task_memory/domain/models.py`, the dependency-gated
statuses, the terminal ones.

**TaskGraph** – dependency edges and reachability. `LeadsTo(edges, d, t)`, what the search of
`_would_create_cycle` decides, is defined without recursion: every set that holds `d` and is
closed under dependencies holds `t`. `Acyclic` says that every group of tasks has a member that
depends on none of the group. An assumption of `MCDependencyWrites` compares both with the
transitive closure of the community module `Relation`, on every graph over three tasks.

**TaskMemory** – what Task Memory promises. One action per operation that changes status, graph or
history: `CreateTask`, `AddDependency`, `RemoveDependency`, `TransitionStatus`; sessions do not
overlap. `update_task` and `assign_agent` change columns that are not modelled here. The auxiliary
variable `gate` remembers on which blockers a task last started.

**DependencyWrites** – `add_dependency` and `remove_dependency` by database statement, any number
of sessions at once. A step is one SELECT, flush or commit. The search reads the edges of one task
per step, as the code does. Its stack is a set here: the order changes neither what is visited nor the
answer. An uncommitted INSERT of the same edge makes others wait (the unique constraint). `stale`
and `raced` are auxiliary: they record that an add was overtaken by the commit of another.

**RunSessions** – the Orchestrator's requests on one task and the background tasks they launch, by
statement. A session record holds the place in the code (`pc`), the copies the service and
`update()` read, and the flushed writes. `TaskRepository.update` loads the row again and flushes
the columns that differ, which is exactly what makes a write stale; repository objects are dropped
at once, so a second `get` reads the database again. An UPDATE waits for the session that has the
row. `_launch` fills `active` (the registry) and the background session before the request commits;
`Finish` is the done callback. `RequestFails` and `Crash` are the failures. The rows of the run's
tokens, cost and times, and the dependency gate, are left out. Three constants select the
environment: `Overlap` (requests overlap each other), `HandsOff` (users leave a running task
alone), `Timely` (the background task neither overtakes its request's commit nor lags behind its
own).

**AgentLifecycle** – `BaseAgent.run`. asyncio interrupts code only where it suspends, so a step goes
from the return of one hook to the start of the next, with everything published on the way.
`Cancel` and `Heartbeat` come in between. `asked` is auxiliary: the phase in which the current run
was first cancelled.

**EventStream** – the abstract promise of a run's events: each client is told the published
sequence from its beginning, in order, each event once; its stream may end.

**RunEvents** – the broker, its clients, `subscribe_to_run_events` and the background task around
an instance of `AgentLifecycle`. A request is one step. Refinement: `published` is the broker's
history, `open` the attached clients.

**EvaluationGate** – `trigger_evaluation` from the request to its commit: checks, the deterministic
wave, the LLM-assisted wave, flush of the reports, commit; and `evaluate_task`, the gate. The
evaluators' reports are modelled by status, by whether their scores meet their thresholds, and by
whether the numbers fit their `NUMERIC(6, 4)` columns; `Reports` says what each evaluator of the SDK and of the backend
can return. The runs of the task go on beside it, a request at a time, as `RunSessions` has them; what agents
of the catalogue make of a run is `EchoOutcomes` and `DocumentationOutcomes`. The endpoint
never fails fast; the parameter is there for callers within the process, and `TriggerFailingFast` is
such a caller. `producer` and `backdated` are auxiliary.

**PromptLibrary** – templates and versions by statement: `create_version` reads the highest number
and inserts; activation finds what is active, switches it off, switches its own on. Two unique
indexes have the last word; sessions that wait for each other are a deadlock that fails one.

**Accounts** – login, refresh, logout, expiry. Requests are split at their SELECTs; writes become
visible with the commit. `shared` is auxiliary: logins of which two overlapping requests presented
the same token.

**Resources** – the rows that users edit (project, feature, repository, agent, user, role), each with
its operations, over one mechanism: read, check, load again, flush the columns that differ, commit.
`overtaken` and `shadowed` are auxiliary: another session changed the row since the request read it,
and whether it did before the second read.

**Listings** – paginated lists while rows are added. The clock is read at the INSERT, rows become visible
at the commit, in any order; ids are random. Cursor pages and numbered pages have an action each,
and each list its own endpoint.

**ContextPackages** – indexing, generation, assembly; files may change in between. Pure parts are
operators: `Chunks`, `Jaccard`, `ScoreDocument`, `DedupExact`, `DedupNearDuplicates`, `FitBudget`,
`BuildSources`. A line is a word, a hash is the content, scores are integers in units of 1/6000. The
endpoint pins no document; `PackagePinned` is a caller within the process that does.

**ModelProvider** – a call of `generate`, `embed` or `stream` with its retries and the three events
that are published. The hooks of the Claude plugin are modelled from `examples/`; another plugin may do
whatever the SDK lets it. The caller may leave a stream.

**Metrics** – rows as bags; `Summary`, `ProjectSummary`, `Percentile` as operators on them.

**MCServices** – these eight side by side in one run. They share no state; `part` is chosen at
the beginning and says which of them moves while the others stay in an initial state, so that the state
space is the sum of the eight and not their product. **MCContextPackages** gives the Context Builder
values of its own.

Definitions marked as faulty variants stand just before the definition they spoil. No specification
uses them: put in its place, each makes TLC find a property violated (`mutants` in `PROJECT.json`).

## What the runs check

| Run | Instance | Shows |
|---|---|---|
| `task_memory` | 2 tasks, 9 history entries per task, symmetric tasks | `NoMutualWait`, `HistoryIsWalk`, `TwoGates`, `GateHeld`, `HistoryOnlyGrows` |
| `dependency_writes` | 3 tasks, 2 sessions | `SearchSound`, `CycleNeedsRace`, `AddsAsIfAlone`, `SearchEnds` |
| `dependency_race` | the same | **violated**: `CycleFree` |
| `run_sessions` | 3 requests of any kind, 1 failure or crash; `HandsOff`, `Timely`, no `Overlap` | `RunMirrorsTask`, `LiveRunIsTracked`, `HistoryTellsTheTruth`, `TerminalStays`, `RunSettles` |
| `stale_write` | start, cancel, patch; users do as they like | **violated**: `TerminalStays` |
| `early_settling` | start; not `Timely` | **violated**: `RowPrecedesSettling` |
| `cancelled_run` | start, cancel, move; users do as they like | **violated**: `CancelledRunSettles` |
| `agent_lifecycle` | 3 attempts, 2 runs, 2 heartbeats per run | `CancelHonoured`, `OneStory`, `RetriesEarned`, `NoHookAfterCancel`, `RunEnds` |
| `run_events` | 1 client that comes and goes, a launch and a retry, 1 attempt each | `NothingLostOrRepeated`, `ImplementsEventStream`, `FirstStreamEndsOnFinalRow`, `StreamEnds` |
| `run_events_retry` | the same | **violated**: `StreamEndsOnFinalRow` |
| `services`, gate | 2 triggers (two types of different waves; one of either), 2 runs | `GateJudgesTheResult`, `EvaluatedRunsAreFinal`, `TriggerIsWhole` |
| – prompts | 4 requests on one template | `NumbersHaveNoGaps`, `ActiveVersionStays` |
| – accounts | 4 requests of one person | `TokensAreAChain` |
| – resources | 2 requests on one row of each kind | `UpdatesAsIfAlone` |
| – listings | 3 rows, 2 readings of the clock, pages of 1 and 2 | `PagesTellAll` |
| – context | 2 files of up to 3 lines, chunks of 2 lines that overlap by 1, budgets 1, 3, 4 | `PackageIsSound` |
| – provider | 3 attempts, 3 chunks | `CallerGetsOneAnswer` |
| – metrics | 4 streams, up to 21 values in one | `SummariesAgree` |
| `context_budget` | as context above | **violated**: `AssembledWithinBudget` |

*Bounds.* Nine entries let a task run, fail, run again and be merged; two tasks are enough for a
blocker and its dependent, and the proofs take over from there. Three tasks allow a cycle that is not just an
edge and its reverse, two sessions a race. Three requests are enough for a start, its cancellation
or retry, and a user's move. Three attempts are the default of `RetryPolicy`; with two runs a
cancellation can be left over from an earlier run. Clients do not influence each other or
the broker's history, so one client that may attach at every point stands for many; the proofs
have any number. Two triggers can overlap and two runs make one of them the older. Four editors are two
versions, a third request that activates and one that interferes; four callers a login, a refresh, a second
refresh or logout of the same token, and the use of its successor. Two requests on a row are a writer and the
one that overtakes it. Three rows with two readings of the clock have ties, rows committed late, and pages that
end between equal rows. Three lines make two chunks; the budgets are below one, for one, and for more than one
of them. Twenty-one values are enough for a p95 that is not the
last value and that a rank rounded down would miss. Runs that end
with a state that cannot go on (requests used up) switch deadlock checking off;
`dependency_writes` keeps it on.

*The environment of `run_sessions`.* The four violated runs beside it say what happens outside it.
With overlapping requests two starts can both find the task ready, because nothing locks the row;
no text claims the opposite and the run excludes it. Inside it, the run still interleaves requests
with one or more background tasks, with failures at every statement, and with a crash.

One case is excepted inside it, and marked by the auxiliary variable `orphan`: a request that fails at its
commit, after `_launch`, leaves a background task for a run that was rolled back. With six requests
(start; move back to ready; start; a retry that fails at its commit; another retry; cancel) that orphan and the
background task of the second retry settle the task side by side, and the second write can overwrite a
terminal status. That is beyond the three requests of the run, but the theorems are about any number, and so
`RunMirrorsTask`, `TerminalStays` and `HistoryTellsTheTruth` all say `~ orphan`.

*Fairness.* `DependencyWrites`: the search of an open request goes on (the event loop resumes a
request when the database answers); requests need not be made or committed. `RunSessions`: every
open session takes its next statement and every agent returns. `AgentLifecycle`: a hook that was
awaited returns or raises; `run()` has no timeout of its own, so this rests on the agents.
`RunEvents`: the same for the agent, and the background task and an attached client go on. Nowhere
is anybody made to start, retry, cancel, connect or leave. The services have safety properties
only: their requests are straight lines of statements.

## What was found

1. Two concurrent `add_dependency` calls close a cycle (`dependency_race`).
2. A PATCH or an assignment that overlaps the settling of a run restores the old status, even over a
   terminal one (`stale_write`).
3. The background task can look for its run before the row is committed, and then drops the
   outcome (`early_settling`).
4. A user's move of a running task makes settling fail; the run stays running (`cancelled_run`).
5. A client that streams a retried run is replayed the end of the previous launch (`run_events_retry`).
6. A context package is fitted to `max_tokens` by the chunk, but which chunks were included is not
   stored; what is assembled for the agent is every included document, whole, and longer (`context_budget`).

## What is proved

Eight modules hold proofs. Every theorem is for all values of the constants, under the assumptions that
the modules name: bounds are naturals, parameters are of their types, and

- `AccountsAssumption`: the absent token is no request's (it is a null, not an identifier);
- `LaunchesAreCounted`: launches of a run are counted;
- `ListingsAssumption`: identifiers are ordered, the clock has been read, a page has a row (`limit` is at
  least 1 in every endpoint);
- `MetricsAssumption`: streams and values are finitely many, values are whole units;
- `ChunkerParameters`, `ContextAssumption`: chunks have lines and overlap by less than one chunk
  (`TextChunker` asks the latter), files are listed by path, contents are sequences of words, `max_tokens` is positive
  (`M/context_builder/api/schemas.py:16`).

Sets of tasks, sessions, requests and clients need not be finite.

**Task Memory and dependencies** (`TaskMemoryProofs`, `DependencyWritesProofs`, on top of `TaskGraphProofs`):

- *Task Memory never makes tasks wait for each other* (`MutualWaitFree`). `NoMutualWait` is
  inductive given the type invariant; the step rests on two lemmas about any set of edges: fewer
  edges stay acyclic, and a new edge to a task that does not lead back stays acyclic. The second is
  proved from the closure form of `LeadsTo`: in a group without an exit, the tasks that the new
  edge's end leads to would be a group without an exit before.
- *History is the life of the task* (`HistoryWalks`), by the lemma that a walk extended by a legal
  move is a walk. *Both gates were passed* (`GatesPassed`) follows by reading the table backwards
  along that walk: each of merged, approved, awaiting approval, evaluating and running has one way in.
- *What a task was started on stays merged* (`GateStays`) and *history only grows*
  (`HistoryGrows`), because no move leaves a terminal status.
- *Searches are sound until overtaken* (`SearchIsSound`). The invariant that carries it is
  `SearchSound` itself with the types: visited tasks depend only on visited or waiting ones; at the
  end nothing waits, so the visited set is closed and separates the two ends. Removals only shrink the
  graph, which the lemma `FewerEdgesLeadNowhere` turns into preservation; the commit of another add makes
  the search stale.
- *Cycles need a race* (`OnlyRacesMakeCycles`) and *adds not overtaken are atomic*
  (`AddsAreAtomic`) follow from it and the acyclicity lemma.

**Runs** (`RunSessionsProofs`). Types hold in every environment (`TypeCorrect`): `SessionsFit` says
for each place in the code what a session holds there, so that no statement uses a copy it has not
got. The other four theorems are for the environment of `run_sessions` (`HandsOff`, `Timely`, no `Overlap`),
stated as their hypothesis:

- *Task and run agree* (`RunAndTaskAgree`). `RunMirrorsTask` alone is not inductive: a session
  in the middle of its statements could commit anything. `MirrorInv` adds who may be there: at most
  one request is open and at most one background task has an outcome to commit; that one either waits
  for the request that launched it, or the task and its run are running; a request that is going
  to change the task has found it not running, and nothing can have started it since.
- *Terminal statuses are final* (`TerminalIsFinal`) and *history is true* (`HistoryIsTrue`). `FirmInv`
  says that what a session has read of the task is still so, for every session that will write;
  the lemma `OthersRest` is the reason: when one session commits, no other holds anything of the task.
- *Running runs are tracked* (`RunningIsTracked`). `TrackInv` says that the registry's entry of a live
  background task's run is that task, that no done callback which would take it out is still to come, and that
  the moves a background task has left are legal ones, so that it never gives up its run.

**Agent and events** (`AgentLifecycleProofs`, `RunEventsProofs`):

- *Cancellation is honoured* (`CancelsHonoured`) and *no hook starts after it* (`HooksStop`). The
  invariant `Asked` relates the token to the phase in which it was set.
- *The events tell one story* (`StoriesAreWhole`). `StoryInv` says of the log as far as it goes that
  its end is the phase and its last attempt the current one; `RanInv`, that in the k-th phase of an attempt the first k
  hooks have been announced, heartbeats aside. The property speaks of positions in the log, so that one more event
  changes what it counts by one (`StoryFromGrows`).
- *Retries are earned* (`RetriesAreEarned`), from the same invariants and that the attempt never leaves
  `1..MaxAttempts`.
- *Nothing is lost or repeated* (`NothingIsLost`): replay and queue together are the history, for
  clients that attach at any moment; it is inductive with the types (`StreamInv`).
- *Broker, publisher and endpoint implement EventStream* (`StreamRefines`): initial states map to initial states and
  every step to a step or a stutter. The lemmas `CutConcat` and `MoveHead` say what publishing to a queue and reading its
  head do to the sequence a client has been told.
- *A stream of the first launch ends on the final row* (`FirstStreamEndsRight`). `FirstInv`: while the run was launched
  once, the event that ends a stream is in the history only with the row it was made from. A second launch breaks it,
  which is what `run_events_retry` finds.

**Requests that race for rows, and readers beside them** (`TransactionProofs`):

- *The gate judges the result* (`GateIsOfTheResult`): `OneRunAtATime` relates the status of the task
  to its runs: one is under way at a time, the latest unless an older one was retried, and what awaits
  approval came from it. *Evaluated runs are final* (`EvaluatedIsFinal`): runs that are evaluated, or
  are being evaluated, have succeeded (`GateInv`), and nothing restarts a run that has.
- *Triggers are whole* (`TriggersAreWhole`): `Whole` says what a request has flushed at each place,
  and that nothing stored is of a request that is not done.
- *Version numbers are dense* (`NumbersAreDense`) and *one version stays active* (`OneStaysActive`). No statement of
  the service sees to either; the unique indexes do, by making sessions wait. `PromptInv` says it in three parts: the committed
  table (numbers are 1 to n, at most one active), each session (what is left of its plan: switch off the one that is
  active, switch on the target; a row it has switched off is followed by one it switches on), and each two of them
  (`Apart`: they have written different rows, at most one of them a new version, and one that has switched a version
  on excludes that the other has touched an active row).
- *Logins are chains of tokens* (`LoginsAreChains`). `AccountsInv` says of each login that no two requests carry at
  once: at most one of its tokens is usable, and a request that carries one carries that one, alone.
- *Updates take effect alone* (`UpdatesTakeEffectAlone`). `ResourcesInv` relates the copies a request has read to the
  row as it is, until it is overtaken, and says that no two sessions hold one row.
- *Pages are complete* (`PagesAreComplete`). By cursor: a row that was there when the reader began was
  seen, or comes after the last row seen; rows that are committed later can go anywhere, since only those are counted.
  By page number: a row not seen has at least `offset` rows before it, because rows are only added; this needs a
  total order, so no ties, and a total that was not overtaken. `CursorPageFacts` and `OffsetPageFacts` say what a query
  with ORDER BY, OFFSET and LIMIT answers.

**Calculations** (`ServicesProofs`):

- *Callers get one answer* (`OneAnswer`): `ProviderInv` relates what was given, what was told and the attempt.
- *All summaries are views of one table* (`ViewsOfOneTable`): sums over streams, by project, agent or day, are the
  same sum in another order. The section on folds proves what it takes of `MapThenFoldSet`: the fold of a
  finite set does not depend on the order, splits along a partition, and adds what an element adds. The p95 is
  the least recorded value with 95 of 100 rows at or below it, because ranks count the rows below.
- *Packages are sound* (`PackagesAreSound`), for any files, contents, budget and sizes of chunks. What remains of the
  catalog after ranking is followed turn by turn (`FoldTurns`: a fold over 1..n goes from the first to the last): what a filter
  keeps, the fill of the budget, the rows of the roll-up. Besides that: a stable sort exists, since positions
  break ties (`SortedListExists`), the chunks' starts cover every line and overlap by exactly `OverlapLines`, and a chunk that
  deduplication drops is near one that is kept and scores as high. Induction goes through the set of turns for
  which a claim holds (`UpTo`).
- *The services are separate* (`ServicesAreSeparate`): a behaviour of `MCServices` is a behaviour of each
  of the eight, so that the theorems about each hold of what the run `services` checks; *all types hold*
  (`ServicesTypeCorrect`).

Model-checked only:

- All liveness; TLAPS proves none under fairness here.
- That `LeadsTo` and `Acyclic` mean paths, for three tasks.
- The six violated properties, which are refuted on an instance and need no proof.

## Not modelled, and the plan

Not modelled, and why:

- The dashboard's counts and its list of running agents: each is a row count at its own moment, with no state behind it.
- The signature and expiry of access tokens, which are not stored; what GitHub does (`Answers` says
  what it may answer).
- Rendering of prompts and conversion of messages: text in, text out; nothing else depends on how they read.
- Configuration, error envelopes, logging, tracing, the Redis publisher (no code path of a run uses it).
- The example evaluator repeats the reference evaluator. Scripts, prompts, frontend and deployment files are data
  or clients.
- Request and response schemas: pydantic models that check shapes before any code here runs.

Hazards without a property, and why: a crash loses the registry, and the code has no recovery (its README
says so), so that nothing can be claimed after one; two starts that overlap can both succeed, and no text
claims the opposite; a dependency that is committed between the gate's SELECTs and the start's commit is missed,
likewise; a hook that never returns is bounded by nothing, which the fairness of `AgentLifecycle` assumes away.

Worth doing next: the abstract specification of a run (`TaskMemory` as what the commits of `RunSessions`
amount to in its environment, by a refinement); `RunSessions` with the dependency gate's statements; a theorem
that `LeadsTo` is reachability along paths of bounded length, by the induction over 0..n that `ServicesProofs` has.
