----------------------------- MODULE RunSessions -----------------------------
(***************************************************************************)
(* The requests of the Orchestrator and the background tasks they launch,  *)
(* on the rows of one task and its runs.                                   *)
(*                                                                         *)
(* Every request, and every background task when it settles its run, has a *)
(* session of its own at PostgreSQL's default isolation: a SELECT sees the *)
(* last commit and the session's own writes; an UPDATE waits until no      *)
(* other session has the row, and writes the columns in which the object   *)
(* differs from what update() loaded, whatever the row holds by then; the  *)
(* row stays taken until the session commits or rolls back.                *)
(*                                                                         *)
(* A run and its background task are named by the request that launches    *)
(* them.  The dependency gate of the move to running is TaskMemory's.      *)
(***************************************************************************)
EXTENDS TaskStates, Naturals, Sequences

CONSTANTS
  Requests,     \* requests to come, each for one operation
  Ops,          \* the operations they may ask for
  MaxFaults,    \* bound: failing requests and crashes of the process
  HandsOff,     \* users leave starting a task, and a task that runs, alone
  Overlap,      \* requests may overlap each other
  Timely        \* a background task neither overtakes the commit of the
                \* request that launched it nor lags behind its own

ASSUME OpsAreKnown == Ops \subseteq {"start", "retry", "cancel", "move", "patch"}
ASSUME EnvironmentIsGiven ==
  MaxFaults \in Nat /\ {HandsOff, Overlap, Timely} \subseteq BOOLEAN

VARIABLES
  task,         \* committed status of the task
  run,          \* committed rows of agent_runs: status and attempt_number
  ses,          \* the sessions: place in the code, copies, pending writes
  active,       \* RunRegistry._active: the background task of each run
  token,        \* background tasks whose cancellation token is set
  faults,       \* failures so far
  orphan        \* auxiliary: a request has failed after it had launched

vars == <<task, run, ses, active, token, faults, orphan>>

Front(q) == <<q, "request">>
Back(q) == <<q, "background">>
Fronts == {Front(q) : q \in Requests}
Backs == {Back(q) : q \in Requests}
Sessions == Fronts \cup Backs

None == "none"
Nobody == << >>
NoRow == [status |-> None, attempt |-> 0]

Settled == {"succeeded", "failed", "cancelled"}

\* op, pc     the operation and the next statement of its code
\* id         the run the session is about
\* todo       the statuses the task has still to be moved to
\* copy, seen the task as the service read it, and as update() loaded it
\* runCopy, runSeen   the same for the run
\* set, runSet        flushed and not committed: the row as it will be
\* entries    flushed rows of execution_history
Blank == [op |-> None, pc |-> "new", id |-> None, todo |-> <<>>,
          copy |-> None, seen |-> None, runCopy |-> NoRow, runSeen |-> NoRow,
          set |-> None, runSet |-> NoRow, entries |-> <<>>]

\* What a SELECT of the session returns.
TaskSeen(s) == IF ses[s].set # None THEN ses[s].set ELSE task
RunSeen(s) == IF ses[s].runSet # NoRow THEN ses[s].runSet ELSE run[ses[s].id]

\* Some other session has the row.
TaskTaken(s) == \E o \in Sessions \ {s} : ses[o].set # None
RunTaken(s) == \E o \in Sessions \ {s} : ses[o].runSet # NoRow /\ ses[o].id = ses[s].id

Over == {"done", "failed"}
Open(s) == ses[s].pc \notin Over \cup {"new"}

\* An exception: get_db_session, or the end of the background task, rolls
\* back.  The done callback of a background task runs all the same.
Abort(s, pc) == ses' = [ses EXCEPT ![s] = [Blank EXCEPT !.op = ses[s].op, !.id = ses[s].id, !.pc = pc]]

------------------------------------------------------------------------------

Init ==
  /\ task = "ready"
  /\ run = [q \in Requests |-> NoRow]
  /\ ses = [s \in Sessions |-> Blank]
  /\ active = [q \in Requests |-> Nobody]
  /\ token = {}
  /\ faults = 0
  /\ orphan = FALSE

\* What is refused for want of an agent, an enabled one or a context package
\* has changed nothing, and is left out; so is the audit event of approve,
\* which commits with it.  The code of an operation starts by reading the run or the task.
Begin(q, op, id, todo) ==
  /\ op \in Ops
  /\ ses' = [ses EXCEPT ![Front(q)] =
       [Blank EXCEPT !.op = op, !.id = id, !.todo = todo,
          !.pc = IF op \in {"retry", "cancel"} THEN "run_read" ELSE "read"]]
  /\ UNCHANGED <<task, run, active, token, faults, orphan>>

StartRun(q) == Begin(q, "start", q, <<"running">>)
RetryRun(q, id) == Begin(q, "retry", id, <<"ready", "running">>)
CancelRun(q, id) == Begin(q, "cancel", id, <<>>)

MoveTask(q, to) ==
  /\ HandsOff => to # "running" /\ task # "running"
  /\ Begin(q, "move", None, <<to>>)
PatchTask(q) ==
  /\ HandsOff => task # "running"
  /\ Begin(q, "patch", None, <<>>)
AssignAgent(q) == PatchTask(q)

Approve(q) == MoveTask(q, "approved")
Reject(q) == MoveTask(q, "rejected")
Merge(q) == MoveTask(q, "merged")

\* The endpoints.  A service's error ends the request with 404, 409 or 422.
Arrives(q) == ses[Front(q)].pc = "new" /\ (Overlap \/ \A s \in Fronts : ~ Open(s))

PostRuns(q) == Arrives(q) /\ StartRun(q)
PostRetry(q) == Arrives(q) /\ \E id \in Requests : RetryRun(q, id)
PostCancel(q) == Arrives(q) /\ \E id \in Requests : CancelRun(q, id)
PostAssign(q) == Arrives(q) /\ AssignAgent(q)
PatchTasks(q) == Arrives(q) /\ PatchTask(q)
PostStatus(q) == Arrives(q) /\ \E to \in TaskStatus : MoveTask(q, to)
PostApprove(q) == Arrives(q) /\ Approve(q)
PostReject(q) == Arrives(q) /\ Reject(q)
PostMerge(q) == Arrives(q) /\ Merge(q)

\* cancel_run and retry_run read the run and check its status.
ReadRun(s) ==
  /\ ses[s].pc = "run_read"
  /\ LET row == RunSeen(s) IN
     \/ /\ ses[s].op = "retry" /\ row.status = "failed"
        /\ ses' = [ses EXCEPT ![s].runCopy = row, ![s].pc = "read"]
     \/ /\ ses[s].op = "cancel" /\ row.status = "running"
        /\ ses' = [ses EXCEPT ![s].pc = "signal"]
     \/ /\ row.status # (IF ses[s].op = "retry" THEN "failed" ELSE "running")
        /\ Abort(s, "failed")
  /\ UNCHANGED <<task, run, active, token, faults, orphan>>

\* RunRegistry.cancel: the token of the live agent, if there is one.
Signal(s) ==
  /\ ses[s].pc = "signal"
  /\ LET b == active[ses[s].id] IN
     \/ b # Nobody /\ token' = token \cup {b} /\ Abort(s, "done")
     \/ b = Nobody /\ token' = token /\ Abort(s, "failed")
  /\ UNCHANGED <<task, run, active, faults, orphan>>

\* A faulty variant, for the mutants: the check of the move is left out.
ReadTaskUnchecked(s) ==
  /\ ses[s].pc = "read"
  /\ ses' = [ses EXCEPT ![s].copy = TaskSeen(s), ![s].pc = "load"]
  /\ UNCHANGED <<task, run, active, token, faults, orphan>>

\* transition_status: get_task and the check of the move.  update_task and
\* assign_agent read the task too, and check nothing.
ReadTask(s) ==
  /\ ses[s].pc = "read"
  /\ \/ /\ ses[s].op # "patch"
        /\ ~ IsLegalTaskTransition(TaskSeen(s), Head(ses[s].todo))
        /\ Abort(s, IF s \in Backs THEN "finish" ELSE "failed")
     \/ /\ ses[s].op # "patch" => IsLegalTaskTransition(TaskSeen(s), Head(ses[s].todo))
        /\ ses' = [ses EXCEPT ![s].copy = TaskSeen(s), ![s].pc = "load"]
  /\ UNCHANGED <<task, run, active, token, faults, orphan>>

\* TaskRepository.update loads the row anew.
LoadTask(s) ==
  /\ ses[s].pc = "load"
  /\ ses' = [ses EXCEPT ![s].seen = TaskSeen(s), ![s].pc = "flush"]
  /\ UNCHANGED <<task, run, active, token, faults, orphan>>

\* A faulty variant, for the mutants: retry_run forgets to update its run.
AfterMovesRunForgotten(op) ==
  IF op \in {"start", "retry"} THEN "launch" ELSE "commit"

\* What follows the last move of the task.
AfterMoves(op) ==
  CASE op = "start" -> "launch" [] op = "retry" -> "run_load" [] OTHER -> "commit"

\* A faulty variant, for the mutants: from_status is taken after the change.
FlushMoveFromStatusLate(s) ==
  /\ ses[s].pc = "flush"
  /\ ses[s].op # "patch"
  /\ ~ TaskTaken(s)
  /\ LET to == Head(ses[s].todo)
         left == Tail(ses[s].todo)
     IN ses' = [ses EXCEPT
          ![s].set = to,
          ![s].entries = Append(@, <<to, to>>),
          ![s].todo = left,
          ![s].pc = IF left = <<>> THEN AfterMoves(ses[s].op) ELSE "read"]
  /\ UNCHANGED <<task, run, active, token, faults, orphan>>

\* ... and flushes: no UPDATE when the status is the one it loaded, except
\* that a patch has other columns to write.  The history entry is inserted.
FlushMove(s) ==
  /\ ses[s].pc = "flush"
  /\ ses[s].op # "patch"
  /\ LET to == Head(ses[s].todo)
         left == Tail(ses[s].todo)
     IN
     /\ to # ses[s].seen => ~ TaskTaken(s)
     /\ ses' = [ses EXCEPT
          ![s].set = IF to # ses[s].seen THEN to ELSE @,
          ![s].entries = Append(@, <<ses[s].copy, to>>),
          ![s].todo = left,
          ![s].pc = IF left = <<>> THEN AfterMoves(ses[s].op) ELSE "read"]
  /\ UNCHANGED <<task, run, active, token, faults, orphan>>

FlushPatch(s) ==
  /\ ses[s].pc = "flush" /\ ses[s].op = "patch"
  /\ ~ TaskTaken(s)
  /\ ses' = [ses EXCEPT
       ![s].set = IF ses[s].copy # ses[s].seen THEN ses[s].copy ELSE task,
       ![s].pc = "commit"]
  /\ UNCHANGED <<task, run, active, token, faults, orphan>>

\* AgentRunRepository.update, for retry_run and for a background task.  The
\* latter first looks whether the row is there at all.
LoadRun(s) ==
  /\ ses[s].pc = "run_load"
  /\ Timely /\ s \in Backs => ses[Front(s[1])].pc \in Over
  /\ \/ /\ RunSeen(s) = NoRow
        /\ Abort(s, "finish")
     \/ /\ RunSeen(s) # NoRow
        /\ ses' = [ses EXCEPT ![s].runSeen = RunSeen(s), ![s].pc = "run_flush"]
  /\ UNCHANGED <<task, run, active, token, faults, orphan>>

FlushRun(s) ==
  /\ ses[s].pc = "run_flush"
  /\ ~ RunTaken(s)
  /\ LET new == IF s \in Backs THEN ses[s].runCopy
                ELSE [status |-> "running", attempt |-> ses[s].runCopy.attempt + 1]
         seen == ses[s].runSeen
         row == run[ses[s].id]
     IN ses' = [ses EXCEPT
          ![s].runSet =
            [status  |-> IF new.status # seen.status THEN new.status ELSE row.status,
             attempt |-> IF new.attempt # seen.attempt THEN new.attempt ELSE row.attempt],
          ![s].pc = IF s \in Backs THEN "read" ELSE "launch"]
  /\ UNCHANGED <<task, run, active, token, faults, orphan>>

\* A faulty variant, for the mutants: the background task of a retry is
\* given the attempt the run was at.
LaunchAtOldAttempt(s) ==
  /\ ses[s].pc = "launch"
  /\ LET row == IF ses[s].op = "start" THEN [status |-> "running", attempt |-> 1]
                ELSE ses[s].runSet
         b == Back(s[1])
         attempt == IF ses[s].op = "start" THEN 1 ELSE ses[s].runCopy.attempt
     IN
     /\ ses' = [ses EXCEPT
          ![s].runSet = row, ![s].pc = "commit",
          ![b] = [Blank EXCEPT !.op = "settle", !.pc = "agent", !.id = ses[s].id,
                    !.runCopy = [status |-> None, attempt |-> attempt]]]
     /\ active' = [active EXCEPT ![ses[s].id] = b]
  /\ UNCHANGED <<task, run, token, faults, orphan>>

\* start_run adds its row; then _launch, before the request commits.  The
\* background task is given the attempt the request has in mind.
Launch(s) ==
  /\ ses[s].pc = "launch"
  /\ Timely => \A b \in Backs : ~ (ses[b].pc = "finish" /\ ses[b].id = ses[s].id)
  /\ LET row == IF ses[s].op = "start" THEN [status |-> "running", attempt |-> 1]
                ELSE ses[s].runSet
         b == Back(s[1])
         attempt == IF ses[s].op = "start" THEN 1 ELSE ses[s].runCopy.attempt + 1
     IN
     /\ ses' = [ses EXCEPT
          ![s].runSet = row, ![s].pc = "commit",
          ![b] = [Blank EXCEPT !.op = "settle", !.pc = "agent", !.id = ses[s].id,
                    !.runCopy = [status |-> None, attempt |-> attempt]]]
     /\ active' = [active EXCEPT ![ses[s].id] = b]
  /\ UNCHANGED <<task, run, token, faults, orphan>>

\* Faulty variants, for the mutants: the SDK's status is stored as it is;
\* a failed run makes its task ready again.
OutcomesUntranslated(b) ==
  ({"completed"} \X {<<"evaluating", "awaiting_approval">>, <<"evaluating", "failed">>})
  \cup {<<"failed", <<"failed">>>>}
OutcomesBackToReady(b) ==
  ({"succeeded"} \X {<<"evaluating", "awaiting_approval">>, <<"evaluating", "failed">>})
  \cup {<<"failed", <<"ready">>>>}

\* agent.run() returns its report (see AgentLifecycle), and the moves of
\* _transition_task_after_run follow from it.
Outcomes(b) ==
  ({"succeeded"} \X {<<"evaluating", "awaiting_approval">>, <<"evaluating", "failed">>})
  \cup {<<"failed", <<"failed">>>>}
  \cup (IF b \in token THEN {<<"cancelled", <<"cancelled">>>>} ELSE {})

AgentReturns(b) ==
  /\ ses[b].pc = "agent"
  /\ \E outcome \in Outcomes(b) :
       ses' = [ses EXCEPT ![b].runCopy.status = outcome[1],
                          ![b].todo = outcome[2], ![b].pc = "run_load"]
  /\ UNCHANGED <<task, run, active, token, faults, orphan>>

Commit(s) ==
  /\ ses[s].pc = "commit"
  /\ task' = TaskSeen(s)
  /\ run' = IF ses[s].runSet = NoRow THEN run
            ELSE [run EXCEPT ![ses[s].id] = ses[s].runSet]
  /\ Abort(s, IF s \in Backs THEN "finish" ELSE "done")
  /\ UNCHANGED <<active, token, faults, orphan>>

\* The done callback takes out whatever is tracked under the run's id.
Finish(b) ==
  /\ ses[b].pc = "finish"
  /\ active' = [active EXCEPT ![ses[b].id] = Nobody]
  /\ Abort(b, "done")
  /\ UNCHANGED <<task, run, token, faults, orphan>>

\* A request fails before it is through, with what it launched left running.
RequestFails(s) ==
  /\ s \in Fronts /\ Open(s)
  /\ faults < MaxFaults
  /\ faults' = faults + 1
  /\ orphan' = (orphan \/ (ses[s].pc = "commit" /\ ses[s].op \in {"start", "retry"}))
  /\ Abort(s, "failed")
  /\ UNCHANGED <<task, run, active, token>>

\* The process dies: sessions, background tasks and registry go with it.
Crash ==
  /\ faults < MaxFaults
  /\ faults' = faults + 1
  /\ ses' = [s \in Sessions |->
               IF Open(s) THEN [Blank EXCEPT !.pc = "failed"] ELSE ses[s]]
  /\ active' = [q \in Requests |-> Nobody]
  /\ UNCHANGED <<task, run, token, orphan>>

Statement(s) ==
  \/ ReadRun(s) \/ Signal(s) \/ ReadTask(s) \/ LoadTask(s) \/ FlushMove(s)
  \/ FlushPatch(s) \/ LoadRun(s) \/ FlushRun(s) \/ Launch(s) \/ Commit(s)

Next ==
  \/ \E q \in Requests :
       \/ PostRuns(q) \/ PostRetry(q) \/ PostCancel(q) \/ PostAssign(q) \/ PatchTasks(q)
       \/ PostStatus(q) \/ PostApprove(q) \/ PostReject(q) \/ PostMerge(q)
  \/ \E s \in Sessions : Statement(s)
  \/ \E b \in Backs : AgentReturns(b) \/ Finish(b)
  \/ \E s \in Fronts : RequestFails(s)
  \/ Crash

Spec == Init /\ [][Next]_vars

\* A session that is open goes on, and an agent that runs returns.
FairSpec ==
  /\ Spec
  /\ \A s \in Sessions : WF_vars(Statement(s))
  /\ \A b \in Backs : WF_vars(AgentReturns(b) \/ Finish(b))

------------------------------------------------------------------------------
(***************************************************************************)
(* Properties                                                              *)
(***************************************************************************)

RunRow == {NoRow} \cup [status : {"running"} \cup Settled, attempt : Nat \ {0}]

TypeOK ==
  /\ task \in TaskStatus
  /\ run \in [Requests -> RunRow]
  /\ \A s \in Sessions : ses[s].set \in TaskStatus \cup {None} /\ ses[s].runSet \in RunRow
  /\ active \in [Requests -> Backs \cup {Nobody}]
  /\ token \subseteq Backs
  /\ faults \in 0..MaxFaults
  /\ orphan \in BOOLEAN

\* In the database, the task is running exactly when one run is, and never
\* two: launching and settling change task and run in one transaction, which
\* a failure or a crash leaves done or not begun.  A request that fails after
\* it has launched is another matter: its background task settles a run that
\* nobody started.
RunMirrorsTask ==
  ~ orphan =>
    /\ task = "running" <=> \E q \in Requests : run[q].status = "running"
    /\ \A p, q \in Requests :
         run[p].status = "running" /\ run[q].status = "running" => p = q

\* A run that shows as running can be cancelled: the registry holds a live
\* background task for it, of the attempt the row shows.
LiveRunIsTracked ==
  faults = 0 => \A q \in Requests : run[q].status = "running" =>
    /\ active[q] # Nobody
    /\ LET b == ses[active[q]] IN
       /\ b.id = q /\ b.op = "settle" /\ b.pc \notin Over \cup {"new", "finish"}
       /\ b.runCopy.attempt = run[q].attempt

\* The history entries a session commits lead from the status the task had
\* at that moment to the one it has from then on, as long as no request has
\* failed with a background task launched: that one and the one of a later
\* retry may settle the task side by side.
HistoryTellsTheTruth ==
  [][~ orphan => \A s \in Sessions :
       ses[s].pc = "commit" /\ ses'[s].pc \in {"done", "finish"} /\ ses[s].entries # <<>> =>
         LET entries == ses[s].entries IN
         /\ entries[1][1] = task
         /\ entries[Len(entries)][2] = task'
         /\ \A i \in 2..Len(entries) : entries[i][1] = entries[i - 1][2]]_vars

\* MERGED and CANCELLED are terminal, with the same exception.
TerminalStays == [][~ orphan /\ task \in TerminalStatus => UNCHANGED task]_vars

\* A run does not stay running for ever, whatever requests come in meanwhile.
RunSettles ==
  \A q \in Requests : run[q].status = "running" ~> run[q].status # "running" \/ faults > 0

\* The row is created before the background task is launched: it is there
\* when the background task looks for it.
RowPrecedesSettling ==
  \A b \in Backs : ses[b].pc = "run_load" => run[ses[b].id] # NoRow

\* A run whose cancellation was accepted settles.
CancelledRunSettles ==
  \A q \in Requests :
    active[q] \in token /\ run[q].status = "running" ~> run[q].status # "running"

==============================================================================
