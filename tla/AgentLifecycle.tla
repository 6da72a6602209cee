--------------------------- MODULE AgentLifecycle ----------------------------
(***************************************************************************)
(* BaseAgent.run of the agent SDK: the four hooks of an agent in order,    *)
(* retries with backoff, cooperative cancellation and the heartbeat task.  *)
(*                                                                         *)
(* asyncio runs the code between two awaits that suspend without           *)
(* interruption, so a step of the model goes from the end of one hook (or  *)
(* of the backoff) to the start of the next.  cancel() and the heartbeat   *)
(* come in between.  Publishing an event does not suspend: the publisher   *)
(* the Orchestrator passes only appends to lists (see RunEvents).          *)
(***************************************************************************)
EXTENDS Naturals, Sequences, FiniteSets, SequencesExt

CONSTANTS
  MaxAttempts,      \* RetryPolicy.max_attempts
  MaxRuns,          \* bound for TLC: calls of run() on one agent
  MaxBeats          \* bound for TLC: heartbeats of one run

ASSUME MaxAttemptsIsPositive == MaxAttempts \in Nat \ {0}
ASSUME BoundsAreNat == MaxRuns \in Nat /\ MaxBeats \in Nat

VARIABLES
  phase,        \* what run() is waiting for, or how it ended
  attempt,      \* local variable of run()
  token,        \* is_cancelled of the current CancellationToken
  log,          \* events published by the current run, oldest first
  runs,         \* calls of run() so far
  asked         \* auxiliary: the phase in which this run was first cancelled

vars == <<phase, attempt, token, log, runs, asked>>

\* A hook is named for the event published when it starts.
Hooks == <<"planning", "executing", "self_evaluating", "reporting">>
HookPhases == {Hooks[i] : i \in 1..4}

Active == HookPhases \cup {"retrying"}
Ended == {"completed", "failed", "cancelled"}

Errors == {"retryable", "terminal"}

Event ==
  [type : {"queued", "heartbeat"} \cup Active \cup Ended,
   attempt : Nat, error : Errors \cup {"none"}]

Entry(type, n) == [type |-> type, attempt |-> n, error |-> "none"]
Failure(type, n, error) == [type |-> type, attempt |-> n, error |-> error]

Beats == Len(SelectSeq(log, LAMBDA e : e.type = "heartbeat"))

NeverAsked == "no"

------------------------------------------------------------------------------

Init ==
  /\ phase = "created"
  /\ attempt = 1
  /\ token = FALSE
  /\ log = <<>>
  /\ runs = 0
  /\ asked = NeverAsked

\* Publishes the entries and goes on to the phase of the last one.
Publish(entries) ==
  /\ log' = log \o entries
  /\ phase' = Last(entries).type

RunKeepingToken ==                  \* faulty variant: no fresh token
  /\ phase \in {"created"} \cup Ended
  /\ runs < MaxRuns
  /\ runs' = runs + 1
  /\ attempt' = 1
  /\ log' = <<Entry("queued", 1), Entry("planning", 1)>>
  /\ phase' = "planning"
  /\ asked' = NeverAsked
  /\ UNCHANGED token

\* run(), and retry() which calls it.  A new token replaces the old one: what
\* was asked of an earlier run, or before the first, is forgotten.
Run ==
  /\ phase \in {"created"} \cup Ended
  /\ runs < MaxRuns
  /\ runs' = runs + 1
  /\ token' = FALSE
  /\ attempt' = 1
  /\ log' = <<Entry("queued", 1), Entry("planning", 1)>>
  /\ phase' = "planning"
  /\ asked' = NeverAsked

\* cancel() sets the token of whatever run the agent is in, or of none.
Cancel ==
  /\ ~ token
  /\ token' = TRUE
  /\ asked' = phase
  /\ UNCHANGED <<phase, attempt, log, runs>>

NextHookWithoutCheck(i) ==          \* faulty variant: a check left out
  /\ phase = Hooks[i]
  /\ Publish(<<Entry(IF i = 4 THEN "completed" ELSE Hooks[i + 1], attempt)>>)
  /\ UNCHANGED <<attempt, token, runs, asked>>

\* Hook i returns: raise_if_cancelled, then the next hook, and after report()
\* no check any more.
HookReturns(i) ==
  /\ phase = Hooks[i]
  /\ Publish(<<Entry(IF i = 4 THEN "completed"
                     ELSE IF token THEN "cancelled"
                     ELSE Hooks[i + 1], attempt)>>)
  /\ UNCHANGED <<attempt, token, runs, asked>>

\* execute() polls the token it is given and raises AgentCancelledError.
ExecuteObservesCancel ==
  /\ phase = "executing"
  /\ token
  /\ Publish(<<Entry("cancelled", attempt)>>)
  /\ UNCHANGED <<attempt, token, runs, asked>>

HookRaisesOnceTooOften(error) ==    \* faulty variant: <= for <
  /\ phase \in HookPhases
  /\ \/ /\ error = "retryable"
        /\ attempt <= MaxAttempts
        /\ Publish(<<Failure("retrying", attempt, error)>>)
        /\ attempt' = attempt + 1
     \/ /\ error = "terminal" \/ attempt > MaxAttempts
        /\ Publish(<<Failure("failed", attempt, error)>>)
        /\ UNCHANGED attempt
  /\ UNCHANGED <<token, runs, asked>>

\* A hook raises: is_retryable and attempts left, or the end.  The token is
\* not looked at here.
HookRaises(error) ==
  /\ phase \in HookPhases
  /\ \/ /\ error = "retryable"
        /\ attempt < MaxAttempts
        /\ Publish(<<Failure("retrying", attempt, error)>>)
        /\ attempt' = attempt + 1
     \/ /\ error = "terminal" \/ attempt = MaxAttempts
        /\ Publish(<<Failure("failed", attempt, error)>>)
        /\ UNCHANGED attempt
  /\ UNCHANGED <<token, runs, asked>>

BackoffNeverEnds ==                 \* faulty variant: waits to be cancelled
  /\ phase = "retrying"
  /\ token
  /\ Publish(<<Entry("cancelled", attempt)>>)
  /\ UNCHANGED <<attempt, token, runs, asked>>

\* The sleep is over and the loop starts again, with raise_if_cancelled.
BackoffEnds ==
  /\ phase = "retrying"
  /\ Publish(<<Entry(IF token THEN "cancelled" ELSE "planning", attempt)>>)
  /\ UNCHANGED <<attempt, token, runs, asked>>

HeartbeatOutlivesRun ==             \* faulty variant: the task is not cancelled
  /\ phase \in Active \cup Ended
  /\ Beats < MaxBeats
  /\ log' = Append(log, Entry("heartbeat", attempt))
  /\ UNCHANGED <<phase, attempt, token, runs, asked>>

\* The task of an attempt lives until the finally clause cancels it, which
\* for an attempt to be retried is after the backoff.
Heartbeat ==
  /\ phase \in Active
  /\ Beats < MaxBeats
  /\ log' = Append(log, Entry("heartbeat", attempt))
  /\ UNCHANGED <<phase, attempt, token, runs, asked>>

\* What the agent does by itself: its hooks return or raise, its sleeps end.
Progress ==
  \/ \E i \in 1..4 : HookReturns(i)
  \/ ExecuteObservesCancel
  \/ \E error \in Errors : HookRaises(error)
  \/ BackoffEnds

Next == Run \/ Cancel \/ Progress \/ Heartbeat

Spec == Init /\ [][Next]_vars

\* A hook that is awaited returns or raises: run() sets no time limit, so
\* that it ends at all rests on the agents.
FairSpec == Spec /\ WF_vars(Progress)

------------------------------------------------------------------------------
(***************************************************************************)
(* Properties                                                              *)
(***************************************************************************)

TypeOK ==
  /\ phase \in {"created"} \cup Active \cup Ended
  /\ attempt \in 1..MaxAttempts
  /\ token \in BOOLEAN
  /\ log \in Seq(Event)
  /\ runs \in Nat
  /\ asked \in {NeverAsked, "created"} \cup Active \cup Ended

\* A run that was cancelled while it planned, executed or evaluated itself
\* does not complete; one that was not cancelled does not end as cancelled.
CancelHonoured ==
  /\ phase = "completed" => asked \in {NeverAsked, "reporting", "completed"}
  /\ phase = "cancelled" => asked \in Active

\* The events of the run from position i on, heartbeats left out.
StoryFrom(i) == {j \in i..Len(log) : log[j].type # "heartbeat"}

\* The last n events of the story are the first n steps of an attempt, in
\* order, and all of the attempt that is being made.
Steps == Append(Hooks, "completed")
Ran(n) ==
  \A k \in 1..n : \E i \in 1..Len(log) :
    /\ Cardinality(StoryFrom(i)) = n + 1 - k
    /\ log[i].type = Steps[k] /\ log[i].attempt = attempt

\* What a subscriber of the run is told is one story, told to its end: a run
\* that has ended says so once and last, not even a heartbeat follows; a
\* completed run has announced the four hooks of its last attempt in order.
OneStory ==
  /\ \A i \in 1..Len(log) : log[i].type \in Ended => i = Len(log)
  /\ phase \in Ended => Last(log).type = phase
  /\ phase = "completed" => Ran(5)
  /\ \A i \in 1..Len(log) : i > 1 =>
       log[i].attempt \in {log[i - 1].attempt, log[i - 1].attempt + 1}

\* Every attempt after the first was earned by a retryable error, and a run
\* fails only on a terminal error or with its attempts used up.
RetriesEarned ==
  /\ \A i \in 1..Len(log) :
       /\ log[i].type = "retrying" =>
            log[i].error = "retryable" /\ log[i].attempt < MaxAttempts
       /\ log[i].type = "failed" =>
            log[i].error = "terminal" \/ log[i].attempt = MaxAttempts
  /\ log # <<>> => attempt = 1 + Cardinality({i \in 1..Len(log) : log[i].type = "retrying"})

\* Once cancelled, a run starts no further hook, in this attempt or a new one.
NoHookAfterCancel ==
  [][token /\ token' /\ phase' \in HookPhases => phase' = phase]_vars

\* A run ends, however often it is retried and whenever it is cancelled.
RunEnds == phase \in Active ~> phase \in Ended

==============================================================================
