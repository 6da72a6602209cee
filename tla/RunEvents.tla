------------------------------ MODULE RunEvents ------------------------------
(***************************************************************************)
(* The life of one agent run as its event stream shows it: the agent of    *)
(* AgentLifecycle publishes, _execute_and_persist stores the outcome and   *)
(* publishes agent_run.persisted, clients attach to the broker and leave,  *)
(* and a failed run is retried under the same identifier.                  *)
(*                                                                         *)
(* A request is one step here.  What its database statements may be        *)
(* interleaved with is the subject of RunSessions.                         *)
(***************************************************************************)
EXTENDS Naturals, Sequences, SequencesExt

CONSTANTS
  Clients,          \* clients of GET /agent-runs/{runId}/events
  MaxLaunches,      \* bound for TLC: the start and the retries of the run
  MaxAttempts,      \* of AgentLifecycle
  MaxBeats          \* of AgentLifecycle

ASSUME LaunchesAreCounted == MaxLaunches \in Nat

VARIABLES
  phase, attempt, token, log, runs, asked,   \* the agent of the last launch
  row,          \* committed status of the run
  exec,         \* per launch, where _execute_and_persist is
  history,      \* _history of the broker: every event published for the run
  mode,         \* per client, where its request is
  rest,         \* what is left of the client's history_snapshot
  queue,        \* the client's queue
  told          \* what the stream has sent to the client

agentVars == <<phase, attempt, token, log, runs, asked>>
clientVars == <<mode, rest, queue, told>>
vars == <<agentVars, row, exec, history, clientVars>>

\* One agent instance per launch, used for one run.
Agent == INSTANCE AgentLifecycle WITH MaxRuns <- 1

Launches == 1..MaxLaunches

Launched == {l \in Launches : exec[l] # "none"}

RunStatus == {"running", "succeeded", "failed", "cancelled"}

Settled == {"succeeded", "failed", "cancelled"}

SDKToDBStatus == [completed |-> "succeeded", failed |-> "failed", cancelled |-> "cancelled"]

Persisted(status) == [type |-> "persisted", status |-> status]

Events == Agent!Event \cup {Persisted(s) : s \in RunStatus}

EndsStreamWithAgent(event) ==       \* faulty variant: the agent's own last event
  event.type \in Agent!Ended \cup {"persisted"}

EndsStream(event) == event.type = "persisted"       \* _TERMINAL_EVENT_TYPES

------------------------------------------------------------------------------

Init ==
  /\ Agent!Init
  /\ row = "none"
  /\ exec = [l \in Launches |-> "none"]
  /\ history = <<>>
  /\ mode = [c \in Clients |-> "away"]
  /\ rest = [c \in Clients |-> <<>>]
  /\ queue = [c \in Clients |-> <<>>]
  /\ told = [c \in Clients |-> <<>>]

PublishToQueuesOnly(events) ==      \* faulty variant: no history kept
  /\ history' = IF history = <<>> THEN events ELSE history
  /\ queue' = [c \in Clients |-> IF mode[c] = "open" THEN queue[c] \o events ELSE <<>>]
  /\ UNCHANGED <<mode, rest, told>>

\* RunEventBroker.publish, of one event after the other without suspending.
Publish(events) ==
  /\ history' = history \o events
  /\ queue' = [c \in Clients |-> IF mode[c] = "open" THEN queue[c] \o events ELSE <<>>]
  /\ UNCHANGED <<mode, rest, told>>

\* start_run and retry_run: the row says running, and a new agent is created
\* and started.  Its first step publishes what Agent!Run puts in its log.
Launch ==
  /\ row \in {"none", "failed"}
  /\ Launched # Launches
  /\ LET l == CHOOSE x \in Launches \ Launched : \A y \in Launches \ Launched : x <= y IN
     exec' = [exec EXCEPT ![l] = "running"]
  /\ row' = "running"
  /\ phase' = "planning" /\ attempt' = 1 /\ token' = FALSE /\ runs' = 1
  /\ asked' = Agent!NeverAsked
  /\ log' = <<Agent!Entry("queued", 1), Agent!Entry("planning", 1)>>
  /\ Publish(log')

\* A step of the running agent, whose publisher is the broker.
AgentStep ==
  /\ Agent!Progress \/ Agent!Heartbeat
  /\ Publish(SubSeq(log', Len(log) + 1, Len(log')))
  /\ UNCHANGED <<row, exec>>

\* cancel_run finds the row running and the agent in the registry.
CancelRun ==
  /\ row = "running"
  /\ \E l \in Launches : exec[l] = "running"
  /\ Agent!Cancel
  /\ UNCHANGED <<row, exec, history, clientVars>>

SettleUntranslated(l) ==            \* faulty variant: no _SDK_TO_DB_STATUS
  /\ exec[l] = "running"
  /\ phase \in Agent!Ended
  /\ row' = phase
  /\ exec' = [exec EXCEPT ![l] = row']
  /\ UNCHANGED <<agentVars, history, clientVars>>

\* _execute_and_persist up to its commit: the outcome of agent.run().
Settle(l) ==
  /\ exec[l] = "running"
  /\ phase \in Agent!Ended
  /\ row' = SDKToDBStatus[phase]
  /\ exec' = [exec EXCEPT ![l] = row']
  /\ UNCHANGED <<agentVars, history, clientVars>>

\* The task's transition is refused, because a user has moved the task: the
\* exception rolls the session back and ends the background task.
SettleRolledBack(l) ==
  /\ exec[l] = "running"
  /\ phase \in Agent!Ended
  /\ exec' = [exec EXCEPT ![l] = "lost"]
  /\ UNCHANGED <<agentVars, row, history, clientVars>>

PublishPersisted(l) ==
  /\ exec[l] \in Settled
  /\ Publish(<<Persisted(exec[l])>>)
  /\ exec' = [exec EXCEPT ![l] = "done"]
  /\ UNCHANGED <<agentVars, row>>

\* subscribe_to_run_events reads the row.  A settled run is answered at once,
\* with one event made from the row; another sends the client to the broker.
Connect(c) ==
  /\ mode[c] \in {"away", "closed", "answered"}
  /\ mode' = [mode EXCEPT ![c] = IF row \in Settled THEN "answered" ELSE "attaching"]
  /\ UNCHANGED <<agentVars, row, exec, history, rest, queue, told>>

\* The endpoint: 404 for a run that is not there, or the stream.
GetEvents(c) == row # "none" /\ Connect(c)

AttachToQueueOnly(c) ==             \* faulty variant: no replay
  /\ mode[c] = "attaching"
  /\ mode' = [mode EXCEPT ![c] = "open"]
  /\ told' = [told EXCEPT ![c] = <<>>]
  /\ UNCHANGED <<agentVars, row, exec, history, queue, rest>>

\* RunEventBroker.subscribe up to its first yield: queue and snapshot.
Attach(c) ==
  /\ mode[c] = "attaching"
  /\ mode' = [mode EXCEPT ![c] = "open"]
  /\ rest' = [rest EXCEPT ![c] = history]
  /\ told' = [told EXCEPT ![c] = <<>>]
  /\ UNCHANGED <<agentVars, row, exec, history, queue>>

\* Yields an event and, after the terminal one, runs the finally clause.
Yield(c, event) ==
  /\ told' = [told EXCEPT ![c] = Append(@, event)]
  /\ mode' = [mode EXCEPT ![c] = IF EndsStream(event) THEN "closed" ELSE "open"]

Replay(c) ==
  /\ mode[c] = "open"
  /\ rest[c] # <<>>
  /\ Yield(c, Head(rest[c]))
  /\ rest' = [rest EXCEPT ![c] = IF mode'[c] = "open" THEN Tail(@) ELSE <<>>]
  /\ queue' = [queue EXCEPT ![c] = IF mode'[c] = "open" THEN @ ELSE <<>>]
  /\ UNCHANGED <<agentVars, row, exec, history>>

FollowBeforeReplayIsOver(c) ==      \* faulty variant: the queue goes first
  /\ mode[c] = "open"
  /\ queue[c] # <<>>
  /\ Yield(c, Head(queue[c]))
  /\ rest' = [rest EXCEPT ![c] = IF mode'[c] = "open" THEN @ ELSE <<>>]
  /\ queue' = [queue EXCEPT ![c] = IF mode'[c] = "open" THEN Tail(@) ELSE <<>>]
  /\ UNCHANGED <<agentVars, row, exec, history>>

Follow(c) ==
  /\ mode[c] = "open"
  /\ rest[c] = <<>>
  /\ queue[c] # <<>>
  /\ Yield(c, Head(queue[c]))
  /\ queue' = [queue EXCEPT ![c] = IF mode'[c] = "open" THEN Tail(@) ELSE <<>>]
  /\ UNCHANGED <<agentVars, row, exec, history, rest>>

\* The client goes away; the generator's finally clause removes its queue.
Leave(c) ==
  /\ mode[c] \in {"attaching", "open"}
  /\ mode' = [mode EXCEPT ![c] = "away"]
  /\ rest' = [rest EXCEPT ![c] = <<>>]
  /\ queue' = [queue EXCEPT ![c] = <<>>]
  /\ told' = [told EXCEPT ![c] = <<>>]
  /\ UNCHANGED <<agentVars, row, exec, history>>

Next ==
  \/ Launch \/ AgentStep \/ CancelRun
  \/ \E l \in Launches : Settle(l) \/ SettleRolledBack(l) \/ PublishPersisted(l)
  \/ \E c \in Clients : GetEvents(c) \/ Attach(c) \/ Replay(c) \/ Follow(c) \/ Leave(c)

Spec == Init /\ [][Next]_vars

\* Hooks return, the background task goes on after them, and what is there to
\* be sent is sent.  Nobody has to start, retry, cancel or connect.
FairSpec ==
  /\ Spec
  /\ WF_vars(AgentStep)
  /\ \A l \in Launches : WF_vars(Settle(l) \/ SettleRolledBack(l) \/ PublishPersisted(l))
  /\ \A c \in Clients : WF_vars(Attach(c) \/ Replay(c) \/ Follow(c))

------------------------------------------------------------------------------
(***************************************************************************)
(* Properties                                                              *)
(***************************************************************************)

TypeOK ==
  /\ row \in {"none"} \cup RunStatus
  /\ exec \in [Launches -> {"none", "running", "lost", "done"} \cup Settled]
  /\ history \in Seq(Events)
  /\ mode \in [Clients -> {"away", "attaching", "open", "closed", "answered"}]
  /\ rest \in [Clients -> Seq(Events)]
  /\ queue \in [Clients -> Seq(Events)]
  /\ told \in [Clients -> Seq(Events)]

\* Replay and live queue together lose nothing and repeat nothing: what a
\* client was told, what is left of its snapshot and what waits in its queue
\* make up the history, whenever between two events it attached.
NothingLostOrRepeated ==
  \A c \in Clients : mode[c] = "open" => told[c] \o rest[c] \o queue[c] = history

\* The stream of each client is one of EventStream: complete and in order.
Stream == INSTANCE EventStream WITH
  published <- history,
  open <- {c \in Clients : mode[c] = "open"}

ImplementsEventStream == Stream!Spec

Closes(c) == mode[c] = "open" /\ mode'[c] = "closed"

\* By the time the stream ends the row shows the run's final state.
StreamEndsOnFinalRow == [][\A c \in Clients : Closes(c) => row \in Settled]_vars

\* That is so as long as nobody retries the run: a client that streams a
\* retried run is replayed the end of the launch before.
FirstStreamEndsOnFinalRow ==
  [][\A c \in Clients : Closes(c) /\ Launched = {1} =>
       row \in Settled /\ Last(told'[c]) = Persisted(row)]_vars

\* An attached client is not left hanging: its stream ends, unless the run's
\* outcome could not be stored.
StreamEnds ==
  \A c \in Clients : mode[c] = "open" ~> mode[c] # "open" \/ \E l \in Launches : exec[l] = "lost"

==============================================================================
