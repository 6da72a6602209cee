--------------------------- MODULE RunEventsProofs ---------------------------
(***************************************************************************)
(* The event stream of a run keeps what EventStream promises, for any      *)
(* number of clients and of launches and any length of the run.            *)
(***************************************************************************)
EXTENDS RunEvents, SequenceTheorems, TLAPS

------------------------------------------------------------------------------
(***************************************************************************)
(* Sequences                                                               *)
(***************************************************************************)

\* What was added to a sequence is cut off again, and what it was added to.
LEMMA CutConcat ==
  ASSUME NEW S, NEW a \in Seq(S), NEW b \in Seq(S)
  PROVE  /\ SubSeq(a \o b, Len(a) + 1, Len(a \o b)) = b
         /\ SubSeq(a \o b, 1, Len(a)) = a
<1>1. /\ a \o b \in Seq(S) /\ Len(a \o b) = Len(a) + Len(b)
      /\ Len(a) \in Nat /\ Len(b) \in Nat
      /\ \A i \in 1..Len(a) + Len(b) : (a \o b)[i] = IF i <= Len(a) THEN a[i] ELSE b[i - Len(a)]
  BY ConcatProperties, LenProperties
<1>2. \A i \in 1..Len(a) + Len(b) : (a \o b)[i] \in S
  BY <1>1, ElementOfSeq
<1>3. SubSeq(a \o b, Len(a) + 1, Len(a \o b)) = b
  <2> DEFINE c == SubSeq(a \o b, Len(a) + 1, Len(a) + Len(b))
  <2>1. /\ c \in Seq(S)
        /\ Len(c) = IF Len(a) + 1 <= Len(a) + Len(b) THEN Len(a) + Len(b) - (Len(a) + 1) + 1 ELSE 0
        /\ \A i \in 1..Len(a) + Len(b) - (Len(a) + 1) + 1 : c[i] = (a \o b)[Len(a) + 1 + i - 1]
    <3>1. \A i \in Len(a) + 1..Len(a) + Len(b) : (a \o b)[i] \in S
      BY <1>1, <1>2
    <3>. QED  BY <1>1, <3>1, SubSeqProperties
  <2>2. Len(c) = Len(b) /\ \A i \in 1..Len(b) : c[i] = b[i]
    BY <1>1, <2>1
  <2> HIDE DEF c
  <2>3. c = b
    BY <2>1, <2>2, SeqEqual
  <2>. QED  BY <1>1, <2>3 DEF c
<1>4. SubSeq(a \o b, 1, Len(a)) = a
  <2> DEFINE c == SubSeq(a \o b, 1, Len(a))
  <2>1. /\ c \in Seq(S)
        /\ Len(c) = IF 1 <= Len(a) THEN Len(a) - 1 + 1 ELSE 0
        /\ \A i \in 1..Len(a) - 1 + 1 : c[i] = (a \o b)[1 + i - 1]
    <3>1. \A i \in 1..Len(a) : (a \o b)[i] \in S
      BY <1>1, <1>2
    <3>. QED  BY <1>1, <3>1, SubSeqProperties
  <2>2. Len(c) = Len(a) /\ \A i \in 1..Len(a) : c[i] = a[i]
    BY <1>1, <2>1
  <2> HIDE DEF c
  <2>3. c = a
    BY <2>1, <2>2, SeqEqual
  <2>. QED  BY <2>3 DEF c
<1>. QED  BY <1>3, <1>4

\* The head of one sequence goes to the end of the one before it.
LEMMA MoveHead ==
  ASSUME NEW S, NEW a \in Seq(S), NEW b \in Seq(S), b # <<>>
  PROVE  /\ Append(a, Head(b)) \in Seq(S) /\ Tail(b) \in Seq(S)
         /\ Append(a, Head(b)) \o Tail(b) = a \o b
         /\ Len(a) < Len(a \o b) /\ (a \o b)[Len(a) + 1] = Head(b)
<1>1. /\ Head(b) \in S /\ Tail(b) \in Seq(S) /\ Head(b) = b[1]
      /\ Len(b) \in Nat \ {0} /\ Len(Tail(b)) = Len(b) - 1
      /\ \A i \in 1..Len(Tail(b)) : Tail(b)[i] = b[i + 1]
  BY HeadTailProperties, EmptySeq
<1> DEFINE c == Append(a, Head(b))
<1>2. /\ c \in Seq(S) /\ Len(c) = Len(a) + 1 /\ Len(a) \in Nat
      /\ \A i \in 1..Len(a) : c[i] = a[i]
      /\ c[Len(a) + 1] = Head(b)
  BY <1>1, AppendProperties, LenProperties
<1> HIDE DEF c
<1>3. /\ c \o Tail(b) \in Seq(S) /\ Len(c \o Tail(b)) = Len(c) + Len(Tail(b))
      /\ \A i \in 1..Len(c) + Len(Tail(b)) :
           (c \o Tail(b))[i] = IF i <= Len(c) THEN c[i] ELSE Tail(b)[i - Len(c)]
  BY <1>1, <1>2, ConcatProperties
<1>4. /\ a \o b \in Seq(S) /\ Len(a \o b) = Len(a) + Len(b)
      /\ \A i \in 1..Len(a) + Len(b) : (a \o b)[i] = IF i <= Len(a) THEN a[i] ELSE b[i - Len(a)]
  BY ConcatProperties
<1>5. Len(c \o Tail(b)) = Len(a \o b)
  BY <1>1, <1>2, <1>3, <1>4
<1>6. \A i \in 1..Len(a \o b) : (c \o Tail(b))[i] = (a \o b)[i]
  <2> TAKE i \in 1..Len(a \o b)
  <2>1. CASE i <= Len(a)
    BY <1>1, <1>2, <1>3, <1>4, <2>1
  <2>2. CASE i = Len(a) + 1
    BY <1>1, <1>2, <1>3, <1>4, <2>2
  <2>3. CASE i > Len(a) + 1
    <3>1. i - Len(c) \in 1..Len(Tail(b)) /\ (i - Len(c)) + 1 = i - Len(a)
      BY <1>1, <1>2, <1>4, <2>3
    <3>. QED  BY <1>1, <1>2, <1>3, <1>4, <2>3, <3>1
  <2>. QED  BY <1>2, <1>4, <2>1, <2>2, <2>3
<1>7. c \o Tail(b) = a \o b
  BY <1>3, <1>4, <1>5, <1>6, SeqEqual
<1>8. Len(a) < Len(a \o b) /\ (a \o b)[Len(a) + 1] = Head(b)
  BY <1>1, <1>2, <1>4
<1>. QED  BY <1>1, <1>2, <1>7, <1>8 DEF c

\* The same for sequences of events.
LEMMA HeadMoves ==
  \A a, b \in Seq(Events) : b # <<>> =>
    /\ Append(a, Head(b)) \in Seq(Events) /\ Tail(b) \in Seq(Events)
    /\ Append(a, Head(b)) \o Tail(b) = a \o b
    /\ Len(a) < Len(a \o b) /\ (a \o b)[Len(a) + 1] = Head(b)
<1> SUFFICES ASSUME NEW a \in Seq(Events), NEW b \in Seq(Events), b # <<>>
             PROVE  /\ Append(a, Head(b)) \in Seq(Events) /\ Tail(b) \in Seq(Events)
                    /\ Append(a, Head(b)) \o Tail(b) = a \o b
                    /\ Len(a) < Len(a \o b) /\ (a \o b)[Len(a) + 1] = Head(b)
  OBVIOUS
<1>. QED  BY MoveHead

LEMMA Associative ==
  \A a, b, c \in Seq(Events) : a \o (b \o c) = (a \o b) \o c
  BY ConcatAssociative

------------------------------------------------------------------------------
(***************************************************************************)
(* The agent                                                               *)
(***************************************************************************)

EventTypes == {"queued", "heartbeat"} \cup Agent!Active \cup Agent!Ended

LEMMA EntryType ==
  ASSUME NEW type \in EventTypes, NEW n \in Nat
  PROVE  /\ Agent!Entry(type, n) \in Agent!Event
         /\ \A error \in Agent!Errors : Agent!Failure(type, n, error) \in Agent!Event
  BY DEF Agent!Entry, Agent!Failure, Agent!Event, EventTypes

LEMMA KnownTypes == {"queued", "heartbeat", "planning", "executing", "self_evaluating", "reporting",
                     "retrying", "completed", "failed", "cancelled"} \subseteq EventTypes
<1>1. /\ Agent!Hooks[1] = "planning" /\ Agent!Hooks[2] = "executing"
      /\ Agent!Hooks[3] = "self_evaluating" /\ Agent!Hooks[4] = "reporting"
  BY DEF Agent!Hooks
<1>2. {"planning", "executing", "self_evaluating", "reporting"} \subseteq Agent!HookPhases
  BY <1>1 DEF Agent!HookPhases
<1>. QED  BY <1>2 DEF EventTypes, Agent!Active, Agent!Ended

\* A step of the agent adds events to its log.
LEMMA AgentLogGrows ==
  ASSUME log \in Seq(Agent!Event), attempt \in Nat, Agent!Progress \/ Agent!Heartbeat
  PROVE  attempt' \in Nat /\ \E s \in Seq(Agent!Event) : log' = log \o s
<1>1. ASSUME NEW e \in Agent!Event, Agent!Publish(<<e>>)
      PROVE  \E s \in Seq(Agent!Event) : log' = log \o s
  <2>1. <<e>> \in Seq(Agent!Event)
    OBVIOUS
  <2>. QED  BY <1>1, <2>1 DEF Agent!Publish
<1>2. ASSUME NEW i \in 1..4, Agent!HookReturns(i)
      PROVE  attempt' = attempt /\ \E e \in Agent!Event : Agent!Publish(<<e>>)
  <2> DEFINE type == IF i = 4 THEN "completed" ELSE IF token THEN "cancelled" ELSE Agent!Hooks[i + 1]
  <2>1. type \in EventTypes
    <3>1. /\ Agent!Hooks[2] = "executing" /\ Agent!Hooks[3] = "self_evaluating"
          /\ Agent!Hooks[4] = "reporting"
      BY DEF Agent!Hooks
    <3>2. i \in 1..3 => Agent!Hooks[i + 1] \in EventTypes
      BY <3>1, KnownTypes
    <3>. QED  BY <3>2, KnownTypes
  <2>2. attempt' = attempt /\ Agent!Publish(<<Agent!Entry(type, attempt)>>)
    BY <1>2 DEF Agent!HookReturns
  <2> HIDE DEF type
  <2>. QED  BY <2>1, <2>2, EntryType
<1>3. CASE Agent!ExecuteObservesCancel \/ Agent!BackoffEnds
  <2>1. "cancelled" \in EventTypes /\ "planning" \in EventTypes
    BY KnownTypes
  <2>2. attempt' = attempt /\ \E type \in {"cancelled", "planning"} :
          Agent!Publish(<<Agent!Entry(type, attempt)>>)
    BY <1>3 DEF Agent!ExecuteObservesCancel, Agent!BackoffEnds
  <2>. QED  BY <1>1, <2>1, <2>2, EntryType
<1>4. ASSUME NEW error \in Agent!Errors, Agent!HookRaises(error)
      PROVE  attempt' \in Nat /\ \E s \in Seq(Agent!Event) : log' = log \o s
  <2>1. "retrying" \in EventTypes /\ "failed" \in EventTypes
    BY KnownTypes
  <2>2. attempt' \in Nat /\ \E type \in {"retrying", "failed"} :
          Agent!Publish(<<Agent!Failure(type, attempt, error)>>)
    BY <1>4 DEF Agent!HookRaises
  <2>. QED  BY <1>1, <2>1, <2>2, EntryType
<1>5. CASE Agent!Heartbeat
  <2>1. Agent!Entry("heartbeat", attempt) \in Agent!Event
    BY KnownTypes, EntryType
  <2>2. log' = log \o <<Agent!Entry("heartbeat", attempt)>>
    BY <1>5, <2>1, AppendIsConcat DEF Agent!Heartbeat
  <2>3. <<Agent!Entry("heartbeat", attempt)>> \in Seq(Agent!Event)
    BY <2>1
  <2>. QED  BY <1>5, <2>2, <2>3 DEF Agent!Heartbeat
<1>. QED  BY <1>1, <1>2, <1>3, <1>4, <1>5 DEF Agent!Progress

------------------------------------------------------------------------------
(***************************************************************************)
(* The invariant                                                           *)
(***************************************************************************)

\* Only an attached client has a queue.
StreamInv ==
  /\ TypeOK
  /\ log \in Seq(Agent!Event) /\ attempt \in Nat
  /\ \A c \in Clients : mode[c] # "open" => queue[c] = <<>>
  /\ NothingLostOrRepeated

LEMMA StreamInvInit == Init => StreamInv
<1> SUFFICES ASSUME Init PROVE StreamInv
  OBVIOUS
<1>1. log \in Seq(Agent!Event) /\ attempt \in Nat
  BY EmptySeq DEF Init, Agent!Init
<1>2. TypeOK
  <2>1. <<>> \in Seq(Events)
    BY EmptySeq
  <2>. QED  BY <2>1 DEF Init, TypeOK
<1>. QED  BY <1>1, <1>2 DEF Init, StreamInv, NothingLostOrRepeated

\* What is published reaches the history and the queues of those attached.
LEMMA PublishStep ==
  ASSUME StreamInv, NEW events \in Seq(Events), Publish(events),
         row' \in {"none"} \cup RunStatus,
         exec' \in [Launches -> {"none", "running", "lost", "done"} \cup Settled],
         log' \in Seq(Agent!Event), attempt' \in Nat
  PROVE  /\ StreamInv'
         /\ history' = history \o events /\ history' \in Seq(Events)
<1>0. /\ history \in Seq(Events) /\ UNCHANGED <<mode, rest, told>>
      /\ \A c \in Clients : queue[c] \in Seq(Events) /\ rest[c] \in Seq(Events) /\ told[c] \in Seq(Events)
  BY DEF StreamInv, TypeOK, Publish
<1>1. history' = history \o events /\ history' \in Seq(Events)
  BY <1>0, ConcatProperties DEF Publish
<1>2. queue' = [c \in Clients |-> IF mode[c] = "open" THEN queue[c] \o events ELSE <<>>]
  BY DEF Publish
<1>3. queue' \in [Clients -> Seq(Events)]
  <2>1. \A c \in Clients : (IF mode[c] = "open" THEN queue[c] \o events ELSE <<>>) \in Seq(Events)
    BY <1>0, ConcatProperties, EmptySeq
  <2>. QED  BY <1>2, <2>1
<1>4. TypeOK'
  BY <1>0, <1>1, <1>3 DEF StreamInv, TypeOK
<1>5. ASSUME NEW c \in Clients, mode[c] = "open"
      PROVE  told[c] \o rest[c] \o queue'[c] = history'
  <2>1. queue'[c] = queue[c] \o events
    BY <1>2, <1>5
  <2> DEFINE sent == told[c] \o rest[c]
  <2>2. sent \in Seq(Events)
    BY <1>0, ConcatProperties
  <2>3. sent \o queue[c] = history
    BY <1>5 DEF StreamInv, NothingLostOrRepeated
  <2> HIDE DEF sent
  <2>4. queue[c] \in Seq(Events)
    BY <1>0
  <2>5. sent \o (queue[c] \o events) = (sent \o queue[c]) \o events
    BY <2>2, <2>4, Associative
  <2>6. sent \o queue'[c] = history'
    BY <1>1, <2>1, <2>3, <2>5
  <2>. QED  BY <2>6 DEF sent
<1>6. NothingLostOrRepeated'
  BY <1>0, <1>5 DEF NothingLostOrRepeated
<1>7. \A c \in Clients : mode'[c] # "open" => queue'[c] = <<>>
  BY <1>0, <1>2
<1>. QED  BY <1>1, <1>4, <1>6, <1>7 DEF StreamInv

\* Launching, a step of the agent and the last event of a launch publish.
LEMMA Publishing ==
  ASSUME StreamInv, \/ Launch \/ AgentStep \/ \E l \in Launches : PublishPersisted(l)
  PROVE  /\ StreamInv'
         /\ \E events \in Seq(Events) : history' = history \o events /\ history' \in Seq(Events)
         /\ UNCHANGED <<mode, told>>
<1>0. Agent!Event \subseteq Events
  BY DEF Events
<1>1. ASSUME NEW s \in Seq(Agent!Event) PROVE s \in Seq(Events)
  BY <1>0, SeqMonotonic
<1>2. CASE Launch
  <2>1. /\ log' \in Seq(Agent!Event) /\ attempt' \in Nat
    <3>1. Agent!Entry("queued", 1) \in Agent!Event /\ Agent!Entry("planning", 1) \in Agent!Event
      BY KnownTypes, EntryType
    <3>. QED  BY <1>2, <3>1 DEF Launch
  <2>2. /\ row' \in {"none"} \cup RunStatus
        /\ exec' \in [Launches -> {"none", "running", "lost", "done"} \cup Settled]
        /\ Publish(log')
    BY <1>2 DEF Launch, StreamInv, TypeOK, RunStatus
  <2>3. log' \in Seq(Events)
    BY <1>1, <2>1
  <2>4. UNCHANGED <<mode, told>>
    BY <2>2 DEF Publish
  <2>. QED  BY <2>1, <2>2, <2>3, <2>4, PublishStep
<1>3. CASE AgentStep
  <2>1. PICK s \in Seq(Agent!Event) : log' = log \o s
    BY <1>3, AgentLogGrows DEF AgentStep, StreamInv
  <2>2. SubSeq(log', Len(log) + 1, Len(log')) = s /\ log' \in Seq(Agent!Event) /\ s \in Seq(Events)
    BY <1>1, <2>1, CutConcat, ConcatProperties DEF StreamInv
  <2>3. attempt' \in Nat
    BY <1>3, AgentLogGrows DEF AgentStep, StreamInv
  <2>4. Publish(s) /\ UNCHANGED <<row, exec>>
    BY <1>3, <2>2 DEF AgentStep
  <2>5. UNCHANGED <<mode, told>>
    BY <2>4 DEF Publish
  <2>6. /\ row' \in {"none"} \cup RunStatus
        /\ exec' \in [Launches -> {"none", "running", "lost", "done"} \cup Settled]
    BY <2>4 DEF StreamInv, TypeOK
  <2>. QED  BY <2>2, <2>3, <2>4, <2>5, <2>6, PublishStep
<1>4. ASSUME NEW l \in Launches, PublishPersisted(l)
      PROVE  /\ StreamInv'
             /\ \E events \in Seq(Events) : history' = history \o events /\ history' \in Seq(Events)
             /\ UNCHANGED <<mode, told>>
  <2>1. Persisted(exec[l]) \in Events
    BY <1>4 DEF PublishPersisted, Events, Settled, RunStatus
  <2>2. <<Persisted(exec[l])>> \in Seq(Events)
    BY <2>1
  <2>3. Publish(<<Persisted(exec[l])>>) /\ UNCHANGED <<agentVars, row>>
    BY <1>4 DEF PublishPersisted
  <2>4. /\ log' \in Seq(Agent!Event) /\ attempt' \in Nat /\ row' \in {"none"} \cup RunStatus
        /\ exec' \in [Launches -> {"none", "running", "lost", "done"} \cup Settled]
    BY <1>4, <2>3 DEF PublishPersisted, StreamInv, TypeOK, agentVars
  <2>5. UNCHANGED <<mode, told>>
    BY <2>3 DEF Publish
  <2>. QED  BY <2>2, <2>3, <2>4, <2>5, PublishStep
<1>. QED  BY <1>2, <1>3, <1>4

\* Who publishes nothing and leaves the clients alone changes no stream.
LEMMA QuietStep ==
  ASSUME StreamInv, \/ CancelRun
                    \/ \E l \in Launches : Settle(l) \/ SettleRolledBack(l)
                    \/ UNCHANGED vars
  PROVE  StreamInv' /\ UNCHANGED <<history, clientVars>>
<1>1. log' = log /\ attempt' = attempt /\ UNCHANGED <<history, clientVars>>
  BY DEF CancelRun, Agent!Cancel, Settle, SettleRolledBack, agentVars, vars
<1>2. /\ row' \in {"none"} \cup RunStatus
      /\ exec' \in [Launches -> {"none", "running", "lost", "done"} \cup Settled]
  <2>1. CASE CancelRun \/ UNCHANGED vars
    BY <2>1 DEF CancelRun, vars, StreamInv, TypeOK
  <2>2. ASSUME NEW l \in Launches, Settle(l)
        PROVE  /\ row' \in {"none"} \cup RunStatus
               /\ exec' \in [Launches -> {"none", "running", "lost", "done"} \cup Settled]
    <3>1. row' \in Settled
      BY <2>2 DEF Settle, SDKToDBStatus, Agent!Ended, Settled
    <3>. QED  BY <2>2, <3>1 DEF Settle, StreamInv, TypeOK, RunStatus, Settled
  <2>3. ASSUME NEW l \in Launches, SettleRolledBack(l)
        PROVE  /\ row' \in {"none"} \cup RunStatus
               /\ exec' \in [Launches -> {"none", "running", "lost", "done"} \cup Settled]
    BY <2>3 DEF SettleRolledBack, StreamInv, TypeOK
  <2>. QED  BY <2>1, <2>2, <2>3
<1>3. TypeOK'
  BY <1>1, <1>2 DEF StreamInv, TypeOK, clientVars
<1>. QED
  BY <1>1, <1>3 DEF StreamInv, NothingLostOrRepeated, clientVars

\* What a client may see of the server: the history and the agent stay.
Aside == UNCHANGED <<agentVars, row, exec, history>>

\* A client's request leaves the other clients' alone.
LEMMA ClientStep ==
  ASSUME StreamInv, Aside, NEW c \in Clients,
         NEW m \in {"away", "attaching", "open", "closed", "answered"},
         NEW r \in Seq(Events), NEW q \in Seq(Events), NEW t \in Seq(Events),
         mode' = [mode EXCEPT ![c] = m], rest' = [rest EXCEPT ![c] = r],
         queue' = [queue EXCEPT ![c] = q], told' = [told EXCEPT ![c] = t],
         m = "open" => t \o r \o q = history,
         m # "open" => q = <<>>
  PROVE  StreamInv'
<1>1. TypeOK'
  BY DEF StreamInv, TypeOK, Aside
<1>2. /\ mode'[c] = m /\ rest'[c] = r /\ queue'[c] = q /\ told'[c] = t
      /\ \A d \in Clients \ {c} : /\ mode'[d] = mode[d] /\ rest'[d] = rest[d]
                                  /\ queue'[d] = queue[d] /\ told'[d] = told[d]
      /\ history' = history /\ log' = log /\ attempt' = attempt
  BY DEF StreamInv, TypeOK, Aside, agentVars
<1>3. NothingLostOrRepeated'
  <2> SUFFICES ASSUME NEW d \in Clients, mode'[d] = "open"
               PROVE  told'[d] \o rest'[d] \o queue'[d] = history'
    BY DEF NothingLostOrRepeated
  <2>1. CASE d = c
    BY <1>2, <2>1
  <2>2. CASE d # c
    BY <1>2, <2>2 DEF StreamInv, NothingLostOrRepeated
  <2>. QED  BY <2>1, <2>2
<1>4. \A d \in Clients : mode'[d] # "open" => queue'[d] = <<>>
  BY <1>2 DEF StreamInv
<1>. QED  BY <1>1, <1>2, <1>3, <1>4 DEF StreamInv

\* A client connects, attaches or leaves.
LEMMA ComeAndGo ==
  ASSUME StreamInv, NEW c \in Clients, GetEvents(c) \/ Attach(c) \/ Leave(c)
  PROVE  StreamInv'
<1>0. /\ <<>> \in Seq(Events) /\ history \in Seq(Events) /\ rest[c] \in Seq(Events)
      /\ queue[c] \in Seq(Events) /\ told[c] \in Seq(Events)
      /\ mode[c] # "open" => queue[c] = <<>>
      /\ <<>> \o history \o <<>> = history
      /\ rest = [rest EXCEPT ![c] = rest[c]] /\ queue = [queue EXCEPT ![c] = queue[c]]
      /\ told = [told EXCEPT ![c] = told[c]]
  BY EmptySeq, ConcatEmptySeq DEF StreamInv, TypeOK
<1>1. CASE GetEvents(c)
  <2>1. PICK m \in {"answered", "attaching"} : mode' = [mode EXCEPT ![c] = m]
    BY <1>1 DEF GetEvents, Connect
  <2>2. Aside /\ UNCHANGED <<rest, queue, told>> /\ queue[c] = <<>>
    BY <1>0, <1>1 DEF GetEvents, Connect, Aside
  <2>3. /\ rest' = [rest EXCEPT ![c] = rest[c]] /\ queue' = [queue EXCEPT ![c] = queue[c]]
        /\ told' = [told EXCEPT ![c] = told[c]]
    BY <1>0, <2>2
  <2>. QED  BY <1>0, <2>1, <2>2, <2>3, ClientStep
<1>2. CASE Attach(c)
  <2>1. Aside /\ queue' = [queue EXCEPT ![c] = queue[c]] /\ queue[c] = <<>>
    BY <1>0, <1>2 DEF Attach, Aside
  <2>2. /\ mode' = [mode EXCEPT ![c] = "open"] /\ rest' = [rest EXCEPT ![c] = history]
        /\ told' = [told EXCEPT ![c] = <<>>]
    BY <1>2 DEF Attach
  <2>. QED  BY <1>0, <2>1, <2>2, ClientStep
<1>3. CASE Leave(c)
  <2>1. /\ Aside /\ mode' = [mode EXCEPT ![c] = "away"] /\ rest' = [rest EXCEPT ![c] = <<>>]
        /\ queue' = [queue EXCEPT ![c] = <<>>] /\ told' = [told EXCEPT ![c] = <<>>]
    BY <1>3 DEF Leave, Aside
  <2>. QED  BY <1>0, <2>1, ClientStep
<1>. QED  BY <1>1, <1>2, <1>3

\* A client is told the next event of the history.
LEMMA Telling ==
  ASSUME StreamInv, NEW c \in Clients, Replay(c) \/ Follow(c)
  PROVE  /\ StreamInv'
         /\ mode[c] = "open" /\ Len(told[c]) < Len(history)
         /\ told' = [told EXCEPT ![c] = Append(told[c], history[Len(told[c]) + 1])]
         /\ \E m \in {"open", "closed"} : mode' = [mode EXCEPT ![c] = m]
         /\ mode'[c] = "closed" => EndsStream(history[Len(told[c]) + 1])
         /\ history' = history
<1>0. /\ <<>> \in Seq(Events) /\ history \in Seq(Events) /\ rest[c] \in Seq(Events)
      /\ queue[c] \in Seq(Events) /\ told[c] \in Seq(Events)
      /\ rest = [rest EXCEPT ![c] = rest[c]]
      /\ Aside /\ mode[c] = "open"
      /\ told[c] \o rest[c] \o queue[c] = history
  BY EmptySeq DEF StreamInv, TypeOK, Replay, Follow, Aside, NothingLostOrRepeated
<1>1. CASE Replay(c)
  <2> DEFINE e == Head(rest[c])
             m == IF EndsStream(e) THEN "closed" ELSE "open"
             t == Append(told[c], e)
  <2>1. /\ t \in Seq(Events) /\ Tail(rest[c]) \in Seq(Events)
        /\ t \o Tail(rest[c]) = told[c] \o rest[c]
        /\ Len(told[c]) < Len(told[c] \o rest[c]) /\ (told[c] \o rest[c])[Len(told[c]) + 1] = e
    <3>1. told[c] \in Seq(Events) /\ rest[c] \in Seq(Events) /\ rest[c] # <<>>
      BY <1>0, <1>1 DEF Replay
    <3>. QED  BY <3>1, HeadMoves
  <2>2. /\ mode' = [mode EXCEPT ![c] = m] /\ told' = [told EXCEPT ![c] = t]
        /\ mode'[c] = m
    BY <1>1 DEF Replay, Yield, StreamInv, TypeOK
  <2>3. /\ rest' = [rest EXCEPT ![c] = IF m = "open" THEN Tail(rest[c]) ELSE <<>>]
        /\ queue' = [queue EXCEPT ![c] = IF m = "open" THEN queue[c] ELSE <<>>]
    BY <1>1, <2>2 DEF Replay
  <2>4. Len(told[c]) < Len(history) /\ history[Len(told[c]) + 1] = e
    <3> DEFINE a == told[c] \o rest[c]
    <3>1. /\ a \in Seq(Events) /\ Len(told[c]) \in Nat /\ Len(a) \in Nat
          /\ Len(told[c]) < Len(a) /\ a[Len(told[c]) + 1] = e
      BY <1>0, <2>1, ConcatProperties, LenProperties
    <3>2. a \o queue[c] = history
      BY <1>0
    <3> HIDE DEF a, e
    <3>3. /\ Len(history) = Len(a) + Len(queue[c]) /\ Len(queue[c]) \in Nat
          /\ \A i \in 1..Len(a) + Len(queue[c]) : history[i] = IF i <= Len(a) THEN a[i] ELSE queue[c][i - Len(a)]
      <4>1. queue[c] \in Seq(Events)
        BY <1>0
      <4>2. /\ Len(a \o queue[c]) = Len(a) + Len(queue[c])
            /\ \A i \in 1..Len(a) + Len(queue[c]) :
                 (a \o queue[c])[i] = IF i <= Len(a) THEN a[i] ELSE queue[c][i - Len(a)]
        BY <3>1, <4>1, ConcatProperties
      <4>. QED  BY <3>2, <4>1, <4>2, LenProperties
    <3>. QED  BY <3>1, <3>3
  <2>5. StreamInv'
    <3>1. m \in {"open", "closed"}
      OBVIOUS
    <3>2. m = "open" => t \o Tail(rest[c]) \o queue[c] = history
      BY <1>0, <2>1
    <3> HIDE DEF m, t
    <3>3. CASE m = "open"
      BY <1>0, <2>1, <2>2, <2>3, <3>2, <3>3, ClientStep
    <3>4. CASE m = "closed"
      BY <1>0, <2>1, <2>2, <2>3, <3>4, ClientStep
    <3>. QED  BY <3>1, <3>3, <3>4
  <2>. QED  BY <1>0, <2>2, <2>4, <2>5 DEF Aside
<1>2. CASE Follow(c)
  <2> DEFINE e == Head(queue[c])
             m == IF EndsStream(e) THEN "closed" ELSE "open"
             t == Append(told[c], e)
  <2>0. rest[c] = <<>> /\ told[c] \o queue[c] = history
    BY <1>0, <1>2, ConcatEmptySeq DEF Follow
  <2>1. /\ t \in Seq(Events) /\ Tail(queue[c]) \in Seq(Events)
        /\ t \o Tail(queue[c]) = history
        /\ Len(told[c]) < Len(history) /\ history[Len(told[c]) + 1] = e
    <3>1. told[c] \in Seq(Events) /\ queue[c] \in Seq(Events) /\ queue[c] # <<>>
      BY <1>0, <1>2 DEF Follow
    <3>. QED  BY <2>0, <3>1, HeadMoves
  <2>2. /\ mode' = [mode EXCEPT ![c] = m] /\ told' = [told EXCEPT ![c] = t]
        /\ mode'[c] = m
    BY <1>2 DEF Follow, Yield, StreamInv, TypeOK
  <2>3. /\ rest' = [rest EXCEPT ![c] = <<>>]
        /\ queue' = [queue EXCEPT ![c] = IF m = "open" THEN Tail(queue[c]) ELSE <<>>]
    BY <1>0, <1>2, <2>0, <2>2 DEF Follow
  <2>4. t \o <<>> = t
    BY <2>1, ConcatEmptySeq
  <2>5. StreamInv'
    <3>1. m \in {"open", "closed"}
      OBVIOUS
    <3> HIDE DEF m, t
    <3>2. CASE m = "open"
      BY <1>0, <2>1, <2>2, <2>3, <2>4, <3>2, ClientStep
    <3>3. CASE m = "closed"
      BY <1>0, <2>1, <2>2, <2>3, <3>3, ClientStep
    <3>. QED  BY <3>1, <3>2, <3>3
  <2>. QED  BY <1>0, <2>1, <2>2, <2>5 DEF Aside
<1>. QED  BY <1>1, <1>2

LEMMA StreamInvStep == StreamInv /\ [Next]_vars => StreamInv'
<1> SUFFICES ASSUME StreamInv, [Next]_vars PROVE StreamInv'
  OBVIOUS
<1>1. CASE Next
  BY <1>1, Publishing, QuietStep, ComeAndGo, Telling DEF Next
<1>2. CASE UNCHANGED vars
  BY <1>2, QuietStep
<1>. QED  BY <1>1, <1>2

LEMMA StreamInvHolds == Spec => []StreamInv
  BY StreamInvInit, StreamInvStep, PTL DEF Spec

\* Requests, agent and broker keep the variables in their types.
THEOREM TypeCorrect == Spec => []TypeOK
<1>1. StreamInv => TypeOK
  BY DEF StreamInv
<1>. QED  BY <1>1, StreamInvHolds, PTL

\* Whenever between two events of the run a client attaches, the snapshot
\* and the queue that RunEventBroker.subscribe makes without suspending hold
\* together what was and will be published, each event once.
THEOREM NothingIsLost == Spec => []NothingLostOrRepeated
<1>1. StreamInv => NothingLostOrRepeated
  BY DEF StreamInv
<1>. QED  BY <1>1, StreamInvHolds, PTL

------------------------------------------------------------------------------
(***************************************************************************)
(* The refinement                                                          *)
(***************************************************************************)

OpenClients == {c \in Clients : mode[c] = "open"}

LEMMA StreamInitMaps == Init => Stream!Init
  BY DEF Init, Stream!Init

\* A step of the run and its clients is one of the abstract stream, or none.
LEMMA StreamStepMaps == StreamInv /\ [Next]_vars => [Stream!Next]_Stream!vars
<1> SUFFICES ASSUME StreamInv, [Next]_vars PROVE [Stream!Next]_Stream!vars
  OBVIOUS
<1>0. /\ history \in Seq(Events) /\ mode \in [Clients -> {"away", "attaching", "open", "closed", "answered"}]
      /\ told \in [Clients -> Seq(Events)]
  BY DEF StreamInv, TypeOK
<1>1. ASSUME Launch \/ AgentStep \/ \E l \in Launches : PublishPersisted(l)
      PROVE  Stream!Publish
  <2>1. PICK events \in Seq(Events) : history' = history \o events /\ history' \in Seq(Events)
    BY <1>1, Publishing
  <2>2. UNCHANGED <<mode, told>>
    BY <1>1, Publishing
  <2>3. Len(history') = Len(history) + Len(events) /\ Len(history) \in Nat /\ Len(events) \in Nat
    BY <1>0, <2>1, ConcatProperties, LenProperties
  <2>4. SubSeq(history', 1, Len(history)) = history
    BY <1>0, <2>1, CutConcat
  <2>. QED  BY <2>1, <2>2, <2>3, <2>4 DEF Stream!Publish
<1>2. ASSUME \/ CancelRun \/ \E l \in Launches : Settle(l) \/ SettleRolledBack(l)
             \/ UNCHANGED vars
      PROVE  UNCHANGED Stream!vars
  BY <1>2, QuietStep DEF clientVars, Stream!vars
<1>3. ASSUME NEW c \in Clients, GetEvents(c)
      PROVE  UNCHANGED Stream!vars
  <2>1. \A d \in Clients : mode'[d] = "open" <=> mode[d] = "open"
    BY <1>0, <1>3 DEF GetEvents, Connect
  <2>. QED  BY <1>3, <2>1 DEF GetEvents, Connect, Stream!vars
<1>4. ASSUME NEW c \in Clients, Attach(c)
      PROVE  Stream!Attach(c)
  <2>1. OpenClients' = OpenClients \cup {c}
    BY <1>0, <1>4 DEF Attach, OpenClients
  <2>. QED  BY <1>4, <2>1 DEF Attach, OpenClients, Stream!Attach
<1>5. ASSUME NEW c \in Clients, Leave(c)
      PROVE  Stream!Detach(c)
  <2>1. OpenClients' = OpenClients \ {c}
    BY <1>0, <1>5 DEF Leave, OpenClients
  <2>. QED  BY <1>5, <2>1 DEF Leave, OpenClients, Stream!Detach
<1>6. ASSUME NEW c \in Clients, Replay(c) \/ Follow(c)
      PROVE  Stream!Tell(c)
  <2>1. /\ mode[c] = "open" /\ Len(told[c]) < Len(history) /\ history' = history
        /\ told' = [told EXCEPT ![c] = Append(told[c], history[Len(told[c]) + 1])]
    BY <1>6, Telling
  <2>2. PICK m \in {"open", "closed"} : mode' = [mode EXCEPT ![c] = m]
    BY <1>6, Telling
  <2>3. c \in OpenClients /\ OpenClients' \in {OpenClients, OpenClients \ {c}}
    BY <1>0, <2>1, <2>2 DEF OpenClients
  <2>. QED  BY <2>1, <2>3 DEF OpenClients, Stream!Tell
<1>. QED
  BY <1>1, <1>2, <1>3, <1>4, <1>5, <1>6 DEF Next, Stream!Next

\* The broker, the agent's publisher and the endpoint together implement the
\* stream that tells each client all events from the first, in order, once.
THEOREM StreamRefines == Spec => ImplementsEventStream
<1>. QED
  BY StreamInitMaps, StreamStepMaps, StreamInvHolds, PTL DEF Spec, Stream!Spec, ImplementsEventStream

------------------------------------------------------------------------------
(***************************************************************************)
(* The end of the first stream                                             *)
(***************************************************************************)

\* As long as the run has been launched once, the event that ends a stream
\* is in the history only with the row it was made from.
FirstInv ==
  Launched \subseteq {1} =>
    /\ \A l \in Launched : exec[l] \in Settled => row = exec[l]
    /\ \A i \in 1..Len(history) : EndsStream(history[i]) =>
         /\ row \in Settled /\ history[i] = Persisted(row)
         /\ \E l \in Launched : exec[l] = "done"

LEMMA AgentEndsNoStream ==
  ASSUME NEW e \in Agent!Event
  PROVE  ~ EndsStream(e)
<1>1. \A i \in 1..4 : Agent!Hooks[i] \in {"planning", "executing", "self_evaluating", "reporting"}
  <2>1. 1..4 = {1, 2, 3, 4}
    OBVIOUS
  <2>. QED  BY <2>1 DEF Agent!Hooks
<1>2. "persisted" \notin {"queued", "heartbeat"} \cup Agent!Active \cup Agent!Ended
  BY <1>1 DEF Agent!HookPhases, Agent!Active, Agent!Ended
<1>. QED  BY <1>2 DEF EndsStream, Agent!Event

LEMMA FirstInvInit == Init => FirstInv
<1> SUFFICES ASSUME Init PROVE FirstInv
  OBVIOUS
<1>1. Launched = {} /\ 1..Len(history) = {}
  BY DEF Init, Launched
<1>. QED  BY <1>1 DEF FirstInv

\* Launching makes a launch of the first that there is not yet.
LEMMA LaunchIsNext ==
  ASSUME StreamInv, Launch, Launched' \subseteq {1}
  PROVE  Launched = {} /\ Launched' = {1} /\ exec'[1] = "running"
<1> DEFINE New == Launches \ Launched
           l == CHOOSE x \in New : \A y \in New : x <= y
<1>1. exec' = [exec EXCEPT ![l] = "running"] /\ Launched # Launches
  BY DEF Launch
<1>2. Launches \subseteq Nat /\ Launched \subseteq Launches /\ \A x \in Launches : 1 <= x
  BY LaunchesAreCounted DEF Launches, Launched
<1>3. exec \in [Launches -> {"none", "running", "lost", "done"} \cup Settled]
  BY DEF StreamInv, TypeOK
<1>4. Launched \subseteq Launched'
  <2>1. \A x \in Launches : exec[x] # "none" => exec'[x] # "none"
    BY <1>1, <1>3
  <2>. QED  BY <2>1 DEF Launched
<1>5. \E x \in New : \A y \in New : x <= y
  <2>1. PICK m : m \in New
    BY <1>1, <1>2
  <2>2. CASE Launched = {}
    <3>1. 1 \in Launches
      BY <2>1, LaunchesAreCounted DEF Launches
    <3>. QED  BY <1>2, <2>2, <3>1
  <2>3. CASE Launched = {1}
    <3>1. m \in Launches /\ m # 1
      BY <2>1, <2>3
    <3>2. 2 \in Launches /\ \A y \in Launches : y # 1 => 2 <= y
      BY <3>1, LaunchesAreCounted DEF Launches
    <3>3. 2 \in New /\ \A y \in New : 2 <= y
      BY <2>3, <3>2
    <3>. QED  BY <3>3
  <2>. QED  BY <1>4, <2>2, <2>3
<1>6. l \in New
  BY <1>5
<1> HIDE DEF l
<1>7. l \in Launched' /\ exec'[l] = "running"
  BY <1>1, <1>3, <1>6 DEF Launched
<1>8. l = 1 /\ l \notin Launched
  BY <1>6, <1>7
<1>. QED  BY <1>4, <1>7, <1>8

\* A step that publishes nothing that ends a stream, and no row.
LEMMA FirstKept ==
  ASSUME StreamInv, FirstInv, Launched' = Launched, UNCHANGED <<row, exec>>,
         NEW s \in Seq(Events), history' = history \o s,
         \A i \in 1..Len(s) : ~ EndsStream(s[i])
  PROVE  FirstInv'
<1>1. history \in Seq(Events)
  BY DEF StreamInv, TypeOK
<1>2. /\ Len(history') = Len(history) + Len(s) /\ Len(history) \in Nat /\ Len(s) \in Nat
      /\ \A i \in 1..Len(history) + Len(s) :
           history'[i] = IF i <= Len(history) THEN history[i] ELSE s[i - Len(history)]
  BY <1>1, ConcatProperties, LenProperties
<1>3. ASSUME NEW i \in 1..Len(history'), EndsStream(history'[i])
      PROVE  i \in 1..Len(history) /\ history'[i] = history[i]
  BY <1>2, <1>3
<1>. QED  BY <1>3 DEF FirstInv

LEMMA FirstStep ==
  ASSUME StreamInv, FirstInv, [Next]_vars
  PROVE  FirstInv'
<1>0. /\ history \in Seq(Events) /\ <<>> \in Seq(Events) /\ history \o <<>> = history
      /\ Len(history) \in Nat
      /\ exec \in [Launches -> {"none", "running", "lost", "done"} \cup Settled]
  BY EmptySeq, ConcatEmptySeq, LenProperties DEF StreamInv, TypeOK
<1>1. CASE Launch
  <2> SUFFICES ASSUME Launched' \subseteq {1} PROVE FirstInv'
    BY DEF FirstInv
  <2>1. Launched = {} /\ Launched' = {1} /\ exec'[1] = "running"
    BY <1>1, LaunchIsNext
  <2>2. \A i \in 1..Len(history) : ~ EndsStream(history[i])
    BY <2>1 DEF FirstInv
  <2>3. log' \in Seq(Agent!Event)
    <3>1. Agent!Entry("queued", 1) \in Agent!Event /\ Agent!Entry("planning", 1) \in Agent!Event
      BY KnownTypes, EntryType
    <3>. QED  BY <1>1, <3>1 DEF Launch
  <2>4. log' \in Seq(Events) /\ \A i \in 1..Len(log') : ~ EndsStream(log'[i])
    <3>1. Agent!Event \subseteq Events
      BY DEF Events
    <3>2. \A i \in 1..Len(log') : log'[i] \in Agent!Event
      BY <2>3, ElementOfSeq
    <3>. QED  BY <2>3, <3>1, <3>2, SeqMonotonic, AgentEndsNoStream
  <2>5. history' = history \o log'
    BY <1>1 DEF Launch, Publish
  <2>6. \A i \in 1..Len(history') : ~ EndsStream(history'[i])
    <3>1. /\ Len(history') = Len(history) + Len(log') /\ Len(log') \in Nat
          /\ \A i \in 1..Len(history) + Len(log') :
               history'[i] = IF i <= Len(history) THEN history[i] ELSE log'[i - Len(history)]
      BY <1>0, <2>4, <2>5, ConcatProperties, LenProperties
    <3>. QED  BY <1>0, <2>2, <2>4, <3>1
  <2>7. "running" \notin Settled
    BY DEF Settled
  <2>. QED  BY <2>1, <2>6, <2>7 DEF FirstInv
<1>2. CASE AgentStep
  <2>1. PICK s \in Seq(Agent!Event) : log' = log \o s
    BY <1>2, AgentLogGrows DEF AgentStep, StreamInv
  <2>2. s \in Seq(Events) /\ \A i \in 1..Len(s) : ~ EndsStream(s[i])
    <3>1. Agent!Event \subseteq Events
      BY DEF Events
    <3>2. \A i \in 1..Len(s) : s[i] \in Agent!Event
      BY ElementOfSeq
    <3>. QED  BY <3>1, <3>2, SeqMonotonic, AgentEndsNoStream
  <2>3. SubSeq(log', Len(log) + 1, Len(log')) = s
    BY <2>1, CutConcat DEF StreamInv
  <2>4. history' = history \o s /\ UNCHANGED <<row, exec>>
    BY <1>2, <2>3 DEF AgentStep, Publish
  <2>5. Launched' = Launched
    BY <2>4 DEF Launched
  <2>. QED  BY <2>2, <2>4, <2>5, FirstKept
<1>3. CASE CancelRun \/ UNCHANGED vars
  <2>1. UNCHANGED <<row, exec, history>>
    BY <1>3 DEF CancelRun, vars
  <2>. QED  BY <2>1 DEF FirstInv, Launched
<1>4. ASSUME NEW l \in Launches, Settle(l) \/ SettleRolledBack(l) PROVE FirstInv'
  <2>1. exec[l] = "running" /\ l \in Launched /\ history' = history
    BY <1>4 DEF Settle, SettleRolledBack, Launched
  <2>2. /\ exec'[l] = "lost" \/ exec'[l] = row'
        /\ \A x \in Launches : x # l => exec'[x] = exec[x]
    BY <1>0, <1>4 DEF Settle, SettleRolledBack
  <2>3. Launched \subseteq Launched'
    <3>1. exec'[l] # "none"
      <4>1. CASE Settle(l)
        BY <1>0, <4>1 DEF Settle, SDKToDBStatus, Agent!Ended
      <4>2. CASE SettleRolledBack(l)
        BY <1>0, <4>2 DEF SettleRolledBack
      <4>. QED  BY <1>4, <4>1, <4>2
    <3>. QED  BY <2>2, <3>1 DEF Launched
  <2> SUFFICES ASSUME Launched' \subseteq {1} PROVE FirstInv'
    BY DEF FirstInv
  <2>4. l = 1 /\ Launched = {1} /\ Launched' = {1}
    BY <2>1, <2>3
  <2>5. \A i \in 1..Len(history) : ~ EndsStream(history[i])
    BY <2>1, <2>4 DEF FirstInv
  <2>6. "lost" \notin Settled
    BY DEF Settled
  <2>. QED  BY <2>1, <2>2, <2>4, <2>5, <2>6 DEF FirstInv
<1>5. ASSUME NEW l \in Launches, PublishPersisted(l) PROVE FirstInv'
  <2> DEFINE e == Persisted(exec[l])
  <2>1. /\ exec[l] \in Settled /\ l \in Launched /\ UNCHANGED row
        /\ history' = history \o <<e>> /\ exec' = [exec EXCEPT ![l] = "done"]
    BY <1>5 DEF PublishPersisted, Publish, Launched, Settled
  <2>2. exec'[l] = "done" /\ \A x \in Launches : x # l => exec'[x] = exec[x]
    BY <1>0, <2>1
  <2>3. Launched' = Launched
    BY <1>0, <2>1, <2>2 DEF Launched
  <2> SUFFICES ASSUME Launched \subseteq {1} PROVE FirstInv'
    BY <2>3 DEF FirstInv
  <2>4. l = 1 /\ Launched = {1} /\ row = exec[l] /\ "done" \notin Settled
    BY <2>1 DEF FirstInv, Settled
  <2>5. e \in Events
    BY <2>1 DEF Events, Settled, RunStatus
  <2>6. <<e>> \in Seq(Events) /\ Len(<<e>>) = 1 /\ <<e>>[1] = e
    BY <2>5
  <2>7. e = Persisted(row)
    BY <2>4
  <2> HIDE DEF e
  <2>8. /\ Len(history') = Len(history) + 1
        /\ \A i \in 1..Len(history) : history'[i] = history[i]
        /\ history'[Len(history) + 1] = e
    <3>1. /\ Len(history \o <<e>>) = Len(history) + Len(<<e>>)
          /\ \A i \in 1..Len(history) + Len(<<e>>) :
               (history \o <<e>>)[i] = IF i <= Len(history) THEN history[i] ELSE <<e>>[i - Len(history)]
      BY <1>0, <2>6, ConcatProperties
    <3>. QED  BY <1>0, <2>1, <2>6, <3>1
  <2>9. \A i \in 1..Len(history) : ~ EndsStream(history[i])
    BY <2>1, <2>4 DEF FirstInv, Settled
  <2>10. \A i \in 1..Len(history') : EndsStream(history'[i]) => history'[i] = Persisted(row)
    BY <1>0, <2>7, <2>8, <2>9
  <2>11. row' \in Settled /\ row' = row
    BY <2>1, <2>4
  <2>. QED  BY <2>2, <2>3, <2>4, <2>10, <2>11 DEF FirstInv
<1>6. ASSUME NEW c \in Clients, GetEvents(c) \/ Attach(c) \/ Replay(c) \/ Follow(c) \/ Leave(c)
      PROVE  FirstInv'
  <2>1. UNCHANGED <<row, exec, history>>
    BY <1>6 DEF GetEvents, Connect, Attach, Replay, Follow, Leave
  <2>. QED  BY <2>1 DEF FirstInv, Launched
<1>. QED  BY <1>1, <1>2, <1>3, <1>4, <1>5, <1>6 DEF Next

\* Only the stream itself closes.
LEMMA ClosesOnTelling ==
  ASSUME StreamInv, [Next]_vars, NEW c \in Clients, Closes(c)
  PROVE  Replay(c) \/ Follow(c)
<1>0. mode \in [Clients -> {"away", "attaching", "open", "closed", "answered"}]
      /\ mode[c] = "open" /\ mode'[c] = "closed"
  BY DEF StreamInv, TypeOK, Closes
<1>1. mode' # mode
  BY <1>0
<1>2. CASE \/ Launch \/ AgentStep \/ CancelRun \/ UNCHANGED vars
           \/ \E l \in Launches : Settle(l) \/ SettleRolledBack(l) \/ PublishPersisted(l)
  BY <1>1, <1>2 DEF Launch, AgentStep, CancelRun, vars, Settle, SettleRolledBack, PublishPersisted,
       Publish, clientVars
<1>3. ASSUME NEW d \in Clients, GetEvents(d) \/ Attach(d) \/ Leave(d) PROVE FALSE
  <2>1. PICK m \in {"answered", "attaching", "open", "away"} : mode' = [mode EXCEPT ![d] = m]
    BY <1>3 DEF GetEvents, Connect, Attach, Leave
  <2>. QED  BY <1>0, <2>1
<1>4. ASSUME NEW d \in Clients, d # c, Replay(d) \/ Follow(d) PROVE FALSE
  <2>1. PICK m \in {"open", "closed"} : mode' = [mode EXCEPT ![d] = m]
    BY <1>4, Telling
  <2>. QED  BY <1>0, <1>4, <2>1
<1>. QED  BY <1>2, <1>3, <1>4 DEF Next

\* The first launch's stream ends with agent_run.persisted, when the row is
\* settled, and with the row's own status: _execute_and_persist commits first
\* and publishes then, and nothing else ends a stream.
THEOREM FirstStreamEndsRight == Spec => FirstStreamEndsOnFinalRow
<1>1. ASSUME StreamInv, FirstInv, [Next]_vars, NEW c \in Clients, Closes(c), Launched = {1}
      PROVE  row \in Settled /\ Last(told'[c]) = Persisted(row)
  <2> DEFINE e == history[Len(told[c]) + 1]
  <2>1. Replay(c) \/ Follow(c)
    BY <1>1, ClosesOnTelling
  <2>2. /\ Len(told[c]) < Len(history) /\ EndsStream(e)
        /\ told' = [told EXCEPT ![c] = Append(told[c], e)]
    BY <1>1, <2>1, Telling DEF Closes
  <2>3. told[c] \in Seq(Events) /\ told \in [Clients -> Seq(Events)] /\ history \in Seq(Events)
    BY <1>1 DEF StreamInv, TypeOK
  <2>4. Len(told[c]) \in Nat /\ Len(told[c]) + 1 \in 1..Len(history)
    BY <2>2, <2>3, LenProperties
  <2>5. row \in Settled /\ e = Persisted(row)
    BY <1>1, <2>2, <2>4 DEF FirstInv
  <2>6. e \in Events
    BY <2>3, <2>4, ElementOfSeq
  <2> HIDE DEF e
  <2>7. Last(told'[c]) = e
    <3>1. told'[c] = Append(told[c], e)
      BY <2>2, <2>3
    <3>2. Len(Append(told[c], e)) = Len(told[c]) + 1 /\ Append(told[c], e)[Len(told[c]) + 1] = e
      BY <2>3, <2>6, AppendProperties
    <3>. QED  BY <3>1, <3>2 DEF Last
  <2>. QED  BY <2>5, <2>7
<1>2. StreamInv /\ FirstInv /\ [Next]_vars =>
        [\A c \in Clients : Closes(c) /\ Launched = {1} =>
           row \in Settled /\ Last(told'[c]) = Persisted(row)]_vars
  BY <1>1
<1>3. Spec => []FirstInv
  BY FirstInvInit, FirstStep, StreamInvHolds, PTL DEF Spec
<1>. QED  BY <1>2, <1>3, StreamInvHolds, PTL DEF Spec, FirstStreamEndsOnFinalRow

==============================================================================
