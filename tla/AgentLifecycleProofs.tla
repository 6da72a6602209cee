------------------------ MODULE AgentLifecycleProofs -------------------------
(***************************************************************************)
(* What BaseAgent.run keeps for any retry policy and any number of runs    *)
(* and heartbeats.                                                         *)
(***************************************************************************)
EXTENDS AgentLifecycle, FiniteSetTheorems, TLAPS

LEMMA HooksInOrder ==
  /\ Hooks[1] = "planning" /\ Hooks[2] = "executing"
  /\ Hooks[3] = "self_evaluating" /\ Hooks[4] = "reporting"
  /\ HookPhases = {"planning", "executing", "self_evaluating", "reporting"}
<1>1. /\ Hooks[1] = "planning" /\ Hooks[2] = "executing"
      /\ Hooks[3] = "self_evaluating" /\ Hooks[4] = "reporting"
  BY DEF Hooks
<1>2. 1..4 = {1, 2, 3, 4}
  OBVIOUS
<1>. QED  BY <1>1, <1>2 DEF HookPhases

EventTypes == {"queued", "heartbeat"} \cup Active \cup Ended

\* Publishing one event adds it to the log and goes on to its phase.
LEMMA PublishOne ==
  ASSUME log \in Seq(Event), NEW e \in Event, Publish(<<e>>)
  PROVE  phase' = e.type /\ log' \in Seq(Event)
  BY DEF Publish, Last

LEMMA EntryType ==
  ASSUME NEW type \in EventTypes, NEW n \in Nat
  PROVE  /\ Entry(type, n) \in Event /\ Entry(type, n).type = type /\ Entry(type, n).attempt = n
         /\ \A error \in Errors :
              /\ Failure(type, n, error) \in Event /\ Failure(type, n, error).type = type
              /\ Failure(type, n, error).attempt = n /\ Failure(type, n, error).error = error
  BY DEF Entry, Failure, Event, EventTypes

\* The step of an agent that has published: what it may have done.
Goes(to) ==
  /\ phase' = to
  /\ log' \in Seq(Event)
  /\ UNCHANGED <<token, runs, asked>>

\* A hook that returns leads to the next one, if the run was not cancelled.
LEMMA HookReturnsTo ==
  ASSUME TypeOK, NEW i \in 1..4, HookReturns(i)
  PROVE  /\ UNCHANGED attempt
         /\ phase \in HookPhases
         /\ \/ phase = "reporting" /\ Goes("completed")
            \/ phase # "reporting" /\ token /\ Goes("cancelled")
            \/ phase # "reporting" /\ ~ token /\ Goes(Hooks[i + 1]) /\ i \in 1..3
<1> DEFINE type == IF i = 4 THEN "completed" ELSE IF token THEN "cancelled" ELSE Hooks[i + 1]
<1>1. attempt \in Nat /\ log \in Seq(Event) /\ token \in BOOLEAN
  BY MaxAttemptsIsPositive DEF TypeOK
<1>2. phase = Hooks[i] /\ Publish(<<Entry(type, attempt)>>) /\ UNCHANGED <<attempt, token, runs, asked>>
  BY DEF HookReturns
<1>3. type \in EventTypes
  BY HooksInOrder DEF EventTypes, Active, Ended
<1>4. Goes(type)
  <2> HIDE DEF type
  <2>. QED  BY <1>1, <1>2, <1>3, EntryType, PublishOne DEF Goes
<1>5. phase \in HookPhases /\ (phase = "reporting" <=> i = 4)
  BY <1>2, HooksInOrder
<1>. QED  BY <1>2, <1>4, <1>5

\* A hook that raises, and what the run makes of it.
LEMMA HookRaisesTo ==
  ASSUME TypeOK, NEW error \in Errors, HookRaises(error)
  PROVE  /\ phase \in HookPhases /\ attempt' \in 1..MaxAttempts
         /\ Goes("retrying") \/ Goes("failed")
<1>1. attempt \in Nat /\ attempt \in 1..MaxAttempts /\ log \in Seq(Event)
  BY MaxAttemptsIsPositive DEF TypeOK
<1>2. "retrying" \in EventTypes /\ "failed" \in EventTypes
  BY DEF EventTypes, Active, Ended
<1>3. UNCHANGED <<token, runs, asked>> /\ phase \in HookPhases
  BY DEF HookRaises
<1>4. CASE /\ attempt < MaxAttempts /\ attempt' = attempt + 1
           /\ Publish(<<Failure("retrying", attempt, error)>>)
  BY <1>1, <1>2, <1>3, <1>4, EntryType, PublishOne, MaxAttemptsIsPositive DEF Goes
<1>5. CASE UNCHANGED attempt /\ Publish(<<Failure("failed", attempt, error)>>)
  BY <1>1, <1>2, <1>3, <1>5, EntryType, PublishOne DEF Goes
<1>. QED  BY <1>3, <1>4, <1>5 DEF HookRaises

\* execute() that sees the token, and the end of the backoff.
LEMMA TokenSeen ==
  ASSUME TypeOK, ExecuteObservesCancel \/ BackoffEnds
  PROVE  /\ UNCHANGED attempt
         /\ \/ phase \in {"executing", "retrying"} /\ token /\ Goes("cancelled")
            \/ phase = "retrying" /\ ~ token /\ Goes("planning")
<1>1. attempt \in Nat /\ log \in Seq(Event) /\ token \in BOOLEAN
  BY MaxAttemptsIsPositive DEF TypeOK
<1>2. "cancelled" \in EventTypes /\ "planning" \in EventTypes
  BY HooksInOrder DEF EventTypes, Active, Ended
<1>3. UNCHANGED <<attempt, token, runs, asked>>
  BY DEF ExecuteObservesCancel, BackoffEnds
<1>4. CASE token /\ phase \in {"executing", "retrying"} /\ Publish(<<Entry("cancelled", attempt)>>)
  BY <1>1, <1>2, <1>3, <1>4, EntryType, PublishOne DEF Goes
<1>5. CASE ~ token /\ phase = "retrying" /\ Publish(<<Entry("planning", attempt)>>)
  BY <1>1, <1>2, <1>3, <1>5, EntryType, PublishOne DEF Goes
<1>. QED  BY <1>1, <1>4, <1>5 DEF ExecuteObservesCancel, BackoffEnds

\* All that the agent does by itself, in one list.
LEMMA ProgressGoes ==
  ASSUME TypeOK, Progress
  PROVE  /\ attempt' \in 1..MaxAttempts
         /\ phase \in Active
         /\ \/ phase = "reporting" /\ Goes("completed")
            \/ phase # "reporting" /\ token /\ Goes("cancelled")
            \/ ~ token /\ \E to \in HookPhases : Goes(to)
            \/ phase \in HookPhases /\ (Goes("retrying") \/ Goes("failed"))
<1>0. attempt \in 1..MaxAttempts /\ HookPhases \subseteq Active /\ "retrying" \in Active
  BY DEF TypeOK, Active
<1>1. ASSUME NEW i \in 1..4, HookReturns(i)
      PROVE  /\ UNCHANGED attempt /\ phase \in HookPhases
             /\ \/ phase = "reporting" /\ Goes("completed")
                \/ phase # "reporting" /\ token /\ Goes("cancelled")
                \/ ~ token /\ \E to \in HookPhases : Goes(to)
  <2>1. i \in 1..3 => Hooks[i + 1] \in HookPhases
    BY HooksInOrder
  <2>. QED  BY <1>1, <2>1, HookReturnsTo
<1>2. CASE ExecuteObservesCancel \/ BackoffEnds
  <2>1. "planning" \in HookPhases /\ "executing" \in HookPhases
    BY HooksInOrder
  <2>. QED  BY <1>0, <1>2, <2>1, TokenSeen
<1>3. CASE \E error \in Errors : HookRaises(error)
  BY <1>0, <1>3, HookRaisesTo
<1>. QED  BY <1>0, <1>1, <1>2, <1>3 DEF Progress

\* A run begins, a token is set, the heartbeat beats.
LEMMA OthersKeepType ==
  ASSUME TypeOK, Run \/ Cancel \/ Heartbeat
  PROVE  TypeOK'
<1>1. "queued" \in EventTypes /\ "planning" \in EventTypes /\ "heartbeat" \in EventTypes
  BY HooksInOrder DEF EventTypes, Active
<1>2. attempt \in Nat /\ 1 \in 1..MaxAttempts /\ "planning" \in Active
  BY MaxAttemptsIsPositive, HooksInOrder DEF TypeOK, Active
<1>3. CASE Run
  <2>1. Entry("queued", 1) \in Event /\ Entry("planning", 1) \in Event
    BY <1>1, EntryType
  <2>2. log' \in Seq(Event) /\ runs' \in Nat
    BY <1>3, <2>1 DEF Run, TypeOK
  <2>. QED  BY <1>2, <1>3, <2>2 DEF Run, TypeOK
<1>4. CASE Cancel
  BY <1>4 DEF Cancel, TypeOK
<1>5. CASE Heartbeat
  <2>1. Entry("heartbeat", attempt) \in Event
    BY <1>1, <1>2, EntryType
  <2>. QED  BY <1>5, <2>1 DEF Heartbeat, TypeOK
<1>. QED  BY <1>3, <1>4, <1>5

\* Every step of the agent and of those who hold it keeps the variables in
\* their types.
THEOREM TypeCorrect == Spec => []TypeOK
<1>1. Init => TypeOK
  <2>1. 1 \in 1..MaxAttempts /\ <<>> \in Seq(Event)
    BY MaxAttemptsIsPositive
  <2> SUFFICES ASSUME Init PROVE TypeOK
    OBVIOUS
  <2>2. log \in Seq(Event)
    BY <2>1 DEF Init
  <2>3. attempt \in 1..MaxAttempts /\ runs \in Nat /\ token \in BOOLEAN
    BY <2>1 DEF Init
  <2>. QED  BY <2>2, <2>3 DEF Init, TypeOK
<1>2. TypeOK /\ [Next]_vars => TypeOK'
  <2> SUFFICES ASSUME TypeOK, [Next]_vars PROVE TypeOK'
    OBVIOUS
  <2>1. CASE Progress
    <3>1. {"completed", "cancelled", "failed"} = Ended /\ HookPhases \cup {"retrying"} = Active
      BY DEF Ended, Active
    <3>2. /\ phase' \in Active \cup Ended /\ log' \in Seq(Event)
          /\ UNCHANGED <<token, runs, asked>> /\ attempt' \in 1..MaxAttempts
      BY <2>1, <3>1, ProgressGoes DEF Goes
    <3>. QED  BY <3>2 DEF TypeOK
  <2>2. CASE UNCHANGED vars
    BY <2>2 DEF vars, TypeOK
  <2>. QED  BY <2>1, <2>2, OthersKeepType DEF Next
<1>. QED  BY <1>1, <1>2, PTL DEF Spec

------------------------------------------------------------------------------

\* A run has a token set if it was asked to stop; what was asked of it while
\* it was active is what it is stopped for.
Asked ==
  /\ ~ token => asked = NeverAsked
  /\ token /\ phase \in Active => asked \in Active
  /\ phase = "reporting" => asked \in {NeverAsked, "reporting"}
  /\ phase = "cancelled" => token

\* A cancelled run does not complete, but for one cancelled so late that
\* report() had begun; and nothing else ends as cancelled: raise_if_cancelled
\* stands before each hook.
THEOREM CancelsHonoured == Spec => []CancelHonoured
<1>0. /\ Active = {"planning", "executing", "self_evaluating", "reporting", "retrying"}
      /\ HookPhases \subseteq Active
  BY HooksInOrder DEF Active
<1>1. Init => Asked /\ CancelHonoured
  BY <1>0 DEF Init, Asked, CancelHonoured
<1>2. TypeOK /\ Asked /\ CancelHonoured /\ [Next]_vars => Asked' /\ CancelHonoured'
  <2> SUFFICES ASSUME TypeOK, Asked, CancelHonoured, [Next]_vars PROVE Asked' /\ CancelHonoured'
    OBVIOUS
  <2>1. CASE Run
    BY <1>0, <2>1 DEF Run, Asked, CancelHonoured
  <2>2. CASE Cancel
    BY <1>0, <2>2 DEF Cancel, Asked, CancelHonoured
  <2>3. CASE Progress
    <3>1. CASE phase = "reporting" /\ Goes("completed")
      BY <1>0, <3>1 DEF Goes, Asked, CancelHonoured
    <3>2. CASE phase \in Active /\ token /\ Goes("cancelled")
      BY <1>0, <3>2 DEF Goes, Asked, CancelHonoured
    <3>3. CASE ~ token /\ \E to \in HookPhases : Goes(to)
      BY <1>0, <3>3 DEF Goes, Asked, CancelHonoured
    <3>4. CASE phase \in HookPhases /\ (Goes("retrying") \/ Goes("failed"))
      BY <1>0, <3>4 DEF Goes, Asked, CancelHonoured
    <3>. QED  BY <2>3, <3>1, <3>2, <3>3, <3>4, ProgressGoes
  <2>4. CASE Heartbeat
    BY <2>4 DEF Heartbeat, Asked, CancelHonoured
  <2>5. CASE UNCHANGED vars
    BY <2>5 DEF vars, Asked, CancelHonoured
  <2>. QED  BY <2>1, <2>2, <2>3, <2>4, <2>5 DEF Next
<1>. QED  BY <1>1, <1>2, TypeCorrect, PTL DEF Spec

\* The token is looked at before every hook, in every attempt.
THEOREM HooksStop == Spec => NoHookAfterCancel
<1>1. TypeOK /\ [Next]_vars
      => [token /\ token' /\ phase' \in HookPhases => phase' = phase]_vars
  <2> SUFFICES ASSUME TypeOK, Next, token, token', phase' \in HookPhases
               PROVE  phase' = phase
    OBVIOUS
  <2>1. CASE Progress
    <3>1. {"completed", "cancelled", "failed", "retrying"} \cap HookPhases = {}
      BY HooksInOrder
    <3>. QED  BY <2>1, <3>1, ProgressGoes DEF Goes
  <2>2. CASE Run \/ Cancel \/ Heartbeat
    BY <2>2 DEF Run, Cancel, Heartbeat
  <2>. QED  BY <2>1, <2>2 DEF Next
<1>. QED  BY <1>1, TypeCorrect, PTL DEF Spec, NoHookAfterCancel

------------------------------------------------------------------------------
(***************************************************************************)
(* The log                                                                 *)
(***************************************************************************)

LEMMA StepsInOrder ==
  /\ Steps[1] = "planning" /\ Steps[2] = "executing" /\ Steps[3] = "self_evaluating"
  /\ Steps[4] = "reporting" /\ Steps[5] = "completed"
  /\ \A k \in 1..4 : Steps[k] = Hooks[k]
  /\ \A k \in 1..5 : Steps[k] # "heartbeat"
  BY DEF Steps, Hooks

\* What a step that publishes one event does to the log.
Adds(e) ==
  /\ log' \in Seq(Event)
  /\ Len(log') = Len(log) + 1
  /\ log'[Len(log) + 1] = e
  /\ \A i \in 1..Len(log) : log'[i] = log[i]

LEMMA PublishAdds ==
  ASSUME log \in Seq(Event), NEW e \in Event, Publish(<<e>>)
  PROVE  phase' = e.type /\ Adds(e)
  BY DEF Publish, Last, Adds

\* The event that the agent publishes next, and what it says about the step.
Says(e) ==
  /\ Adds(e) /\ phase' = e.type /\ e.attempt = attempt
  /\ \/ \E k \in 1..4 : phase = Hooks[k] /\ e.type = Steps[k + 1] /\ UNCHANGED attempt
     \/ phase = "retrying" /\ e.type = "planning" /\ UNCHANGED attempt
     \/ phase \in Active /\ e.type = "cancelled" /\ UNCHANGED attempt
     \/ /\ phase \in HookPhases /\ e.type = "failed" /\ UNCHANGED attempt
        /\ e.error = "terminal" \/ attempt = MaxAttempts
     \/ /\ phase \in HookPhases /\ e.type = "retrying" /\ attempt' = attempt + 1
        /\ e.error = "retryable" /\ attempt < MaxAttempts

LEMMA ProgressSays ==
  ASSUME TypeOK, Progress
  PROVE  \E e \in Event : Says(e)
<1>1. attempt \in Nat /\ log \in Seq(Event) /\ token \in BOOLEAN
  BY MaxAttemptsIsPositive DEF TypeOK
<1>2. /\ "completed" \in EventTypes /\ "cancelled" \in EventTypes /\ "failed" \in EventTypes
      /\ "retrying" \in EventTypes /\ \A k \in 1..4 : Hooks[k] \in EventTypes /\ Hooks[k] \in Active
  BY HooksInOrder DEF EventTypes, Active, Ended
<1>3. ASSUME NEW k \in 1..4, HookReturns(k) PROVE \E e \in Event : Says(e)
  <2> DEFINE type == IF k = 4 THEN "completed" ELSE IF token THEN "cancelled" ELSE Hooks[k + 1]
             e == Entry(type, attempt)
  <2>1. type \in EventTypes /\ (type = Steps[k + 1] \/ type = "cancelled")
    BY <1>2, StepsInOrder
  <2>2. phase = Hooks[k] /\ Publish(<<e>>) /\ UNCHANGED attempt
    BY <1>3 DEF HookReturns
  <2> HIDE DEF type
  <2>3. e \in Event /\ e.type = type /\ e.attempt = attempt
    BY <1>1, <2>1, EntryType
  <2> HIDE DEF e
  <2>4. phase' = e.type /\ Adds(e)
    BY <1>1, <2>2, <2>3, PublishAdds
  <2>5. phase \in Active
    BY <1>2, <2>2
  <2>. QED  BY <2>1, <2>2, <2>3, <2>4, <2>5 DEF Says
<1>4. ASSUME ExecuteObservesCancel \/ BackoffEnds PROVE \E e \in Event : Says(e)
  <2> DEFINE type == IF token THEN "cancelled" ELSE "planning"
             e == Entry(type, attempt)
  <2>1. type \in EventTypes /\ type \in {"cancelled", "planning"}
    BY <1>2, HooksInOrder
  <2>2. /\ phase \in Active /\ Publish(<<e>>) /\ UNCHANGED attempt
        /\ type = "planning" => phase = "retrying"
    BY <1>4, HooksInOrder DEF ExecuteObservesCancel, BackoffEnds, Active
  <2> HIDE DEF type
  <2>3. e \in Event /\ e.type = type /\ e.attempt = attempt
    BY <1>1, <2>1, EntryType
  <2> HIDE DEF e
  <2>4. phase' = e.type /\ Adds(e)
    BY <1>1, <2>2, <2>3, PublishAdds
  <2>. QED  BY <2>1, <2>2, <2>3, <2>4 DEF Says
<1>5. ASSUME NEW error \in Errors, HookRaises(error) PROVE \E e \in Event : Says(e)
  <2>1. CASE /\ error = "retryable" /\ attempt < MaxAttempts /\ attempt' = attempt + 1
             /\ Publish(<<Failure("retrying", attempt, error)>>)
    <3> DEFINE e == Failure("retrying", attempt, error)
    <3>1. e \in Event /\ e.type = "retrying" /\ e.attempt = attempt /\ e.error = error
      BY <1>1, <1>2, EntryType
    <3>2. Publish(<<e>>)
      BY <2>1
    <3> HIDE DEF e
    <3>3. phase' = e.type /\ Adds(e)
      BY <1>1, <3>1, <3>2, PublishAdds
    <3>. QED  BY <1>5, <2>1, <3>1, <3>3 DEF Says, HookRaises
  <2>2. CASE /\ error = "terminal" \/ attempt = MaxAttempts
             /\ UNCHANGED attempt
             /\ Publish(<<Failure("failed", attempt, error)>>)
    <3> DEFINE e == Failure("failed", attempt, error)
    <3>1. e \in Event /\ e.type = "failed" /\ e.attempt = attempt /\ e.error = error
      BY <1>1, <1>2, EntryType
    <3>2. Publish(<<e>>)
      BY <2>2
    <3> HIDE DEF e
    <3>3. phase' = e.type /\ Adds(e)
      BY <1>1, <3>1, <3>2, PublishAdds
    <3>. QED  BY <1>5, <2>2, <3>1, <3>3 DEF Says, HookRaises
  <2>. QED  BY <1>5, <2>1, <2>2 DEF HookRaises
<1>. QED  BY <1>3, <1>4, <1>5 DEF Progress

LEMMA HeartbeatAdds ==
  ASSUME TypeOK, Heartbeat
  PROVE  \E e \in Event : Adds(e) /\ e.type = "heartbeat" /\ e.attempt = attempt
<1> DEFINE e == Entry("heartbeat", attempt)
<1>1. log \in Seq(Event) /\ attempt \in Nat
  BY MaxAttemptsIsPositive DEF TypeOK
<1>2. e \in Event /\ e.type = "heartbeat" /\ e.attempt = attempt
  BY <1>1, EntryType DEF EventTypes
<1>3. log' = Append(log, e)
  BY DEF Heartbeat
<1> HIDE DEF e
<1>. QED  BY <1>1, <1>2, <1>3 DEF Adds

\* The two events with which a run begins.
LEMMA RunAdds ==
  ASSUME Run
  PROVE  /\ log' \in Seq(Event) /\ Len(log') = 2
         /\ log'[1].type = "queued" /\ log'[2].type = "planning"
         /\ log'[1].attempt = 1 /\ log'[2].attempt = 1
<1>1. "queued" \in EventTypes /\ "planning" \in EventTypes
  BY HooksInOrder DEF EventTypes, Active
<1>. QED  BY <1>1, EntryType DEF Run

------------------------------------------------------------------------------

\* The log as far as it goes: its end is the phase, its last attempt is the
\* current one, but for the event that announces the next.
StoryInv ==
  /\ phase # "created" => Len(log) > 0
  /\ \A i \in 1..Len(log) : log[i].type \in Ended => i = Len(log) /\ phase = log[i].type
  /\ phase \in Ended => log[Len(log)].type = phase
  /\ \A i \in 1..Len(log) : i > 1 =>
       log[i].attempt \in {log[i - 1].attempt, log[i - 1].attempt + 1}
  /\ Len(log) > 0 =>
       \/ attempt = log[Len(log)].attempt
       \/ phase = "retrying" /\ attempt = log[Len(log)].attempt + 1

RanInv == \A k \in 1..5 : phase = Steps[k] => Ran(k)

LEMMA StoryFromGrows ==
  ASSUME log \in Seq(Event), NEW e \in Event, Adds(e), NEW i \in 1..Len(log)
  PROVE  /\ IsFiniteSet(StoryFrom(i)) /\ Cardinality(StoryFrom(i)) \in Nat
         /\ Cardinality(StoryFrom(i)') = Cardinality(StoryFrom(i)) + (IF e.type = "heartbeat" THEN 0 ELSE 1)
<1>1. Len(log) \in Nat /\ StoryFrom(i) \subseteq i..Len(log) /\ Len(log) + 1 \notin StoryFrom(i)
  BY DEF StoryFrom
<1>2. IsFiniteSet(i..Len(log))
  BY <1>1, FS_Interval
<1>3. IsFiniteSet(StoryFrom(i)) /\ Cardinality(StoryFrom(i)) \in Nat
  BY <1>1, <1>2, FS_Subset, FS_CardinalityType
<1>4. StoryFrom(i)' = IF e.type = "heartbeat" THEN StoryFrom(i) ELSE StoryFrom(i) \cup {Len(log) + 1}
  <2>1. PICK n \in Nat : n = Len(log)
    BY <1>1
  <2>2. Len(log') = n + 1 /\ log'[n + 1] = e /\ \A j \in i..n : log'[j] = log[j]
    BY <2>1 DEF Adds
  <2>3. StoryFrom(i)' = {j \in i..(n + 1) : log'[j].type # "heartbeat"}
    BY <2>2 DEF StoryFrom
  <2>4. StoryFrom(i) = {j \in i..n : log[j].type # "heartbeat"}
    BY <2>1 DEF StoryFrom
  <2>5. ASSUME NEW j
        PROVE  j \in StoryFrom(i)' <=> j \in StoryFrom(i) \/ (j = n + 1 /\ e.type # "heartbeat")
    <3>1. CASE j = n + 1
      BY <2>1, <2>2, <2>3, <2>4, <3>1
    <3>2. CASE j # n + 1
      BY <2>1, <2>2, <2>3, <2>4, <3>2
    <3>. QED  BY <3>1, <3>2
  <2>. QED  BY <2>1, <2>5
<1>5. Cardinality(StoryFrom(i) \cup {Len(log) + 1}) = Cardinality(StoryFrom(i)) + 1
  BY <1>1, <1>3, FS_AddElement
<1>6. CASE e.type = "heartbeat"
  BY <1>3, <1>4, <1>6
<1>7. CASE e.type # "heartbeat"
  BY <1>3, <1>4, <1>5, <1>7
<1>. QED  BY <1>6, <1>7

LEMMA StoryFromEnd ==
  ASSUME log \in Seq(Event), NEW e \in Event, Adds(e), e.type # "heartbeat",
         NEW n \in Nat, n = Len(log) + 1
  PROVE  Cardinality(StoryFrom(n)') = 1
<1>1. Len(log') = n /\ log'[n] = e /\ n..n = {n}
  BY DEF Adds
<1>2. {j \in n..Len(log') : log'[j].type # "heartbeat"} = {n}
  BY <1>1
<1>. QED  BY <1>2, FS_Singleton DEF StoryFrom

LEMMA RanKept ==
  ASSUME log \in Seq(Event), NEW e \in Event, Adds(e), e.type = "heartbeat", UNCHANGED attempt,
         NEW k \in 1..5, Ran(k)
  PROVE  Ran(k)'
<1> SUFFICES ASSUME NEW j \in 1..k
             PROVE  \E i \in 1..Len(log') :
                      /\ Cardinality(StoryFrom(i)') = k + 1 - j
                      /\ log'[i].type = Steps[j] /\ log'[i].attempt = attempt'
  BY DEF Ran
<1>1. PICK i \in 1..Len(log) : /\ Cardinality(StoryFrom(i)) = k + 1 - j
                               /\ log[i].type = Steps[j] /\ log[i].attempt = attempt
  BY DEF Ran
<1>2. i \in 1..Len(log') /\ log'[i] = log[i]
  BY DEF Adds
<1>. QED  BY <1>1, <1>2, StoryFromGrows

LEMMA RanOneMore ==
  ASSUME log \in Seq(Event), NEW e \in Event, Adds(e), UNCHANGED attempt,
         NEW k \in 0..4, k = 0 \/ Ran(k), e.type = Steps[k + 1], e.attempt = attempt
  PROVE  Ran(k + 1)'
<1>0. e.type # "heartbeat"
  BY StepsInOrder
<1> SUFFICES ASSUME NEW j \in 1..(k + 1)
             PROVE  \E i \in 1..Len(log') :
                      /\ Cardinality(StoryFrom(i)') = k + 1 + 1 - j
                      /\ log'[i].type = Steps[j] /\ log'[i].attempt = attempt'
  BY DEF Ran
<1>1. CASE j = k + 1
  <2> DEFINE n == Len(log) + 1
  <2>1. n \in Nat /\ n \in 1..Len(log') /\ log'[n] = e
    BY DEF Adds
  <2>2. PICK m \in Nat : m = n
    BY <2>1
  <2>3. Cardinality(StoryFrom(m)') = 1 /\ k + 1 + 1 - j = 1
    BY <1>0, <1>1, <2>2, StoryFromEnd
  <2>. QED  BY <1>1, <2>1, <2>2, <2>3
<1>2. CASE j # k + 1
  <2>1. j \in 1..k
    BY <1>2
  <2>2. PICK i \in 1..Len(log) : /\ Cardinality(StoryFrom(i)) = k + 1 - j
                                 /\ log[i].type = Steps[j] /\ log[i].attempt = attempt
    BY <2>1 DEF Ran
  <2>3. i \in 1..Len(log') /\ log'[i] = log[i]
    BY DEF Adds
  <2>4. Cardinality(StoryFrom(i)') = k + 1 + 1 - j
    BY <1>0, <2>2, StoryFromGrows
  <2>. QED  BY <2>2, <2>3, <2>4
<1>. QED  BY <1>1, <1>2

LEMMA PhasesApart ==
  /\ \A k, j \in 1..5 : Steps[k] = Steps[j] => k = j
  /\ \A k \in 1..5 : Steps[k] \notin {"cancelled", "failed", "retrying", "created"}
  /\ \A k \in 1..4 : Steps[k] \notin Ended
  /\ Active \cap Ended = {} /\ "created" \notin Active \cup Ended
  /\ "retrying" \notin Ended /\ "heartbeat" \notin Ended /\ "queued" \notin Ended
<1>1. \A k \in 1..5 : k \in {1, 2, 3, 4, 5}
  OBVIOUS
<1>2. \A k, j \in 1..5 : Steps[k] = Steps[j] => k = j
  BY <1>1, StepsInOrder
<1>. QED  BY <1>1, <1>2, StepsInOrder, HooksInOrder DEF Active, Ended

LEMMA RanStep ==
  ASSUME TypeOK, RanInv, [Next]_vars
  PROVE  RanInv'
<1>0. log \in Seq(Event) /\ attempt \in Nat
  BY MaxAttemptsIsPositive DEF TypeOK
<1> SUFFICES ASSUME NEW k \in 1..5, phase' = Steps[k] PROVE Ran(k)'
  BY DEF RanInv
<1>1. CASE Run
  <2>0. 1 \in 1..5 /\ phase' = Steps[1] /\ attempt' = 1
    BY <1>1, StepsInOrder DEF Run
  <2>1. k = 1 /\ attempt' = 1
    BY <2>0, PhasesApart
  <2>2. log' \in Seq(Event) /\ Len(log') = 2 /\ log'[2].type = Steps[1] /\ log'[2].attempt = 1
    BY <1>1, RunAdds, StepsInOrder
  <2>3. {j \in 2..Len(log') : log'[j].type # "heartbeat"} = {2}
    <3>1. 2..2 = {2}
      OBVIOUS
    <3>. QED  BY <2>2, <3>1, StepsInOrder
  <2>4. Cardinality(StoryFrom(2)') = 1
    BY <2>3, FS_Singleton DEF StoryFrom
  <2>5. \A j \in 1..1 : j = 1
    OBVIOUS
  <2>6. 2 \in 1..Len(log') /\ 1 + 1 - 1 = 1
    BY <2>2
  <2>. QED  BY <2>1, <2>2, <2>4, <2>5, <2>6 DEF Ran
<1>2. CASE Cancel
  BY <1>2 DEF Cancel, RanInv, Ran, StoryFrom
<1>3. CASE Progress
  <2>1. PICK e \in Event : Says(e)
    BY <1>3, ProgressSays
  <2>2. Adds(e) /\ e.type = Steps[k] /\ e.attempt = attempt
    BY <2>1 DEF Says
  <2>3. CASE \E j \in 1..4 : phase = Hooks[j] /\ e.type = Steps[j + 1] /\ UNCHANGED attempt
    <3>1. PICK j \in 1..4 : phase = Hooks[j] /\ e.type = Steps[j + 1] /\ UNCHANGED attempt
      BY <2>3
    <3>2. j + 1 \in 1..5 /\ j \in 0..4 /\ j \in 1..5
      OBVIOUS
    <3>3. k = j + 1
      BY <2>2, <3>1, <3>2, PhasesApart
    <3>4. Ran(j)
      BY <3>1, <3>2, StepsInOrder DEF RanInv
    <3>. QED  BY <1>0, <2>2, <3>1, <3>2, <3>3, <3>4, RanOneMore
  <2>4. CASE phase = "retrying" /\ e.type = "planning" /\ UNCHANGED attempt
    <3>1. 0 + 1 = 1 /\ 0 \in 0..4 /\ 1 \in 1..5
      OBVIOUS
    <3>2. k = 1 /\ e.type = Steps[0 + 1]
      BY <2>2, <2>4, <3>1, PhasesApart, StepsInOrder
    <3>3. Ran(0 + 1)'
      BY <1>0, <2>2, <2>4, <3>1, <3>2, RanOneMore
    <3>. QED  BY <3>1, <3>2, <3>3
  <2>. QED  BY <2>1, <2>2, <2>3, <2>4, PhasesApart DEF Says
<1>4. CASE Heartbeat
  <2>1. PICK e \in Event : Adds(e) /\ e.type = "heartbeat" /\ e.attempt = attempt
    BY <1>4, HeartbeatAdds
  <2>2. Ran(k) /\ UNCHANGED attempt
    BY <1>4 DEF Heartbeat, RanInv
  <2>. QED  BY <1>0, <2>1, <2>2, RanKept
<1>5. CASE UNCHANGED vars
  BY <1>5 DEF vars, RanInv, Ran, StoryFrom
<1>. QED  BY <1>1, <1>2, <1>3, <1>4, <1>5 DEF Next

\* One more event at the end of the story.
LEMMA StoryOneMore ==
  ASSUME TypeOK, StoryInv, NEW e \in Event, Adds(e), phase \in Active, e.attempt = attempt,
         \/ e.type = "heartbeat" /\ UNCHANGED <<phase, attempt>>
         \/ /\ phase' = e.type /\ phase' # "created"
            /\ UNCHANGED attempt \/ (phase' = "retrying" /\ attempt' = attempt + 1)
  PROVE  StoryInv'
<1>1. /\ log \in Seq(Event) /\ attempt \in Nat /\ Len(log) \in Nat /\ Len(log) > 0
  BY MaxAttemptsIsPositive, PhasesApart DEF TypeOK, StoryInv
<1>2. \A i \in 1..Len(log) : log[i].type \notin Ended
  BY PhasesApart DEF StoryInv
<1>3. /\ Len(log') = Len(log) + 1 /\ log'[Len(log')] = e /\ \A i \in 1..Len(log) : log'[i] = log[i]
  BY DEF Adds
<1>4. \A i \in 1..Len(log') : i = Len(log') \/ i \in 1..Len(log)
  BY <1>1, <1>3
<1>5. phase' # "created"
  BY PhasesApart
<1>6. \A i \in 1..Len(log') : log'[i].type \in Ended => i = Len(log') /\ phase' = log'[i].type
  BY <1>2, <1>3, <1>4, PhasesApart
<1>7. phase' \in Ended => log'[Len(log')].type = phase'
  BY <1>3, PhasesApart
<1>8. ASSUME NEW i \in 1..Len(log'), i > 1
      PROVE  log'[i].attempt \in {log'[i - 1].attempt, log'[i - 1].attempt + 1}
  <2>1. CASE i \in 1..Len(log)
    BY <1>1, <1>3, <1>8, <2>1 DEF StoryInv
  <2>2. CASE i = Len(log')
    <3>1. i - 1 = Len(log) /\ log'[i - 1] = log[Len(log)]
      BY <1>1, <1>3, <2>2
    <3>2. attempt \in {log[Len(log)].attempt, log[Len(log)].attempt + 1}
      BY <1>1 DEF StoryInv
    <3>. QED  BY <1>3, <2>2, <3>1, <3>2
  <2>. QED  BY <1>4, <2>1, <2>2
<1>9. attempt' = log'[Len(log')].attempt \/ (phase' = "retrying" /\ attempt' = log'[Len(log')].attempt + 1)
  BY <1>3
<1>10. Len(log') > 0
  BY <1>1, <1>3
<1>. QED  BY <1>6, <1>7, <1>8, <1>9, <1>10 DEF StoryInv

LEMMA StoryStep ==
  ASSUME TypeOK, StoryInv, [Next]_vars
  PROVE  StoryInv'
<1>1. CASE Run
  <2>1. /\ Len(log') = 2 /\ log'[1].type = "queued" /\ log'[2].type = "planning"
        /\ log'[1].attempt = 1 /\ log'[2].attempt = 1 /\ phase' = "planning" /\ attempt' = 1
    BY <1>1, RunAdds DEF Run
  <2>2. "queued" \notin Ended /\ "planning" \notin Ended
    BY DEF Ended
  <2>3. \A i \in 1..2 : i = 1 \/ i = 2
    OBVIOUS
  <2>4. 2 - 1 = 1 /\ 2 > 0 /\ ~ 1 > 1
    OBVIOUS
  <2>5. \A i \in 1..Len(log') : log'[i].type \notin Ended
    BY <2>1, <2>2, <2>3
  <2>6. \A i \in 1..Len(log') : i > 1 => log'[i].attempt \in {log'[i - 1].attempt, log'[i - 1].attempt + 1}
    BY <2>1, <2>3, <2>4
  <2>. QED  BY <2>1, <2>2, <2>4, <2>5, <2>6 DEF StoryInv
<1>2. CASE Cancel
  BY <1>2 DEF Cancel, StoryInv
<1>3. CASE Progress
  <2>1. PICK e \in Event : Says(e)
    BY <1>3, ProgressSays
  <2>2. HookPhases \subseteq Active /\ (\A k \in 1..4 : Hooks[k] \in HookPhases) /\ "retrying" \in Active
    BY DEF Active, HookPhases
  <2>3. phase \in Active /\ e.type # "created" /\ Adds(e) /\ phase' = e.type /\ e.attempt = attempt
    BY <2>1, <2>2, PhasesApart DEF Says
  <2>4. UNCHANGED attempt \/ (phase' = "retrying" /\ attempt' = attempt + 1)
    BY <2>1 DEF Says
  <2>. QED  BY <2>3, <2>4, StoryOneMore
<1>4. CASE Heartbeat
  <2>1. PICK e \in Event : Adds(e) /\ e.type = "heartbeat" /\ e.attempt = attempt
    BY <1>4, HeartbeatAdds
  <2>2. phase \in Active /\ UNCHANGED <<phase, attempt>>
    BY <1>4 DEF Heartbeat
  <2>. QED  BY <2>1, <2>2, StoryOneMore
<1>5. CASE UNCHANGED vars
  BY <1>5 DEF vars, StoryInv
<1>. QED  BY <1>1, <1>2, <1>3, <1>4, <1>5 DEF Next

\* A subscriber is told one story, to its end: nothing follows the event
\* that ends the run, a heartbeat neither, and a run that completes has gone
\* through plan, execute, self_evaluate and report in one attempt.
THEOREM StoriesAreWhole == Spec => []OneStory
<1>1. Init => StoryInv /\ RanInv
  BY PhasesApart DEF Init, StoryInv, RanInv
<1>2. TypeOK /\ StoryInv /\ RanInv /\ [Next]_vars => StoryInv' /\ RanInv'
  BY StoryStep, RanStep
<1>3. TypeOK /\ StoryInv /\ RanInv => OneStory
  <2> SUFFICES ASSUME TypeOK, StoryInv, RanInv PROVE OneStory
    OBVIOUS
  <2>1. phase = "completed" => Ran(5)
    BY StepsInOrder DEF RanInv
  <2>2. phase \in Ended => Last(log).type = phase
    BY DEF StoryInv, Last
  <2>. QED  BY <2>1, <2>2 DEF StoryInv, OneStory
<1>. QED  BY <1>1, <1>2, <1>3, TypeCorrect, PTL DEF Spec

------------------------------------------------------------------------------

RetriesIn == {i \in 1..Len(log) : log[i].type = "retrying"}

LEMMA RetriesInGrows ==
  ASSUME log \in Seq(Event), NEW e \in Event, Adds(e)
  PROVE  /\ Cardinality(RetriesIn) \in Nat
         /\ Cardinality(RetriesIn') = Cardinality(RetriesIn) + (IF e.type = "retrying" THEN 1 ELSE 0)
<1>1. Len(log) \in Nat /\ RetriesIn \subseteq 1..Len(log) /\ Len(log) + 1 \notin RetriesIn
  BY DEF RetriesIn
<1>2. IsFiniteSet(1..Len(log))
  BY <1>1, FS_Interval
<1>3. IsFiniteSet(RetriesIn) /\ Cardinality(RetriesIn) \in Nat
  BY <1>1, <1>2, FS_Subset, FS_CardinalityType
<1>4. RetriesIn' = IF e.type = "retrying" THEN RetriesIn \cup {Len(log) + 1} ELSE RetriesIn
  BY <1>1 DEF RetriesIn, Adds
<1>5. Cardinality(RetriesIn \cup {Len(log) + 1}) = Cardinality(RetriesIn) + 1
  BY <1>1, <1>3, FS_AddElement
<1>6. CASE e.type = "retrying"
  BY <1>3, <1>4, <1>5, <1>6
<1>7. CASE e.type # "retrying"
  BY <1>3, <1>4, <1>7
<1>. QED  BY <1>6, <1>7

\* Attempts are counted right and none is made that no retryable error
\* earned; a run that fails has met a terminal error or used up its attempts.
THEOREM RetriesAreEarned == Spec => []RetriesEarned
<1>1. Init => RetriesEarned
  BY DEF Init, RetriesEarned
<1>2. TypeOK /\ StoryInv /\ RetriesEarned /\ [Next]_vars => RetriesEarned'
  <2> SUFFICES ASSUME TypeOK, StoryInv, RetriesEarned, [Next]_vars PROVE RetriesEarned'
    OBVIOUS
  <2>0. log \in Seq(Event) /\ attempt \in Nat /\ Len(log) \in Nat
    BY MaxAttemptsIsPositive DEF TypeOK
  <2>1. ASSUME NEW e \in Event, Adds(e), Len(log) > 0,
               e.type = "retrying" => e.error = "retryable" /\ e.attempt < MaxAttempts /\ attempt' = attempt + 1,
               e.type # "retrying" => UNCHANGED attempt,
               e.type = "failed" => e.error = "terminal" \/ e.attempt = MaxAttempts
        PROVE  RetriesEarned'
    <3>1. attempt = 1 + Cardinality(RetriesIn)
      <4>1. log # <<>>
        BY <2>0, <2>1
      <4>. QED  BY <4>1 DEF RetriesEarned, RetriesIn
    <3>2. attempt' = 1 + Cardinality(RetriesIn')
      BY <2>0, <2>1, <3>1, RetriesInGrows
    <3>3. ASSUME NEW i \in 1..Len(log')
          PROVE  /\ log'[i].type = "retrying" => log'[i].error = "retryable" /\ log'[i].attempt < MaxAttempts
                 /\ log'[i].type = "failed" => log'[i].error = "terminal" \/ log'[i].attempt = MaxAttempts
      <4>1. CASE i \in 1..Len(log)
        BY <2>1, <4>1 DEF Adds, RetriesEarned
      <4>2. CASE i = Len(log) + 1
        BY <2>1, <4>2 DEF Adds
      <4>. QED  BY <2>0, <2>1, <4>1, <4>2 DEF Adds
    <3>. QED  BY <3>2, <3>3 DEF RetriesEarned, RetriesIn
  <2>2. CASE Run
    <3>1. /\ Len(log') = 2 /\ log'[1].type = "queued" /\ log'[2].type = "planning" /\ attempt' = 1
      BY <2>2, RunAdds DEF Run
    <3>2. \A i \in 1..Len(log') : log'[i].type \notin {"retrying", "failed"}
      <4>1. \A i \in 1..2 : i = 1 \/ i = 2
        OBVIOUS
      <4>. QED  BY <3>1, <4>1
    <3>3. {i \in 1..Len(log') : log'[i].type = "retrying"} = {}
      BY <3>2
    <3>4. attempt' = 1 + Cardinality({})
      BY <3>1, FS_EmptySet
    <3>. QED  BY <3>2, <3>3, <3>4 DEF RetriesEarned
  <2>3. CASE Cancel
    BY <2>3 DEF Cancel, RetriesEarned
  <2>4. CASE Progress
    <3>1. PICK e \in Event : Says(e)
      BY <2>4, ProgressSays
    <3>2. Len(log) > 0
      <4>1. HookPhases \subseteq Active /\ (\A k \in 1..4 : Hooks[k] \in HookPhases) /\ "retrying" \in Active
        BY DEF Active, HookPhases
      <4>2. phase # "created"
        BY <3>1, <4>1, PhasesApart DEF Says
      <4>. QED  BY <4>2 DEF StoryInv
    <3>3. Adds(e) /\ e.attempt = attempt
      BY <3>1 DEF Says
    <3>4. /\ e.type = "retrying" =>
               e.error = "retryable" /\ attempt < MaxAttempts /\ attempt' = attempt + 1
          /\ e.type # "retrying" => UNCHANGED attempt
          /\ e.type = "failed" => e.error = "terminal" \/ attempt = MaxAttempts
      <4>1. \A k \in 1..4 : k + 1 \in 1..5
        OBVIOUS
      <4>. QED  BY <3>1, <4>1, PhasesApart DEF Says
    <3>. QED  BY <2>1, <3>2, <3>3, <3>4
  <2>5. CASE Heartbeat
    <3>1. PICK e \in Event : Adds(e) /\ e.type = "heartbeat" /\ e.attempt = attempt
      BY <2>5, HeartbeatAdds
    <3>2. UNCHANGED attempt /\ Len(log) > 0
      BY <2>5, PhasesApart DEF Heartbeat, StoryInv
    <3>. QED  BY <2>1, <3>1, <3>2
  <2>6. CASE UNCHANGED vars
    BY <2>6 DEF vars, RetriesEarned
  <2>. QED  BY <2>2, <2>3, <2>4, <2>5, <2>6 DEF Next
<1>3. Init => StoryInv
  BY PhasesApart DEF Init, StoryInv
<1>4. TypeOK /\ StoryInv /\ [Next]_vars => StoryInv'
  BY StoryStep
<1>. QED  BY <1>1, <1>2, <1>3, <1>4, TypeCorrect, PTL DEF Spec

==============================================================================
