---------------------------- MODULE ServicesProofs ----------------------------
(***************************************************************************)
(* The services that calculate: the retries of model providers, metrics,   *)
(* and the context packages of the Context Builder; then all services,     *)
(* those of TransactionProofs too, side by side.                           *)
(***************************************************************************)
EXTENDS MCServices, TransactionProofs, FunctionTheorems, WellFoundedInduction

------------------------------------------------------------------------------
(***************************************************************************)
(* Model providers                                                         *)
(***************************************************************************)

Piece == [attempt : Nat, n : Nat, type : {"text_delta", "tool_call_delta", "finish", "response"}]
Notice == [type : {"attempting", "succeeded", "failed"}, attempt : Nat]

Shape ==
  /\ request \in [op : Operations, plugin : Plugins]
  /\ at \in {"attempting", "except", "sleeping", "calling", "answering",
             "streaming", "finishing", "returned", "raised", "left"}
  /\ attempt \in 1..MaxAttempts
  /\ error \in {"none"} \cup Retryable \cup Terminal \cup Foreign
  /\ block \in {"none", "text", "tool", "broken"}
  /\ sent \in 0..(MaxChunks + 1)
  /\ given \in Seq(Piece)
  /\ told \in Seq(Notice)

\* Before an attempt is over nothing has been given that it did not give, and
\* one that may be followed by another has given nothing.
Answer ==
  /\ \A i \in 1..Len(given) : given[i].n = i /\ given[i].attempt = attempt
  /\ at \in {"attempting", "except", "sleeping", "calling", "answering"} => given = <<>>
  /\ at \in {"calling", "answering"} => sent = 0
  /\ at \in {"streaming", "finishing"} => Len(given) = sent
  /\ at = "finishing" => sent > 0 /\ given[Len(given)].type = "finish"
  /\ at = "streaming" \/ (at = "finishing" /\ request.plugin = "other") => sent <= MaxChunks
  /\ at = "sleeping" => attempt < MaxAttempts
  /\ at = "streaming" /\ block \in {"tool", "broken"} => sent < MaxChunks
  /\ request.plugin = "other" => block = "none"
  /\ request.plugin = "claude" =>
       /\ \A i \in 1..Len(given) : given[i].type = "finish" => i = Len(given) /\ at # "streaming"
       /\ at = "returned" => given # <<>> /\ given[Len(given)].type \in {"finish", "response"}

\* An exception on its way to a retry is the last one; the caller is told of
\* the one that nothing could be done about.
LastError ==
  at = "raised" /\ given = <<>> => ~ IsRetryable(error) \/ attempt = MaxAttempts

\* An attempt is announced once; success comes with an answer, failure alone.
Notices ==
  /\ \A i \in 1..Len(told) : told[i].type = "attempting" =>
       told[i].attempt <= attempt /\ (at = "attempting" => told[i].attempt < attempt)
  /\ \A i, j \in 1..Len(told) :
       told[i].type = "attempting" /\ told[j].type = "attempting" /\ told[i].attempt = told[j].attempt
         => i = j
  /\ \A i \in 1..Len(told) : told[i].type = "succeeded" => given # <<>>
  /\ \A i \in 1..Len(told) : told[i].type = "failed" => given = <<>> /\ at = "raised"

ProviderInv == Shape /\ Answer /\ LastError /\ Notices

\* The invariant holds before the first attempt.
LEMMA ProviderInvInit == ProviderInit => ProviderInv
  BY AttemptsArePositive, ChunksAreBounded
  DEF ProviderInit, ProviderInv, Shape, Answer, LastError, Notices, Piece, Notice

\* A notice that goes out is the last one of those told.
LEMMA PublishesOne ==
  ASSUME told \in Seq(Notice), attempt \in Nat,
         NEW event \in {"attempting", "succeeded", "failed"}, NEW next, NEW onFailure,
         Publishes(event, next, onFailure)
  PROVE  \/ /\ at' = next /\ error' = error
            /\ told' \in Seq(Notice) /\ Len(told') = Len(told) + 1
            /\ told'[Len(told) + 1].type = event /\ told'[Len(told) + 1].attempt = attempt
            /\ \A i \in 1..Len(told) : told'[i] = told[i]
         \/ told' = told /\ at' = onFailure /\ error' = "publisher"
<1>1. CASE told' = told /\ at' = onFailure /\ error' = "publisher"
  BY <1>1
<1>2. CASE /\ told' = Append(told, [type |-> event, attempt |-> attempt])
           /\ at' = next /\ error' = error
  <2>1. [type |-> event, attempt |-> attempt] \in Notice
    BY DEF Notice
  <2>. QED  BY <1>2, <2>1
<1>. QED  BY <1>1, <1>2 DEF Publishes

\* A chunk that goes out is the next of its attempt.
LEMMA YieldsOne ==
  ASSUME given \in Seq(Piece), attempt \in Nat, sent \in Nat, Len(given) = sent,
         NEW type \in {"text_delta", "tool_call_delta", "finish", "response"},
         given' = Append(given, Chunk(type))
  PROVE  /\ given' \in Seq(Piece) /\ Len(given') = Len(given) + 1
         /\ given'[Len(given) + 1].type = type
         /\ given'[Len(given) + 1].n = Len(given) + 1
         /\ given'[Len(given) + 1].attempt = attempt
         /\ \A i \in 1..Len(given) : given'[i] = given[i]
  BY DEF Chunk, Piece

------------------------------------------------------------------------------

\* An attempt begins: announced, or its publisher has failed.
LEMMA AttemptingStep == ASSUME ProviderInv, Attempting PROVE ProviderInv'
<1>1. given = <<>> /\ attempt \in Nat /\ told \in Seq(Notice)
  BY AttemptsArePositive DEF ProviderInv, Shape, Answer, Attempting
<1>2. PICK next \in {"streaming", "calling"} : Publishes("attempting", next, "except")
  BY DEF Attempting
<1>3. UNCHANGED <<request, attempt, given>> /\ block' = "none" /\ sent' = 0
  BY DEF Attempting
<1>4. at = "attempting"
  BY DEF Attempting
<1>5. told' \in Seq(Notice) /\ at' \in {"streaming", "calling", "except"}
  BY <1>1, <1>2, PublishesOne
<1>6. Shape'
  BY <1>2, <1>3, <1>5, ChunksAreBounded DEF ProviderInv, Shape, Publishes, Foreign
<1>7. Answer' /\ LastError'
  BY <1>1, <1>3, <1>5, ChunksAreBounded DEF ProviderInv, Answer, LastError
<1>8. Notices'
  <2>1. CASE told' = told
    BY <1>1, <1>3, <1>4, <1>5, <2>1 DEF ProviderInv, Notices
  <2>2. CASE told' # told
    <3>1. /\ Len(told') = Len(told) + 1
          /\ told'[Len(told) + 1].type = "attempting" /\ told'[Len(told) + 1].attempt = attempt
          /\ \A i \in 1..Len(told) : told'[i] = told[i]
      BY <1>1, <1>2, <2>2, PublishesOne
    <3>2. \A i \in 1..Len(told) : told[i].type = "attempting" => told[i].attempt < attempt
      BY <1>4 DEF ProviderInv, Notices
    <3>3. \A i \in 1..Len(told) : told[i].type \notin {"succeeded", "failed"}
      BY <1>1, <1>4 DEF ProviderInv, Notices
    <3>4. \A i \in 1..Len(told') : i \in 1..Len(told) \/ i = Len(told) + 1
      BY <1>1, <3>1
    <3>5. /\ at' # "attempting" /\ attempt' = attempt
          /\ \A i \in 1..Len(told') : told'[i].type = "attempting" =>
               \/ i \in 1..Len(told) /\ told'[i] = told[i] /\ told[i].attempt < attempt
               \/ i = Len(told) + 1 /\ told'[i].attempt = attempt
      BY <1>3, <1>5, <3>1, <3>2, <3>4
    <3>6. \A i \in 1..Len(told) : told[i].attempt \in Nat
      <4>1. \A i \in 1..Len(told) : told[i] \in Notice
        BY <1>1
      <4>. QED  BY <4>1 DEF Notice
    <3>7. \A i, j \in 1..Len(told') :
            told'[i].type = "attempting" /\ told'[j].type = "attempting"
              /\ told'[i].attempt = told'[j].attempt => i = j
      BY <1>1, <3>5, <3>6 DEF ProviderInv, Notices
    <3>8. \A i \in 1..Len(told') : told'[i].type \notin {"succeeded", "failed"}
      BY <3>1, <3>3, <3>4
    <3>. QED  BY <1>1, <3>5, <3>6, <3>7, <3>8 DEF Notices
  <2>. QED  BY <2>1, <2>2
<1>. QED  BY <1>6, <1>7, <1>8 DEF ProviderInv

\* The except clause retries, or tells and raises.
LEMMA ExceptStep == ASSUME ProviderInv, Except PROVE ProviderInv'
<1>1. /\ given = <<>> /\ attempt \in 1..MaxAttempts /\ attempt \in Nat /\ told \in Seq(Notice)
      /\ UNCHANGED <<request, attempt, block, sent, given>>
      /\ at = "except"
  BY AttemptsArePositive DEF ProviderInv, Shape, Answer, Except
<1>2. CASE ShouldRetry(error, attempt) /\ at' = "sleeping" /\ UNCHANGED <<told, error>>
  <2>1. Shape'
    BY <1>1, <1>2 DEF ProviderInv, Shape
  <2>2. attempt < MaxAttempts
    BY <1>2 DEF ShouldRetry
  <2>3. Answer' /\ LastError' /\ Notices'
    BY <1>1, <1>2, <2>2 DEF ProviderInv, Answer, LastError, Notices
  <2>. QED  BY <2>1, <2>3 DEF ProviderInv
<1>3. CASE ~ ShouldRetry(error, attempt) /\ Publishes("failed", "raised", "raised")
  <2>1. at' = "raised" /\ told' \in Seq(Notice) /\ error' \in {error, "publisher"}
    BY <1>1, <1>3, PublishesOne
  <2>2. Shape'
    BY <1>1, <2>1 DEF ProviderInv, Shape, Foreign
  <2>3. Answer'
    BY <1>1, <2>1 DEF ProviderInv, Answer
  <2>4. LastError'
    <3>1. ~ IsRetryable("publisher")
      BY DEF IsRetryable, Retryable
    <3>2. ~ IsRetryable(error) \/ attempt = MaxAttempts
      BY <1>1, <1>3, AttemptsArePositive DEF ShouldRetry
    <3>. QED  BY <1>1, <2>1, <3>1, <3>2 DEF LastError, IsRetryable
  <2>5. Notices'
    <3>1. CASE told' = told
      BY <1>1, <2>1, <3>1 DEF ProviderInv, Notices
    <3>2. CASE told' # told
      <4>1. /\ Len(told') = Len(told) + 1 /\ told'[Len(told) + 1].type = "failed"
            /\ \A i \in 1..Len(told) : told'[i] = told[i]
        BY <1>1, <1>3, <3>2, PublishesOne
      <4>2. \A i \in 1..Len(told') : i \in 1..Len(told) \/ i = Len(told) + 1
        BY <1>1, <4>1
      <4>. QED  BY <1>1, <2>1, <4>1, <4>2 DEF ProviderInv, Notices
    <3>. QED  BY <3>1, <3>2
  <2>. QED  BY <2>2, <2>3, <2>4, <2>5 DEF ProviderInv
<1>. QED  BY <1>2, <1>3 DEF Except

\* The success of an answer is told before the answer is returned, or, of a
\* stream, after its last chunk.
LEMMA SuccessStep == ASSUME ProviderInv, Answering \/ Finishing PROVE ProviderInv'
<1>1. /\ attempt \in Nat /\ sent \in Nat /\ told \in Seq(Notice) /\ given \in Seq(Piece)
      /\ UNCHANGED <<request, attempt, block, sent>>
  BY AttemptsArePositive, ChunksAreBounded DEF ProviderInv, Shape, Answering, Finishing
<1>2. PICK next \in {"streaming", "returned"}, onFailure \in {"except", "raised"} :
        Publishes("succeeded", next, onFailure)
  BY DEF Answering, Finishing
<1>3. told' \in Seq(Notice) /\ error' \in {error, "publisher"}
  BY <1>1, <1>2, PublishesOne
<1>4. at \in {"answering", "finishing"}
  BY DEF Answering, Finishing
<1>5. ASSUME told' # told
      PROVE  /\ Len(told') = Len(told) + 1 /\ told'[Len(told) + 1].type = "succeeded"
             /\ \A i \in 1..Len(told) : told'[i] = told[i]
             /\ \A i \in 1..Len(told') : i \in 1..Len(told) \/ i = Len(told) + 1
  BY <1>1, <1>2, <1>5, PublishesOne
<1>6. ASSUME Answer', LastError', Shape', given' # <<>> \/ (told' = told /\ given' = given)
      PROVE  ProviderInv'
  <2>1. at' # "attempting"
    BY <1>2 DEF Publishes
  <2>2. Notices'
    BY <1>1, <1>3, <1>4, <1>5, <1>6, <2>1 DEF ProviderInv, Notices
  <2>. QED  BY <1>6, <2>2 DEF ProviderInv
<1>7. CASE Answering
  <2>1. /\ given = <<>> /\ sent = 0 /\ at = "answering"
        /\ Publishes("succeeded", "returned", "except")
        /\ given' = IF at' = "returned" THEN <<Chunk("response")>> ELSE given
    BY <1>7 DEF Answering, ProviderInv, Answer
  <2>2. CASE at' = "returned"
    <3>1. given' = Append(given, Chunk("response"))
      BY <2>1, <2>2
    <3>2. /\ given' \in Seq(Piece) /\ Len(given') = 1
          /\ given'[1].type = "response" /\ given'[1].n = 1 /\ given'[1].attempt = attempt
          /\ given' # <<>>
      BY <1>1, <2>1, <3>1, YieldsOne
    <3>3. Shape'
      BY <1>1, <1>3, <2>2, <3>2 DEF ProviderInv, Shape, Foreign
    <3>4. Answer' /\ LastError'
      BY <1>1, <2>1, <2>2, <3>2 DEF ProviderInv, Answer, LastError
    <3>. QED  BY <1>6, <3>2, <3>3, <3>4
  <2>3. CASE at' = "except" /\ told' = told
    <3>1. given' = given
      BY <2>1, <2>3
    <3>2. Shape' /\ Answer' /\ LastError'
      BY <1>1, <1>3, <2>1, <2>3, <3>1 DEF ProviderInv, Shape, Foreign, Answer, LastError
    <3>. QED  BY <1>6, <2>3, <3>1, <3>2
  <2>4. at' = "returned" \/ (at' = "except" /\ told' = told)
    BY <2>1, Zenon DEF Publishes
  <2>. QED  BY <2>2, <2>3, <2>4
<1>8. CASE Finishing
  <2>1. /\ at = "finishing" /\ given' = given /\ given # <<>>
        /\ sent > 0 /\ Len(given) = sent /\ given[Len(given)].type = "finish"
        /\ \/ at' = "raised"
           \/ at' = "returned"
           \/ at' = "streaming" /\ request.plugin = "other"
    BY <1>8 DEF Finishing, Publishes, ProviderInv, Answer
  <2>2. Shape'
    BY <1>1, <1>3, <2>1 DEF ProviderInv, Shape, Foreign
  <2>3. at' = "streaming" => sent <= MaxChunks
    BY <2>1 DEF ProviderInv, Answer
  <2>4. Answer' /\ LastError'
    BY <1>1, <2>1, <2>3 DEF ProviderInv, Answer, LastError
  <2>. QED  BY <1>6, <2>1, <2>2, <2>4
<1>. QED  BY <1>7, <1>8

\* A plugin's hook raises: to the except clause as long as nothing was given.
LEMMA RaisesStep ==
  ASSUME ProviderInv, UNCHANGED <<request, attempt, block, sent, given, told>>,
         \/ at = "calling" /\ at' = "except"
         \/ at = "streaming" /\ at' = IF sent = 0 THEN "except" ELSE "raised",
         error' \in Retryable \cup Terminal \cup Foreign
  PROVE  ProviderInv'
<1>1. at' = "except" => given = <<>>
  BY DEF ProviderInv, Shape, Answer
<1>2. at' = "raised" => given # <<>>
  BY ChunksAreBounded DEF ProviderInv, Shape, Answer
<1>3. Shape'
  BY DEF ProviderInv, Shape
<1>4. Answer' /\ LastError' /\ Notices'
  BY <1>1, <1>2 DEF ProviderInv, Answer, LastError, Notices
<1>. QED  BY <1>3, <1>4 DEF ProviderInv

\* A plugin yields the next chunk of its stream.
LEMMA YieldsStep ==
  ASSUME ProviderInv, at = "streaming", UNCHANGED <<request, attempt, told>>,
         NEW type \in {"text_delta", "tool_call_delta", "finish"}, Yields(type),
         sent <= MaxChunks,
         (type = "finish" /\ request.plugin = "claude") \/ sent < MaxChunks,
         block' \in {"none", block}, block' \in {"tool", "broken"} => at' # "streaming"
  PROVE  ProviderInv'
<1>1. /\ attempt \in Nat /\ sent \in Nat /\ given \in Seq(Piece) /\ Len(given) = sent
      /\ given' = Append(given, Chunk(type)) /\ sent' = sent + 1 /\ error' = error
      /\ at' = IF type = "finish" THEN "finishing" ELSE "streaming"
  BY AttemptsArePositive, ChunksAreBounded DEF ProviderInv, Shape, Answer, Yields
<1>2. /\ given' \in Seq(Piece) /\ Len(given') = Len(given) + 1
      /\ given'[Len(given) + 1].type = type
      /\ given'[Len(given) + 1].n = Len(given) + 1
      /\ given'[Len(given) + 1].attempt = attempt
      /\ \A i \in 1..Len(given) : given'[i] = given[i]
      /\ given' # <<>>
  BY <1>1, YieldsOne
<1>3. \A i \in 1..Len(given') : i \in 1..Len(given) \/ i = Len(given) + 1
  BY <1>1, <1>2
<1>4. Shape'
  BY <1>1, <1>2, ChunksAreBounded DEF ProviderInv, Shape
<1>5. Answer'
  <2>1. \A i \in 1..Len(given') : given'[i].n = i /\ given'[i].attempt = attempt'
    BY <1>1, <1>2, <1>3 DEF ProviderInv, Answer
  <2>2. request'.plugin = "claude" =>
          \A i \in 1..Len(given') : given'[i].type = "finish" => i = Len(given') /\ at' # "streaming"
    BY <1>1, <1>2, <1>3 DEF ProviderInv, Answer
  <2>3. at' = "streaming" \/ (at' = "finishing" /\ request'.plugin = "other") => sent' <= MaxChunks
    BY <1>1, ChunksAreBounded DEF ProviderInv, Shape
  <2>4. request'.plugin = "other" => block' = "none"
    BY DEF ProviderInv, Answer
  <2>5. at' \in {"streaming", "finishing"} => Len(given') = sent'
    BY <1>1, <1>2
  <2>6. at' = "finishing" => sent' > 0 /\ given'[Len(given')].type = "finish"
    BY <1>1, <1>2
  <2>7. at' \in {"streaming", "finishing"}
    BY <1>1
  <2>. QED  BY <2>1, <2>2, <2>3, <2>4, <2>5, <2>6, <2>7 DEF Answer
<1>6. LastError' /\ Notices'
  BY <1>1, <1>2 DEF ProviderInv, LastError, Notices
<1>. QED  BY <1>4, <1>5, <1>6 DEF ProviderInv

\* generate and embed: the hook answers, or raises.
LEMMA CallOnceStep == ASSUME ProviderInv, CallOnce PROVE ProviderInv'
<1>1. at = "calling" /\ UNCHANGED <<request, attempt, block, sent, given, told>>
  BY DEF CallOnce, ClaudeGenerates, ClaudeEmbeds, OtherAnswers, Raises
<1>2. \/ at' = "answering" /\ error' = error
      \/ at' = "except" /\ error' \in Retryable \cup Terminal \cup Foreign
  BY DEF CallOnce, ClaudeGenerates, ClaudeEmbeds, OtherAnswers, Raises, MapAnthropicError,
         Retryable, Terminal, Foreign
<1>3. CASE at' = "answering" /\ error' = error
  <2>1. Shape'
    BY <1>1, <1>3 DEF ProviderInv, Shape
  <2>2. Answer' /\ LastError' /\ Notices'
    BY <1>1, <1>3 DEF ProviderInv, Answer, LastError, Notices
  <2>. QED  BY <2>1, <2>2 DEF ProviderInv
<1>. QED  BY <1>1, <1>2, <1>3, RaisesStep

\* Claude's stream, event by event.
LEMMA ClaudeStreamStep ==
  ASSUME ProviderInv,
         \/ \E kind \in {"text", "tool"} : BlockStart(kind)
         \/ BlockDelta \/ BlockStop \/ StreamEnds \/ StreamBreaks
  PROVE  ProviderInv'
<1>1. at = "streaming" /\ request.plugin = "claude" /\ UNCHANGED <<request, attempt, told>>
  BY DEF BlockStart, BlockDelta, BlockStop, StreamEnds, StreamBreaks, Streaming
<1>2. /\ sent <= MaxChunks /\ sent \in Nat
      /\ block \in {"tool", "broken"} => sent < MaxChunks
      /\ block \in {"none", "text", "tool", "broken"}
  BY <1>1, ChunksAreBounded DEF ProviderInv, Shape, Answer
<1>3. ASSUME UNCHANGED <<at, error, sent, given>>, block' \in {"none", "text", "tool", "broken"},
             block' \in {"tool", "broken"} => sent < MaxChunks
      PROVE  ProviderInv'
  <2>1. Shape'
    BY <1>1, <1>3 DEF ProviderInv, Shape
  <2>2. Answer' /\ LastError' /\ Notices'
    BY <1>1, <1>3 DEF ProviderInv, Answer, LastError, Notices
  <2>. QED  BY <2>1, <2>2 DEF ProviderInv
<1>4. CASE \E kind \in {"text", "tool"} : BlockStart(kind)
  BY <1>3, <1>4 DEF BlockStart
<1>5. CASE BlockDelta
  <2>1. CASE sent < MaxChunks /\ Yields("text_delta") /\ block = "text" /\ block' = block
    BY <1>1, <1>2, <2>1, YieldsStep
  <2>2. CASE /\ block \in {"tool", "broken"} /\ block' \in {"tool", "broken"}
             /\ UNCHANGED <<at, error, sent, given>>
    BY <1>2, <1>3, <2>2
  <2>. QED  BY <1>5, <2>1, <2>2 DEF BlockDelta
<1>6. CASE BlockStop
  <2>1. CASE block' = "none" /\ UNCHANGED <<at, error, sent, given>>
    BY <1>3, <2>1
  <2>2. CASE block = "tool" /\ block' = "none" /\ Yields("tool_call_delta")
    BY <1>1, <1>2, <2>2, YieldsStep
  <2>3. CASE StreamRaises("value_error")
    BY <1>1, <2>3, RaisesStep DEF StreamRaises, Raises, Foreign
  <2>. QED  BY <1>6, <2>1, <2>2, <2>3 DEF BlockStop
<1>7. CASE StreamEnds
  <2>1. Yields("finish") /\ block = "none" /\ block' = block
    BY <1>7 DEF StreamEnds
  <2>. QED  BY <1>1, <1>2, <2>1, YieldsStep
<1>8. CASE StreamBreaks
  <2>1. PICK exc \in AnthropicErrors : StreamRaises(MapAnthropicError(exc))
    BY <1>8 DEF StreamBreaks
  <2>2. MapAnthropicError(exc) \in Retryable \cup Terminal \cup Foreign
    BY DEF MapAnthropicError, Retryable, Terminal
  <2>. QED  BY <1>1, <2>1, <2>2, RaisesStep DEF StreamRaises, Raises
<1>. QED  BY <1>4, <1>5, <1>6, <1>7, <1>8

\* Any other plugin's stream.
LEMMA OtherStreamStep == ASSUME ProviderInv, OtherStreams PROVE ProviderInv'
<1>1. at = "streaming" /\ request.plugin = "other" /\ UNCHANGED <<request, attempt, told>>
  BY DEF OtherStreams, Streaming
<1>2. sent \in Nat /\ block = "none"
  BY <1>1, ChunksAreBounded DEF ProviderInv, Shape, Answer
<1>3. CASE \E type \in {"text_delta", "tool_call_delta", "finish"} :
             sent < MaxChunks /\ Yields(type) /\ UNCHANGED block
  <2>1. PICK type \in {"text_delta", "tool_call_delta", "finish"} :
          sent < MaxChunks /\ Yields(type) /\ UNCHANGED block
    BY <1>3
  <2>2. sent <= MaxChunks
    BY <1>2, <2>1, ChunksAreBounded
  <2>. QED  BY <1>1, <1>2, <2>1, <2>2, YieldsStep
<1>4. CASE \E e \in Retryable \cup Terminal : StreamRaises(e)
  BY <1>1, <1>4, RaisesStep DEF StreamRaises, Raises
<1>5. CASE at' = "returned" /\ UNCHANGED <<error, block, sent, given>>
  <2>1. Shape'
    BY <1>1, <1>5 DEF ProviderInv, Shape
  <2>2. Answer' /\ LastError' /\ Notices'
    BY <1>1, <1>5 DEF ProviderInv, Answer, LastError, Notices
  <2>. QED  BY <2>1, <2>2 DEF ProviderInv
<1>. QED  BY <1>3, <1>4, <1>5 DEF OtherStreams

\* The next attempt begins with nothing given, and with a number of its own.
LEMMA RetryStep == ASSUME ProviderInv, RetryAfterSleep PROVE ProviderInv'
<1>1. /\ at = "sleeping" /\ at' = "attempting" /\ attempt' = attempt + 1 /\ error' = "none"
      /\ UNCHANGED <<request, block, sent, given, told>> /\ given = <<>>
  BY DEF RetryAfterSleep, ProviderInv, Answer
<1>2. attempt \in Nat /\ attempt < MaxAttempts
  BY <1>1, AttemptsArePositive DEF ProviderInv, Shape, Answer
<1>3. Shape'
  BY <1>1, <1>2, AttemptsArePositive DEF ProviderInv, Shape
<1>4. Answer' /\ LastError'
  BY <1>1 DEF ProviderInv, Answer, LastError
<1>5. Notices'
  <2>1. \A i \in 1..Len(told) : told[i] \in Notice
    BY DEF ProviderInv, Shape
  <2>2. \A i \in 1..Len(told) : told[i].attempt \in Nat
    BY <2>1 DEF Notice
  <2>. QED  BY <1>1, <1>2, <2>2 DEF ProviderInv, Notices
<1>. QED  BY <1>3, <1>4, <1>5 DEF ProviderInv

\* A caller that stops reading its stream leaves the rest as it is.
LEMMA LeaveStep == ASSUME ProviderInv, CallerLeaves PROVE ProviderInv'
<1>1. Shape'
  BY DEF CallerLeaves, ProviderInv, Shape
<1>2. Answer' /\ LastError' /\ Notices'
  BY DEF CallerLeaves, ProviderInv, Answer, LastError, Notices
<1>. QED  BY <1>1, <1>2 DEF ProviderInv

\* The invariant holds in every reachable state of the retry loop.
LEMMA ProviderInvHolds == ProviderSpec => []ProviderInv
<1>1. ProviderInv /\ [ProviderNext]_providerVars => ProviderInv'
  <2> SUFFICES ASSUME ProviderInv, [ProviderNext]_providerVars PROVE ProviderInv'
    OBVIOUS
  <2>1. CASE UNCHANGED providerVars
    BY <2>1 DEF providerVars, ProviderInv, Shape, Answer, LastError, Notices
  <2>. QED
    BY <2>1, AttemptingStep, ExceptStep, SuccessStep, CallOnceStep, ClaudeStreamStep, OtherStreamStep,
       RetryStep, LeaveStep DEF ProviderNext
<1>. QED  BY <1>1, ProviderInvInit, PTL DEF ProviderSpec

\* Every operation of the provider keeps the variables in their types.
THEOREM ProviderTypeCorrect == ProviderSpec => []ProviderTypeOK
<1>1. ProviderInv => ProviderTypeOK
  <2> SUFFICES ASSUME ProviderInv PROVE ProviderTypeOK
    OBVIOUS
  <2>1. \A i \in DOMAIN given : given[i] \in Piece
    BY DEF ProviderInv, Shape
  <2>. QED  BY <2>1 DEF ProviderInv, Shape, ProviderTypeOK, Piece
<1>. QED  BY <1>1, ProviderInvHolds, PTL

\* Whatever fails in whatever attempt, what generate, stream and embed give
\* their caller is of one attempt and in order, an error that could have been
\* retried never comes in its place, and what is told agrees.
THEOREM OneAnswer == ProviderSpec => []CallerGetsOneAnswer
<1>1. ProviderInv => CallerGetsOneAnswer
  <2> SUFFICES ASSUME ProviderInv PROVE CallerGetsOneAnswer
    OBVIOUS
  <2>1. DOMAIN given = 1..Len(given) /\ DOMAIN told = 1..Len(told)
    BY DEF ProviderInv, Shape
  <2>2. Tells("succeeded") => given # <<>>
    BY <2>1 DEF ProviderInv, Notices, Tells
  <2>3. Tells("failed") => given = <<>> /\ at = "raised"
    BY <2>1 DEF ProviderInv, Notices, Tells
  <2>. QED
    BY <2>1, <2>2, <2>3 DEF ProviderInv, Answer, LastError, Notices, CallerGetsOneAnswer
<1>. QED  BY <1>1, ProviderInvHolds, PTL

------------------------------------------------------------------------------
(***************************************************************************)
(* Folds                                                                   *)
(***************************************************************************)

\* A set of natural numbers that is not empty has a least element.
LEMMA LeastNumber ==
  ASSUME NEW N, N \subseteq Nat, N # {}
  PROVE  \E n \in N : \A m \in N : ~ (m < n)
<1> DEFINE R == OpToRel(<, Nat)
<1>1. \A m, k \in Nat : m < k => <<m, k>> \in R
  BY Zenon DEF OpToRel
<1>2. IsWellFoundedOn(R, Nat)
  BY NatLessThanWellFounded, Zenon
<1> HIDE DEF R
<1>3. \E n \in N : \A m \in N : ~ (<<m, n>> \in R)
  BY <1>2, WFMin
<1>. QED  BY <1>1, <1>3

\* Induction over the subsets of a finite set.
LEMMA SubsetInduction ==
  ASSUME NEW S, IsFiniteSet(S), NEW A,
         \A T \in SUBSET S : (\A U \in SUBSET T : U # T => U \in A) => T \in A
  PROVE  \A T \in SUBSET S : T \in A
<1>1. ASSUME NEW T \in SUBSET S, T \notin A PROVE FALSE
  <2> DEFINE N == {Cardinality(U) : U \in {V \in SUBSET S : V \notin A}}
  <2>1. \A U \in SUBSET S : IsFiniteSet(U) /\ Cardinality(U) \in Nat
    BY FS_Subset, FS_CardinalityType
  <2>2. N \subseteq Nat /\ N # {}
    BY <1>1, <2>1
  <2> HIDE DEF N
  <2>4. PICK n \in N : \A m \in N : ~ (m < n)
    BY <2>2, LeastNumber
  <2>5. PICK U \in SUBSET S : U \notin A /\ n = Cardinality(U)
    BY <2>4 DEF N
  <2>6. ASSUME NEW V \in SUBSET U, V # U PROVE V \in A
    <3>1. Cardinality(V) < Cardinality(U)
      BY <2>1, <2>5, <2>6, FS_Subset
    <3>2. V \notin A => Cardinality(V) \in N
      BY DEF N
    <3>. QED  BY <2>4, <2>5, <3>1, <3>2
  <2>. QED  BY <2>5, <2>6
<1>. QED  BY <1>1

\* What the folds of the community modules define: f[U] is the fold of U,
\* from base, with the element pick[U] taken last.
IsFold(f, base, step, pick, T) ==
  f = [U \in SUBSET T |-> IF U = {} THEN base ELSE step[<<pick[U], f[U \ {pick[U]}]>>]]

\* Two folds agree where both are defined ...
LEMMA FoldsAgree ==
  ASSUME NEW S, IsFiniteSet(S), NEW base, NEW step, NEW pick,
         \A U \in SUBSET S : U # {} => pick[U] \in U,
         NEW R \in SUBSET S, NEW T \in SUBSET S, NEW f, NEW h,
         IsFold(f, base, step, pick, R), IsFold(h, base, step, pick, T)
  PROVE  \A U \in SUBSET S : U \subseteq R /\ U \subseteq T => f[U] = h[U]
<1> DEFINE A == {U \in SUBSET S : U \subseteq R /\ U \subseteq T => f[U] = h[U]}
<1>1. ASSUME NEW U \in SUBSET S, \A V \in SUBSET U : V # U => V \in A
      PROVE  U \in A
  <2> SUFFICES ASSUME U \subseteq R, U \subseteq T PROVE f[U] = h[U]
    OBVIOUS
  <2>1. CASE U = {}
    <3>1. f[U] = base
      BY <2>1 DEF IsFold
    <3>2. h[U] = base
      BY <2>1 DEF IsFold
    <3>. QED  BY <3>1, <3>2
  <2>2. CASE U # {}
    <3> DEFINE V == U \ {pick[U]}
    <3>1. V \in SUBSET U /\ V # U
      BY <2>2
    <3>2. f[V] = h[V]
      BY <1>1, <3>1
    <3>3. f[U] = step[<<pick[U], f[V]>>]
      BY <2>2 DEF IsFold
    <3>4. h[U] = step[<<pick[U], h[V]>>]
      BY <2>2 DEF IsFold
    <3>. QED  BY <3>2, <3>3, <3>4
  <2>. QED  BY <2>1, <2>2
<1>2. \A U \in SUBSET S : U \in A
  <2> HIDE DEF A
  <2>. QED  BY <1>1, SubsetInduction
<1>. QED  BY <1>2

\* ... and there is one on every finite set.
LEMMA FoldExists ==
  ASSUME NEW S, IsFiniteSet(S), NEW base, NEW step, NEW pick,
         \A U \in SUBSET S : U # {} => pick[U] \in U
  PROVE  \E f : IsFold(f, base, step, pick, S)
<1> DEFINE A == {T \in SUBSET S : \E f : IsFold(f, base, step, pick, T)}
<1>1. ASSUME NEW T \in SUBSET S, \A U \in SUBSET T : U # T => U \in A
      PROVE  T \in A
  <2> DEFINE F == [U \in SUBSET T |-> CHOOSE f : IsFold(f, base, step, pick, U)]
             value == [U \in SUBSET T |->
                         IF U = {} THEN base
                         ELSE step[<<pick[U], F[U \ {pick[U]}][U \ {pick[U]}]>>]]
  <2>1. \A U \in SUBSET T : U # T => IsFold(F[U], base, step, pick, U)
    <3>1. ASSUME NEW U \in SUBSET T, U # T PROVE IsFold(F[U], base, step, pick, U)
      <4>1. \E f : IsFold(f, base, step, pick, U)
        BY <1>1, <3>1
      <4>. QED  BY <4>1, Zenon
    <3>. QED  BY <3>1
  <2> HIDE DEF F
  <2>2. ASSUME NEW U \in SUBSET T, U # T PROVE value[U] = F[U][U]
    <3>1. F[U] = [V \in SUBSET U |-> IF V = {} THEN base ELSE step[<<pick[V], F[U][V \ {pick[V]}]>>]]
      BY <2>1, <2>2 DEF IsFold
    <3>2. CASE U = {}
      BY <3>1, <3>2
    <3>3. CASE U # {}
      <4> DEFINE V == U \ {pick[U]}
      <4>1. V \in SUBSET U /\ V \in SUBSET T /\ V # T
        BY <2>2
      <4>2. F[U][U] = step[<<pick[U], F[U][V]>>]
        BY <3>1, <3>3
      <4>3. value[U] = step[<<pick[U], F[V][V]>>]
        BY <3>3
      <4>4. F[U][V] = F[V][V]
        <5>1. IsFold(F[U], base, step, pick, U) /\ IsFold(F[V], base, step, pick, V)
          BY <2>1, <2>2, <4>1
        <5>2. U \in SUBSET S /\ V \in SUBSET S /\ V \subseteq U /\ V \subseteq V
          BY <4>1
        <5> HIDE DEF V
        <5>. QED  BY <5>1, <5>2, FoldsAgree
      <4>. QED  BY <4>2, <4>3, <4>4
    <3>. QED  BY <3>2, <3>3
  <2>3. \A U \in SUBSET T : U # {} => U \ {pick[U]} \in SUBSET T /\ U \ {pick[U]} # T
    OBVIOUS
  <2>4. \A U \in SUBSET T : U # {} => value[U] = step[<<pick[U], value[U \ {pick[U]}]>>]
    <3>1. ASSUME NEW U \in SUBSET T, U # {} PROVE value[U] = step[<<pick[U], value[U \ {pick[U]}]>>]
      <4> DEFINE V == U \ {pick[U]}
      <4>1. value[V] = F[V][V]
        BY <2>2, <2>3, <3>1
      <4>2. value[U] = step[<<pick[U], F[V][V]>>]
        BY <3>1
      <4>. QED  BY <4>1, <4>2
    <3>. QED  BY <3>1
  <2>5. {} \in SUBSET T => value[{}] = base
    OBVIOUS
  <2>6. DOMAIN value = SUBSET T /\ value = [U \in SUBSET T |-> value[U]]
    OBVIOUS
  <2> HIDE DEF value
  <2>7. IsFold(value, base, step, pick, T)
    <3>1. \A U \in SUBSET T :
            value[U] = IF U = {} THEN base ELSE step[<<pick[U], value[U \ {pick[U]}]>>]
      BY <2>4, <2>5
    <3>. QED  BY <2>6, <3>1 DEF IsFold
  <2>. QED  BY <2>7
<1>2. \A T \in SUBSET S : T \in A
  <2> HIDE DEF A
  <2>. QED  BY <1>1, SubsetInduction
<1>. QED  BY <1>2

\* What the base has and a step keeps, the fold has; ...
LEMMA FoldType ==
  ASSUME NEW S, IsFiniteSet(S), NEW base, NEW step, NEW pick,
         \A U \in SUBSET S : U # {} => pick[U] \in U,
         NEW Acc, base \in Acc, \A x \in S, y \in Acc : step[<<x, y>>] \in Acc,
         NEW f, IsFold(f, base, step, pick, S)
  PROVE  \A U \in SUBSET S : f[U] \in Acc
<1> DEFINE A == {U \in SUBSET S : f[U] \in Acc}
<1>1. ASSUME NEW U \in SUBSET S, \A V \in SUBSET U : V # U => V \in A
      PROVE  U \in A
  <2>1. CASE U = {}
    BY <2>1 DEF IsFold
  <2>2. CASE U # {}
    <3> DEFINE V == U \ {pick[U]}
    <3>1. V \in SUBSET U /\ V # U /\ pick[U] \in S
      BY <2>2
    <3>2. f[V] \in Acc
      BY <1>1, <3>1
    <3>3. f[U] = step[<<pick[U], f[V]>>]
      BY <2>2 DEF IsFold
    <3>4. f[U] \in Acc
      BY <3>1, <3>2, <3>3
    <3>. QED  BY <3>4
  <2>. QED  BY <2>1, <2>2
<1>2. \A U \in SUBSET S : U \in A
  <2> HIDE DEF A
  <2>. QED  BY <1>1, SubsetInduction
<1>. QED  BY <1>2

\* ... and whatever does as the step does within Acc is the fold.
LEMMA FoldFollows ==
  ASSUME NEW S, IsFiniteSet(S), NEW base, NEW step, NEW pick,
         \A U \in SUBSET S : U # {} => pick[U] \in U,
         NEW Acc, base \in Acc, \A x \in S, y \in Acc : step[<<x, y>>] \in Acc,
         NEW f, IsFold(f, base, step, pick, S),
         NEW c, c[{}] = base,
         \A U \in SUBSET S : U # {} /\ c[U \ {pick[U]}] \in Acc =>
            c[U] = step[<<pick[U], c[U \ {pick[U]}]>>]
  PROVE  \A U \in SUBSET S : c[U] = f[U]
<1> DEFINE A == {U \in SUBSET S : c[U] = f[U]}
<1>0. \A U \in SUBSET S : f[U] \in Acc
  BY FoldType
<1>1. ASSUME NEW U \in SUBSET S, \A V \in SUBSET U : V # U => V \in A
      PROVE  U \in A
  <2>1. CASE U = {}
    <3>1. f[U] = base
      BY <2>1 DEF IsFold
    <3>. QED  BY <2>1, <3>1
  <2>2. CASE U # {}
    <3> DEFINE V == U \ {pick[U]}
    <3>1. V \in SUBSET U /\ V # U /\ pick[U] \in S
      BY <2>2
    <3>2. f[V] \in Acc /\ c[V] = f[V]
      BY <1>0, <1>1, <3>1
    <3>3. f[U] = step[<<pick[U], f[V]>>]
      BY <2>2 DEF IsFold
    <3>4. c[U] = step[<<pick[U], c[V]>>]
      BY <2>2, <3>2
    <3>. QED  BY <3>2, <3>3, <3>4
  <2>. QED  BY <2>1, <2>2
<1>2. \A U \in SUBSET S : U \in A
  <2> HIDE DEF A
  <2>. QED  BY <1>1, SubsetInduction
<1>. QED  BY <1>2

------------------------------------------------------------------------------
(***************************************************************************)
(* Sums                                                                    *)
(***************************************************************************)

\* The sum of g over a finite set, as MapThenSumSet forms it.
SumOf(g, S) == MapThenSumSet(LAMBDA x : g[x], S)

Numeric(g, S) == IsFiniteSet(S) /\ \A x \in S : g[x] \in Int

Plus(g, S) == [p \in S \X Int |-> g[p[1]] + p[2]]
AnyOf(S) == [U \in SUBSET S |-> CHOOSE x \in U : TRUE]

\* Every sum is a value of one fold.
LEMMA SumIsFold ==
  ASSUME NEW S, NEW g, Numeric(g, S), NEW T \in SUBSET S,
         NEW f, IsFold(f, 0, Plus(g, S), AnyOf(S), S)
  PROVE  /\ SumOf(g, T) = f[T] /\ f[T] \in Int
         /\ T # {} => f[T] = g[AnyOf(S)[T]] + f[T \ {AnyOf(S)[T]}]
<1> DEFINE B(c) == [U \in SUBSET T |-> IF U = {} THEN 0
                                        ELSE LET x == CHOOSE x \in U : TRUE IN g[x] + c[U \ {x}]]
           pick == AnyOf(S)
           step == Plus(g, S)
           h == CHOOSE c : c = B(c)
<1>1. SumOf(g, T) = h[T]
  BY Zenon DEF MapThenSumSet, MapThenFoldSet, SumOf
<1>2. IsFiniteSet(S) /\ IsFiniteSet(T) /\ \A x \in S : g[x] \in Int
  BY FS_Subset DEF Numeric
<1>3. \A U \in SUBSET S : U # {} => pick[U] \in U
  <2>1. ASSUME NEW U \in SUBSET S, U # {} PROVE pick[U] \in U
    BY <2>1, Zenon DEF AnyOf
  <2>. QED  BY <2>1
<1>4. \A U \in SUBSET S : pick[U] = CHOOSE x \in U : TRUE
  BY DEF AnyOf
<1>5. \A x \in S, n \in Int : step[<<x, n>>] = g[x] + n /\ step[<<x, n>>] \in Int
  BY <1>2 DEF Plus
<1> HIDE DEF pick, step
<1>6. \A U \in SUBSET S : f[U] \in Int
  <2> DEFINE base == 0
             Acc == Int
  <2>1. base \in Acc /\ IsFold(f, base, step, pick, S)
    BY DEF step, pick
  <2>2. \A x \in S, y \in Acc : step[<<x, y>>] \in Acc
    BY <1>5
  <2> HIDE DEF base, Acc
  <2>3. \A U \in SUBSET S : f[U] \in Acc
    BY <1>2, <1>3, <2>1, <2>2, FoldType
  <2>. QED  BY <2>3 DEF Acc
<1>7. \A U \in SUBSET S : U # {} => f[U] = g[pick[U]] + f[U \ {pick[U]}]
  <2>1. ASSUME NEW U \in SUBSET S, U # {} PROVE f[U] = g[pick[U]] + f[U \ {pick[U]}]
    <3>1. f[U] = step[<<pick[U], f[U \ {pick[U]}]>>]
      BY <2>1 DEF IsFold, pick, step
    <3>2. pick[U] \in S /\ f[U \ {pick[U]}] \in Int
      BY <1>3, <1>6, <2>1
    <3>. QED  BY <1>5, <3>1, <3>2
  <2>. QED  BY <2>1
<1>8. \E c : c = B(c)
  <2> DEFINE c == [U \in SUBSET T |-> f[U]]
  <2>1. ASSUME NEW U \in SUBSET T
        PROVE  c[U] = IF U = {} THEN 0
                      ELSE LET x == CHOOSE x \in U : TRUE IN g[x] + c[U \ {x}]
    <3>1. CASE U = {}
      BY <3>1 DEF IsFold
    <3>2. CASE U # {}
      <4>1. f[U] = g[pick[U]] + f[U \ {pick[U]}] /\ pick[U] = CHOOSE x \in U : TRUE
        BY <1>4, <1>7, <3>2
      <4>. QED  BY <3>2, <4>1
    <3>. QED  BY <3>1, <3>2
  <2>2. c = B(c)
    BY <2>1
  <2>. QED  BY <2>2, Zenon
<1>9. h = B(h)
  <2> HIDE DEF B
  <2>. QED  BY <1>8, Zenon
<1> HIDE DEF h
<1>10. h[T] = f[T]
  <2> DEFINE A == {U \in SUBSET T : h[U] = f[U]}
  <2>1. ASSUME NEW U \in SUBSET T, \A V \in SUBSET U : V # U => V \in A
        PROVE  U \in A
    <3>1. CASE U = {}
      <4>1. h[U] = 0
        BY <1>9, <3>1
      <4>2. f[U] = 0
        BY <3>1 DEF IsFold
      <4>. QED  BY <4>1, <4>2
    <3>2. CASE U # {}
      <4>1. pick[U] \in U /\ pick[U] = CHOOSE x \in U : TRUE
        BY <1>3, <1>4, <3>2
      <4>2. h[U] = g[pick[U]] + h[U \ {pick[U]}]
        BY <1>9, <3>2, <4>1
      <4>3. f[U] = g[pick[U]] + f[U \ {pick[U]}]
        BY <1>7, <3>2
      <4>4. h[U \ {pick[U]}] = f[U \ {pick[U]}]
        BY <2>1, <4>1
      <4>. QED  BY <4>2, <4>3, <4>4
    <3>. QED  BY <3>1, <3>2
  <2>2. \A U \in SUBSET T : U \in A
    <3> HIDE DEF A
    <3>. QED  BY <1>2, <2>1, SubsetInduction
  <2>. QED  BY <2>2
<1>. QED  BY <1>1, <1>6, <1>7, <1>10 DEF pick

\* There is such a fold over every finite set.
LEMMA SumFoldExists ==
  ASSUME NEW S, NEW g, Numeric(g, S)
  PROVE  \E f : IsFold(f, 0, Plus(g, S), AnyOf(S), S)
<1>1. \A U \in SUBSET S : U # {} => AnyOf(S)[U] \in U
  <2>1. ASSUME NEW U \in SUBSET S, U # {} PROVE AnyOf(S)[U] \in U
    BY <2>1, Zenon DEF AnyOf
  <2>. QED  BY <2>1
<1>2. IsFiniteSet(S)
  BY DEF Numeric
<1>. QED  BY <1>1, <1>2, FoldExists

\* A sum of integers is an integer.
LEMMA SumType ==
  ASSUME NEW S, NEW g, Numeric(g, S)
  PROVE  SumOf(g, S) \in Int
<1>1. PICK f : IsFold(f, 0, Plus(g, S), AnyOf(S), S)
  BY SumFoldExists
<1>2. \A T \in SUBSET S : SumOf(g, T) = f[T] /\ f[T] \in Int
  BY <1>1, SumIsFold
<1>. QED  BY <1>2

\* Of nothing, the sum is zero.
LEMMA SumEmpty ==
  ASSUME NEW g
  PROVE  SumOf(g, {}) = 0
<1>1. Numeric(g, {})
  BY FS_EmptySet DEF Numeric
<1>2. PICK f : IsFold(f, 0, Plus(g, {}), AnyOf({}), {})
  BY <1>1, SumFoldExists
<1>3. SumOf(g, {}) = f[{}]
  BY <1>1, <1>2, SumIsFold
<1>. QED  BY <1>2, <1>3 DEF IsFold

\* In whatever order the terms are added.
LEMMA SumRemove ==
  ASSUME NEW S, NEW g, Numeric(g, S), NEW x \in S
  PROVE  SumOf(g, S) = g[x] + SumOf(g, S \ {x})
<1>1. PICK f : IsFold(f, 0, Plus(g, S), AnyOf(S), S)
  BY SumFoldExists
<1> DEFINE pick == AnyOf(S)
           A == {U \in SUBSET S : \A y \in U : f[U] = g[y] + f[U \ {y}]}
<1>2. /\ IsFiniteSet(S) /\ \A y \in S : g[y] \in Int
      /\ \A U \in SUBSET S : /\ SumOf(g, U) = f[U] /\ f[U] \in Int
                             /\ U # {} => f[U] = g[pick[U]] + f[U \ {pick[U]}]
  BY <1>1, SumIsFold DEF Numeric
<1>3. \A U \in SUBSET S : U # {} => pick[U] \in U
  <2>1. ASSUME NEW U \in SUBSET S, U # {} PROVE pick[U] \in U
    BY <2>1, Zenon DEF AnyOf
  <2>. QED  BY <2>1
<1> HIDE DEF pick
<1>4. ASSUME NEW U \in SUBSET S, \A V \in SUBSET U : V # U => V \in A
      PROVE  U \in A
  <2> SUFFICES ASSUME NEW y \in U PROVE f[U] = g[y] + f[U \ {y}]
    OBVIOUS
  <2>1. CASE y = pick[U]
    BY <1>2, <2>1
  <2>2. CASE y # pick[U]
    <3> DEFINE p == pick[U]
    <3>1. p \in U /\ p \in S /\ y \in S
      BY <1>3
    <3> HIDE DEF p
    <3>2. f[U] = g[p] + f[U \ {p}]
      BY <1>2 DEF p
    <3>3. U \ {p} \in A /\ U \ {y} \in A
      BY <1>4, <3>1
    <3>4. f[U \ {p}] = g[y] + f[(U \ {p}) \ {y}]
      BY <2>2, <3>3 DEF p
    <3>5. f[U \ {y}] = g[p] + f[(U \ {y}) \ {p}]
      BY <2>2, <3>1, <3>3 DEF p
    <3>6. PICK W \in SUBSET S : (U \ {p}) \ {y} = W /\ (U \ {y}) \ {p} = W
      OBVIOUS
    <3>7. f[W] \in Int /\ g[p] \in Int /\ g[y] \in Int
      BY <1>2, <3>1
    <3>8. f[U] = g[p] + (g[y] + f[W]) /\ f[U \ {y}] = g[p] + f[W]
      BY <3>2, <3>4, <3>5, <3>6
    <3>. QED  BY <3>7, <3>8
  <2>. QED  BY <2>1, <2>2
<1>5. \A U \in SUBSET S : U \in A
  <2> HIDE DEF A
  <2>. QED  BY <1>2, <1>4, SubsetInduction
<1>6. f[S] = g[x] + f[S \ {x}]
  BY <1>5
<1>. QED  BY <1>2, <1>6

\* Induction by one element at a time.
LEMMA ElementInduction ==
  ASSUME NEW S, IsFiniteSet(S), NEW A, {} \in A,
         \A T \in SUBSET S : \A x \in S \ T : T \in A => T \cup {x} \in A
  PROVE  \A T \in SUBSET S : T \in A
<1>1. ASSUME NEW T \in SUBSET S, \A U \in SUBSET T : U # T => U \in A
      PROVE  T \in A
  <2>1. CASE T = {}
    BY <2>1
  <2>2. CASE T # {}
    <3>1. PICK x \in T : TRUE
      BY <2>2
    <3>2. PICK U \in SUBSET S : U = T \ {x}
      OBVIOUS
    <3>3. U \in SUBSET T /\ U # T /\ x \in S \ U /\ U \cup {x} = T
      BY <3>1, <3>2
    <3>. QED  BY <1>1, <3>3
  <2>. QED  BY <2>1, <2>2
<1>. QED  BY <1>1, SubsetInduction

\* One element more adds its value.
LEMMA SumAddOne ==
  ASSUME NEW S, NEW g, Numeric(g, S), NEW T \in SUBSET S, NEW x \in S \ T
  PROVE  /\ SumOf(g, T \cup {x}) = g[x] + SumOf(g, T)
         /\ SumOf(g, T) \in Int /\ SumOf(g, T \cup {x}) \in Int
<1>1. PICK U \in SUBSET S : U = T \cup {x}
  OBVIOUS
<1>2. Numeric(g, U) /\ Numeric(g, T) /\ x \in U /\ U \ {x} = T
  BY <1>1, FS_Subset DEF Numeric
<1>3. SumOf(g, U) = g[x] + SumOf(g, U \ {x})
  BY <1>2, SumRemove
<1>4. SumOf(g, T) \in Int /\ SumOf(g, U) \in Int
  BY <1>2, SumType
<1>. QED  BY <1>1, <1>2, <1>3, <1>4

\* Only the values on the set count.
LEMMA SumSame ==
  ASSUME NEW S, NEW g, NEW h, Numeric(g, S), \A x \in S : g[x] = h[x]
  PROVE  SumOf(g, S) = SumOf(h, S)
<1> DEFINE A == {T \in SUBSET S : SumOf(g, T) = SumOf(h, T)}
<1>1. Numeric(h, S) /\ IsFiniteSet(S)
  BY DEF Numeric
<1>2. {} \in A
  BY SumEmpty
<1>3. ASSUME NEW T \in SUBSET S, NEW x \in S \ T, T \in A PROVE T \cup {x} \in A
  <2>1. SumOf(g, T \cup {x}) = g[x] + SumOf(g, T)
    BY SumAddOne
  <2>2. SumOf(h, T \cup {x}) = h[x] + SumOf(h, T)
    BY <1>1, SumAddOne
  <2>. QED  BY <1>3, <2>1, <2>2
<1> HIDE DEF A
<1>4. S \in A
  BY <1>1, <1>2, <1>3, ElementInduction
<1>. QED  BY <1>4 DEF A

\* Of one element, the sum is its value.
LEMMA SumSingle ==
  ASSUME NEW x, NEW g, g[x] \in Int
  PROVE  SumOf(g, {x}) = g[x]
<1>1. Numeric(g, {x})
  BY FS_Singleton DEF Numeric
<1>2. SumOf(g, {x}) = g[x] + SumOf(g, {x} \ {x})
  BY <1>1, SumRemove
<1>3. {x} \ {x} = {}
  OBVIOUS
<1>. QED  BY <1>2, <1>3, SumEmpty

\* Two sets without a common element add up.
LEMMA SumDisjoint ==
  ASSUME NEW S, NEW g, Numeric(g, S), NEW R \in SUBSET S, NEW T \in SUBSET S, R \cap T = {}
  PROVE  SumOf(g, R \cup T) = SumOf(g, R) + SumOf(g, T)
<1> DEFINE A == {U \in SUBSET S : U \cap R = {} => SumOf(g, R \cup U) = SumOf(g, R) + SumOf(g, U)}
<1>1. IsFiniteSet(S) /\ Numeric(g, R)
  BY FS_Subset DEF Numeric
<1>2. SumOf(g, R) \in Int
  BY <1>1, SumType
<1>3. {} \in A
  BY <1>2, SumEmpty
<1>4. ASSUME NEW U \in SUBSET S, NEW x \in S \ U, U \in A PROVE U \cup {x} \in A
  <2> SUFFICES ASSUME (U \cup {x}) \cap R = {}
               PROVE  SumOf(g, R \cup (U \cup {x})) = SumOf(g, R) + SumOf(g, U \cup {x})
    OBVIOUS
  <2>1. PICK V \in SUBSET S : V = R \cup U
    OBVIOUS
  <2>2. R \cup (U \cup {x}) = V \cup {x} /\ x \in S \ V /\ g[x] \in Int
    BY <2>1 DEF Numeric
  <2>3. SumOf(g, V \cup {x}) = g[x] + SumOf(g, V)
    BY <2>2, SumAddOne
  <2>4. SumOf(g, U \cup {x}) = g[x] + SumOf(g, U) /\ SumOf(g, U) \in Int
    BY SumAddOne
  <2>5. SumOf(g, V) = SumOf(g, R) + SumOf(g, U)
    BY <1>4, <2>1
  <2>6. SumOf(g, R \cup (U \cup {x})) = SumOf(g, V \cup {x})
    BY <2>2
  <2>. QED  BY <1>2, <2>2, <2>3, <2>4, <2>5, <2>6
<1> HIDE DEF A
<1>5. T \in A
  BY <1>1, <1>3, <1>4, ElementInduction
<1>. QED  BY <1>5 DEF A

\* Sums of natural numbers.
LEMMA SumOfNaturals ==
  ASSUME NEW S, NEW g, IsFiniteSet(S), \A x \in S : g[x] \in Nat
  PROVE  /\ SumOf(g, S) \in Nat
         /\ SumOf(g, S) = 0 <=> \A x \in S : g[x] = 0
<1> DEFINE A == {T \in SUBSET S : SumOf(g, T) \in Nat /\ (SumOf(g, T) = 0 <=> \A x \in T : g[x] = 0)}
<1>1. Numeric(g, S)
  BY DEF Numeric
<1>2. {} \in A
  BY SumEmpty
<1>3. ASSUME NEW T \in SUBSET S, NEW x \in S \ T, T \in A PROVE T \cup {x} \in A
  <2>1. SumOf(g, T \cup {x}) = g[x] + SumOf(g, T) /\ g[x] \in Nat
    BY <1>1, SumAddOne
  <2>2. SumOf(g, T \cup {x}) \in Nat /\ (SumOf(g, T \cup {x}) = 0 <=> g[x] = 0 /\ SumOf(g, T) = 0)
    BY <1>3, <2>1
  <2>. QED  BY <1>3, <2>2
<1> HIDE DEF A
<1>4. S \in A
  BY <1>2, <1>3, ElementInduction
<1>. QED  BY <1>4 DEF A

\* A larger set of naturals has no smaller sum.
LEMMA SumMonotone ==
  ASSUME NEW S, NEW g, IsFiniteSet(S), \A x \in S : g[x] \in Nat, NEW T \in SUBSET S
  PROVE  SumOf(g, T) <= SumOf(g, S)
<1>1. PICK R \in SUBSET S : R = S \ T
  OBVIOUS
<1>2. T \cap R = {} /\ T \cup R = S /\ Numeric(g, S) /\ IsFiniteSet(T) /\ IsFiniteSet(R)
  BY <1>1, FS_Subset DEF Numeric
<1>3. SumOf(g, T \cup R) = SumOf(g, T) + SumOf(g, R)
  BY <1>2, SumDisjoint
<1>4. SumOf(g, T) \in Nat /\ SumOf(g, R) \in Nat
  BY <1>2, SumOfNaturals
<1>5. SumOf(g, S) = SumOf(g, T) + SumOf(g, R)
  BY <1>2, <1>3, Zenon
<1>. QED  BY <1>4, <1>5

\* The sum of sums.
LEMMA SumPlus ==
  ASSUME NEW S, NEW g, NEW h, Numeric(g, S), Numeric(h, S),
         NEW k, \A x \in S : k[x] = g[x] + h[x]
  PROVE  SumOf(k, S) = SumOf(g, S) + SumOf(h, S)
<1> DEFINE A == {T \in SUBSET S : SumOf(k, T) = SumOf(g, T) + SumOf(h, T)}
<1>1. Numeric(k, S) /\ IsFiniteSet(S)
  BY DEF Numeric
<1>2. {} \in A
  BY SumEmpty
<1>3. ASSUME NEW T \in SUBSET S, NEW x \in S \ T, T \in A PROVE T \cup {x} \in A
  <2>1. /\ SumOf(g, T \cup {x}) = g[x] + SumOf(g, T)
        /\ SumOf(g, T) \in Int /\ SumOf(g, T \cup {x}) \in Int
    BY SumAddOne
  <2>2. SumOf(h, T \cup {x}) = h[x] + SumOf(h, T) /\ SumOf(h, T) \in Int
    BY SumAddOne
  <2>3. SumOf(k, T \cup {x}) = k[x] + SumOf(k, T)
    BY <1>1, SumAddOne
  <2>4. g[x] \in Int /\ h[x] \in Int /\ k[x] = g[x] + h[x]
    BY DEF Numeric
  <2>. QED  BY <1>3, <2>1, <2>2, <2>3, <2>4
<1> HIDE DEF A
<1>4. S \in A
  BY <1>1, <1>2, <1>3, ElementInduction
<1>. QED  BY <1>4 DEF A

\* A common factor can be taken out.
LEMMA SumTimes ==
  ASSUME NEW S, NEW g, Numeric(g, S), NEW c \in Int,
         NEW k, \A x \in S : k[x] = c * g[x]
  PROVE  SumOf(k, S) = c * SumOf(g, S)
<1> DEFINE A == {T \in SUBSET S : SumOf(k, T) = c * SumOf(g, T)}
<1>1. Numeric(k, S) /\ IsFiniteSet(S)
  BY DEF Numeric
<1>2. {} \in A
  <2>1. c * 0 = 0
    OBVIOUS
  <2>. QED  BY <2>1, SumEmpty
<1>3. ASSUME NEW T \in SUBSET S, NEW x \in S \ T, T \in A PROVE T \cup {x} \in A
  <2>1. SumOf(g, T \cup {x}) = g[x] + SumOf(g, T) /\ SumOf(g, T) \in Int
    BY SumAddOne
  <2>2. SumOf(k, T \cup {x}) = k[x] + SumOf(k, T)
    BY <1>1, SumAddOne
  <2>3. g[x] \in Int /\ k[x] = c * g[x]
    BY DEF Numeric
  <2>4. \A a, b \in Int : c * (a + b) = c * a + c * b
    OBVIOUS
  <2>. QED  BY <1>3, <2>1, <2>2, <2>3, <2>4
<1> HIDE DEF A
<1>4. S \in A
  BY <1>1, <1>2, <1>3, ElementInduction
<1>. QED  BY <1>4 DEF A

\* Nothing but zeros adds up to zero.
LEMMA SumZero ==
  ASSUME NEW S, IsFiniteSet(S), NEW g, \A x \in S : g[x] = 0
  PROVE  SumOf(g, S) = 0
<1>1. \A x \in S : g[x] \in Nat
  OBVIOUS
<1>. QED  BY <1>1, SumOfNaturals

\* Rows first or columns first.
Column(m, S, v) == [s \in S |-> m[s][v]]

\* The order of two summations does not matter.
LEMMA SumExchange ==
  ASSUME NEW S, IsFiniteSet(S), NEW V, IsFiniteSet(V), NEW m,
         \A s \in S, v \in V : m[s][v] \in Int,
         NEW byRow, \A s \in S : byRow[s] = SumOf(m[s], V),
         NEW byColumn, \A v \in V : byColumn[v] = SumOf(Column(m, S, v), S)
  PROVE  SumOf(byRow, S) = SumOf(byColumn, V)
<1> DEFINE ColumnSums(T) == [v \in V |-> SumOf(Column(m, S, v), T)]
           A == {T \in SUBSET S : SumOf(byRow, T) = SumOf(ColumnSums(T), V)}
<1>1. \A s \in S : Numeric(m[s], V)
  BY DEF Numeric
<1>2. \A v \in V : Numeric(Column(m, S, v), S)
  BY DEF Numeric, Column
<1>3. Numeric(byRow, S)
  BY <1>1, SumType DEF Numeric
<1>4. {} \in A
  <2>1. \A v \in V : ColumnSums({})[v] = 0
    BY SumEmpty
  <2> HIDE DEF ColumnSums
  <2>2. SumOf(ColumnSums({}), V) = 0
    BY <2>1, SumZero
  <2>. QED  BY <2>2, SumEmpty
<1>5. ASSUME NEW T \in SUBSET S, NEW x \in S \ T, T \in A PROVE T \cup {x} \in A
  <2>1. SumOf(byRow, T \cup {x}) = byRow[x] + SumOf(byRow, T)
    BY <1>3, SumAddOne
  <2>2. ASSUME NEW v \in V
        PROVE  /\ ColumnSums(T \cup {x})[v] = m[x][v] + ColumnSums(T)[v]
               /\ ColumnSums(T)[v] \in Int
    <3> DEFINE column == Column(m, S, v)
    <3>1. column[x] = m[x][v] /\ Numeric(column, S)
      BY <1>2 DEF Column
    <3>2. ColumnSums(T)[v] = SumOf(column, T) /\ ColumnSums(T \cup {x})[v] = SumOf(column, T \cup {x})
      OBVIOUS
    <3> HIDE DEF column, ColumnSums
    <3>3. SumOf(column, T \cup {x}) = column[x] + SumOf(column, T) /\ SumOf(column, T) \in Int
      BY <3>1, SumAddOne
    <3>. QED  BY <3>1, <3>2, <3>3
  <2> DEFINE g == m[x]
             h == ColumnSums(T)
             k == ColumnSums(T \cup {x})
  <2>3. Numeric(g, V) /\ Numeric(h, V) /\ \A v \in V : k[v] = g[v] + h[v]
    BY <1>1, <2>2 DEF Numeric
  <2>4. SumOf(h, V) = SumOf(byRow, T) /\ byRow[x] = SumOf(g, V)
    BY <1>5
  <2> HIDE DEF g, h, k
  <2>5. SumOf(k, V) = SumOf(g, V) + SumOf(h, V)
    BY <2>3, SumPlus
  <2>6. SumOf(k, V) = SumOf(byRow, T \cup {x})
    BY <2>1, <2>4, <2>5
  <2>. QED  BY <2>6 DEF k
<1>6. S \in A
  <2> HIDE DEF A
  <2>. QED  BY <1>4, <1>5, ElementInduction
<1>7. \A v \in V : ColumnSums(S)[v] = byColumn[v]
  OBVIOUS
<1>8. Numeric(ColumnSums(S), V)
  <2>1. ASSUME NEW v \in V PROVE ColumnSums(S)[v] \in Int
    BY <1>2, SumType
  <2>. QED  BY <2>1 DEF Numeric
<1>9. SumOf(byRow, S) = SumOf(ColumnSums(S), V)
  BY <1>6
<1> HIDE DEF ColumnSums
<1>. QED  BY <1>7, <1>8, <1>9, SumSame

\* A sum over S is the sum over its parts.
Fiber(c, S, k) == {x \in S : c[x] = k}

\* A sum is the sum of the sums of its groups.
LEMMA SumPartition ==
  ASSUME NEW S, NEW g, Numeric(g, S), NEW K, IsFiniteSet(K),
         NEW c, \A x \in S : c[x] \in K,
         NEW h, \A k \in K : h[k] = SumOf(g, Fiber(c, S, k))
  PROVE  SumOf(g, S) = SumOf(h, K)
<1> DEFINE In(J) == {x \in S : c[x] \in J}
           A == {J \in SUBSET K : SumOf(g, In(J)) = SumOf(h, J)}
<1>1. \A T \in SUBSET S : Numeric(g, T)
  BY FS_Subset DEF Numeric
<1>2. \A k \in K : Fiber(c, S, k) \in SUBSET S
  BY DEF Fiber
<1>3. Numeric(h, K)
  <2>1. ASSUME NEW k \in K PROVE h[k] \in Int
    <3>1. PICK T \in SUBSET S : T = Fiber(c, S, k)
      BY <1>2
    <3>2. SumOf(g, T) \in Int
      BY <1>1, SumType
    <3>3. h[k] = SumOf(g, T)
      BY <3>1
    <3>. QED  BY <3>2, <3>3
  <2>. QED  BY <2>1 DEF Numeric
<1>4. {} \in A
  <2>1. In({}) = {}
    OBVIOUS
  <2> HIDE DEF In
  <2>. QED  BY <2>1, SumEmpty
<1>5. ASSUME NEW J \in SUBSET K, NEW k \in K \ J, J \in A PROVE J \cup {k} \in A
  <2>1. PICK R \in SUBSET S : R = In(J)
    OBVIOUS
  <2>2. PICK T \in SUBSET S : T = Fiber(c, S, k)
    BY <1>2
  <2>3. R \cap T = {} /\ In(J \cup {k}) = R \cup T
    BY <2>1, <2>2 DEF Fiber
  <2>4. SumOf(g, R \cup T) = SumOf(g, R) + SumOf(g, T)
    BY <2>3, SumDisjoint
  <2>5. SumOf(h, J \cup {k}) = h[k] + SumOf(h, J)
    BY <1>3, SumAddOne
  <2>6. h[k] = SumOf(g, T)
    BY <2>2
  <2>7. SumOf(h, J) = SumOf(g, R)
    BY <1>5, <2>1
  <2>8. SumOf(g, R) \in Int /\ SumOf(g, T) \in Int
    BY <1>1, SumType
  <2>9. SumOf(g, In(J \cup {k})) = SumOf(g, R \cup T)
    BY <2>3
  <2> HIDE DEF In
  <2>. QED  BY <2>4, <2>5, <2>6, <2>7, <2>8, <2>9
<1>6. K \in A
  <2> HIDE DEF A
  <2>. QED  BY <1>4, <1>5, ElementInduction
<1>7. In(K) = S
  OBVIOUS
<1> HIDE DEF In
<1>. QED  BY <1>6, <1>7

------------------------------------------------------------------------------

\* A finite set of integers has a least and a greatest element.
LEMMA Bounds ==
  ASSUME NEW S, IsFiniteSet(S), S \subseteq Int, S # {}
  PROVE  /\ Min(S) \in S /\ \A x \in S : Min(S) <= x
         /\ Max(S) \in S /\ \A x \in S : x <= Max(S)
<1> DEFINE A == {T \in SUBSET S : T # {} => /\ \E m \in T : \A x \in T : m <= x
                                           /\ \E m \in T : \A x \in T : m >= x}
<1>1. {} \in A
  OBVIOUS
<1>2. ASSUME NEW T \in SUBSET S, NEW y \in S \ T, T \in A PROVE T \cup {y} \in A
  <2>1. CASE T = {}
    BY <2>1
  <2>2. CASE T # {}
    <3>1. PICK l \in T : \A x \in T : l <= x
      BY <1>2, <2>2
    <3>2. PICK g \in T : \A x \in T : g >= x
      BY <1>2, <2>2
    <3>3. \E m \in T \cup {y} : \A x \in T \cup {y} : m <= x
      <4>1. CASE l <= y
        BY <3>1, <4>1
      <4>2. CASE ~ (l <= y)
        BY <3>1, <4>2
      <4>. QED  BY <4>1, <4>2
    <3>4. \E m \in T \cup {y} : \A x \in T \cup {y} : m >= x
      <4>1. CASE g >= y
        BY <3>2, <4>1
      <4>2. CASE ~ (g >= y)
        BY <3>2, <4>2
      <4>. QED  BY <4>1, <4>2
    <3>. QED  BY <3>3, <3>4
  <2>. QED  BY <2>1, <2>2
<1>3. S \in A
  <2> HIDE DEF A
  <2>. QED  BY <1>1, <1>2, ElementInduction
<1>4. Min(S) \in S /\ \A x \in S : Min(S) <= x
  <2>1. \E m \in S : \A x \in S : m <= x
    BY <1>3
  <2>. QED  BY <2>1, Zenon DEF Min
<1>5. Max(S) \in S /\ \A x \in S : Max(S) >= x
  <2>1. \E m \in S : \A x \in S : m >= x
    BY <1>3
  <2>. QED  BY <2>1, Zenon DEF Max
<1>. QED  BY <1>4, <1>5

\* Two elements are a finite set ...
LEMMA PairIsFinite ==
  ASSUME NEW x, NEW y
  PROVE  IsFiniteSet({x, y})
<1>1. IsFiniteSet({x})
  BY FS_Singleton
<1>2. IsFiniteSet({x} \cup {y})
  BY <1>1, FS_AddElement
<1>3. {x} \cup {y} = {x, y}
  OBVIOUS
<1>. QED  BY <1>2, <1>3

\* ... and so is what a function makes of a finite one.
LEMMA ImageIsFinite ==
  ASSUME NEW S, IsFiniteSet(S), NEW K, NEW f, \A x \in S : f[x] \in K,
         \A k \in K : \E x \in S : f[x] = k
  PROVE  IsFiniteSet(K)
<1> DEFINE g == [x \in S |-> f[x]]
<1>1. g \in [S -> K] /\ \A k \in K : \E x \in S : g[x] = k
  OBVIOUS
<1> HIDE DEF g
<1>2. g \in Surjection(S, K)
  BY <1>1 DEF Surjection
<1>. QED  BY <1>2, FS_Surjection

------------------------------------------------------------------------------
(***************************************************************************)
(* Metrics                                                                 *)
(***************************************************************************)

\* What one bag of measurements amounts to, as sums.
LEMMA BagSums ==
  ASSUME NEW bag
  PROVE  /\ Size(bag) = SumOf(bag, Values)
         /\ Total(bag) = SumOf([v \in Values |-> v * bag[v]], Values)
<1>1. Size(bag) = SumOf(bag, Values)
  BY DEF Size, SumOf
<1>2. Total(bag) = SumOf([v \in Values |-> v * bag[v]], Values)
  BY Zenon DEF Total, MapThenSumSet, MapThenFoldSet, SumOf
<1>. QED  BY <1>1, <1>2

Bag(bag) == \A v \in Values : bag[v] \in Nat
AtMost(bag, v) == SumOf(bag, {w \in Values : w <= v})
Below(bag, v) == SumOf(bag, {w \in Values : w < v})

\* At the largest value, all of the bag is counted.
LEMMA Cumulative ==
  ASSUME NEW bag, Bag(bag)
  PROVE  /\ Size(bag) \in Nat
         /\ \A v \in Values : /\ AtMost(bag, v) \in Nat /\ Below(bag, v) \in Nat
                              /\ AtMost(bag, v) = Below(bag, v) + bag[v]
         /\ \A v, w \in Values : v < w => AtMost(bag, v) <= Below(bag, w)
         /\ \A v \in Values : Below(bag, v) # 0 =>
              \E w \in Values : w < v /\ AtMost(bag, w) = Below(bag, v)
         /\ Size(bag) # 0 => Values # {} /\ Max(Values) \in Values /\ AtMost(bag, Max(Values)) = Size(bag)
<1>1. /\ IsFiniteSet(Values) /\ Values \subseteq Int /\ Numeric(bag, Values)
      /\ \A T \in SUBSET Values : IsFiniteSet(T) /\ \A v \in T : bag[v] \in Nat
  <2>1. IsFiniteSet(Values) /\ Values \subseteq Int /\ \A v \in Values : bag[v] \in Nat
    BY MetricsAssumption DEF Bag
  <2>2. \A T \in SUBSET Values : IsFiniteSet(T)
    BY <2>1, FS_Subset
  <2>. QED  BY <2>1, <2>2 DEF Numeric
<1>2. \A T \in SUBSET Values : SumOf(bag, T) \in Nat
  BY <1>1, SumOfNaturals
<1>3. Size(bag) = SumOf(bag, Values) /\ Size(bag) \in Nat
  <2>1. Values \in SUBSET Values
    OBVIOUS
  <2>. QED  BY <1>2, <2>1, BagSums
<1>4. ASSUME NEW v \in Values
      PROVE  /\ AtMost(bag, v) \in Nat /\ Below(bag, v) \in Nat
             /\ AtMost(bag, v) = Below(bag, v) + bag[v]
  <2>1. PICK T \in SUBSET Values : T = {w \in Values : w < v}
    OBVIOUS
  <2>2. v \in Values \ T /\ T \cup {v} = {w \in Values : w <= v}
    <3>1. \A w \in Values : w <= v <=> w < v \/ w = v
      BY <1>1
    <3>2. ~ (v < v)
      BY <1>1
    <3>. QED  BY <2>1, <3>1, <3>2
  <2>3. SumOf(bag, T \cup {v}) = bag[v] + SumOf(bag, T)
    BY <1>1, <2>2, SumAddOne
  <2>4. AtMost(bag, v) = SumOf(bag, T \cup {v})
    BY <2>2 DEF AtMost
  <2>5. Below(bag, v) = SumOf(bag, T) /\ SumOf(bag, T) \in Nat /\ bag[v] \in Nat
    BY <1>1, <1>2, <2>1 DEF Below
  <2>. QED  BY <2>3, <2>4, <2>5
<1>5. ASSUME NEW v \in Values, NEW w \in Values, v < w PROVE AtMost(bag, v) <= Below(bag, w)
  <2>1. PICK S \in SUBSET Values : S = {x \in Values : x < w}
    OBVIOUS
  <2>2. PICK T \in SUBSET S : T = {x \in Values : x <= v}
    <3>1. \A x \in Values : x <= v => x < w
      BY <1>1, <1>5
    <3>. QED  BY <2>1, <3>1
  <2>3. IsFiniteSet(S) /\ \A x \in S : bag[x] \in Nat
    BY <1>1
  <2>4. SumOf(bag, T) <= SumOf(bag, S)
    BY <2>3, SumMonotone
  <2>. QED  BY <2>1, <2>2, <2>4 DEF AtMost, Below
<1>6. ASSUME NEW v \in Values, Below(bag, v) # 0
      PROVE  \E w \in Values : w < v /\ AtMost(bag, w) = Below(bag, v)
  <2>1. PICK T \in SUBSET Values : T = {w \in Values : w < v}
    OBVIOUS
  <2>2. T # {}
    <3>1. SumOf(bag, T) # 0
      BY <1>6, <2>1 DEF Below
    <3>. QED  BY <3>1, SumEmpty
  <2>3. PICK w : w = Max(T) /\ w \in T /\ \A x \in T : x <= w
    <3>1. IsFiniteSet(T) /\ T \subseteq Int
      BY <1>1
    <3>. QED  BY <2>2, <3>1, Bounds
  <2>4. T = {x \in Values : x <= w}
    <3>1. w \in Values /\ w < v
      BY <2>1, <2>3
    <3>2. \A x \in Values : x <= w => x < v
      BY <1>1, <3>1
    <3>. QED  BY <2>1, <2>3, <3>2
  <2>5. AtMost(bag, w) = SumOf(bag, T)
    BY <2>4 DEF AtMost
  <2>6. Below(bag, v) = SumOf(bag, T)
    BY <2>1 DEF Below
  <2>. QED  BY <2>1, <2>3, <2>5, <2>6
<1>7. ASSUME Size(bag) # 0
      PROVE  Values # {} /\ Max(Values) \in Values /\ AtMost(bag, Max(Values)) = Size(bag)
  <2>1. Values # {}
    BY <1>3, <1>7, SumEmpty
  <2>2. Max(Values) \in Values /\ \A x \in Values : x <= Max(Values)
    BY <1>1, <2>1, Bounds
  <2>3. {x \in Values : x <= Max(Values)} = Values
    BY <2>2
  <2>4. AtMost(bag, Max(Values)) = SumOf(bag, Values)
    BY <2>3 DEF AtMost
  <2>. QED  BY <1>3, <2>1, <2>2, <2>4
<1>. QED  BY <1>3, <1>4, <1>5, <1>6, <1>7

\* Nearest rank: the least value with 95 of 100 at or below it.
LEMMA NearestRank ==
  ASSUME NEW bag, Bag(bag), Size(bag) # 0,
         NEW G, G = {v \in Values : AtMost(bag, v) > 0 /\ 100 * AtMost(bag, v) >= 95 * Size(bag)}
  PROVE  Percentile(bag) = Min(G)
<1>1. PICK n : n = Size(bag)
  OBVIOUS
<1>2. PICK rank : rank = (19 * n + 19) \div 20
  OBVIOUS
<1>3. /\ n \in Nat /\ n > 0 /\ Values \subseteq Int /\ IsFiniteSet(Values)
      /\ \A v \in Values : /\ AtMost(bag, v) \in Nat /\ Below(bag, v) \in Nat /\ bag[v] \in Nat
                           /\ AtMost(bag, v) = Below(bag, v) + bag[v]
      /\ \A v, w \in Values : v < w => AtMost(bag, v) <= Below(bag, w)
      /\ \A v \in Values : Below(bag, v) # 0 =>
           \E w \in Values : w < v /\ AtMost(bag, w) = Below(bag, v)
      /\ Max(Values) \in Values /\ AtMost(bag, Max(Values)) = n
  BY <1>1, Cumulative, MetricsAssumption DEF Bag
<1>4. rank \in Nat /\ 1 <= rank /\ rank <= n /\ \A c \in Nat : c >= rank <=> 100 * c >= 95 * n
  BY <1>2, <1>3
<1>5. Min({n - 1, Max({0, rank - 1})}) = rank - 1
  <2>1. Max({0, rank - 1}) = rank - 1
    <3>1. PICK S : S = {0, rank - 1}
      OBVIOUS
    <3>2. S \subseteq Int /\ S # {} /\ \A x \in S : x <= rank - 1
      BY <1>4, <3>1
    <3>3. IsFiniteSet(S)
      BY <3>1, PairIsFinite
    <3>4. Max(S) \in S /\ \A x \in S : x <= Max(S)
      BY <3>2, <3>3, Bounds
    <3>. QED  BY <1>4, <3>1, <3>2, <3>4
  <2>2. PICK S : S = {n - 1, rank - 1}
    OBVIOUS
  <2>3. S \subseteq Int /\ S # {} /\ \A x \in S : x >= rank - 1
    BY <1>3, <1>4, <2>2
  <2>35. IsFiniteSet(S)
    BY <2>2, PairIsFinite
  <2>4. Min(S) \in S /\ \A x \in S : Min(S) <= x
    BY <2>3, <2>35, Bounds
  <2>5. Min(S) = rank - 1
    BY <1>3, <1>4, <2>2, <2>3, <2>4
  <2>. QED  BY <2>1, <2>2, <2>5
<1>6. G = {v \in Values : AtMost(bag, v) >= rank}
  <2>1. ASSUME NEW v \in Values
        PROVE  AtMost(bag, v) > 0 /\ 100 * AtMost(bag, v) >= 95 * Size(bag) <=> AtMost(bag, v) >= rank
    <3>1. PICK c \in Nat : c = AtMost(bag, v)
      BY <1>3
    <3>2. c >= rank <=> 100 * c >= 95 * n
      BY <1>4
    <3>3. c >= rank => c > 0
      BY <1>4
    <3>. QED  BY <1>1, <3>1, <3>2, <3>3
  <2>. QED  BY <2>1
<1>7. /\ Min(G) \in Values /\ AtMost(bag, Min(G)) >= rank
      /\ \A v \in Values : AtMost(bag, v) >= rank => Min(G) <= v
  <2>1. IsFiniteSet(G) /\ G \subseteq Int
    BY <1>3, <1>6, FS_Subset
  <2>2. G # {}
    BY <1>3, <1>4, <1>6
  <2>. QED  BY <1>6, <2>1, <2>2, Bounds
<1>8. PICK m : m = Min(G)
  OBVIOUS
<1>9. /\ m \in Values /\ m \in Int /\ AtMost(bag, m) >= rank
      /\ AtMost(bag, m) \in Nat /\ Below(bag, m) \in Nat /\ bag[m] \in Nat
      /\ AtMost(bag, m) = Below(bag, m) + bag[m]
  BY <1>3, <1>7, <1>8
<1>10. Below(bag, m) <= rank - 1
  <2> SUFFICES ASSUME ~ (Below(bag, m) <= rank - 1) PROVE FALSE
    OBVIOUS
  <2>1. Below(bag, m) >= rank /\ Below(bag, m) # 0
    BY <1>4, <1>9
  <2>2. PICK w \in Values : w < m /\ AtMost(bag, w) = Below(bag, m)
    BY <1>3, <1>9, <2>1
  <2>3. m <= w /\ w \in Int
    BY <1>3, <1>7, <1>8, <2>1, <2>2
  <2>. QED  BY <1>9, <2>2, <2>3
<1> DEFINE Found(v) == /\ bag[v] > 0
                       /\ Below(bag, v) <= rank - 1
                       /\ AtMost(bag, v) > rank - 1
<1>11. Found(m)
  BY <1>4, <1>9, <1>10
<1>13. ASSUME NEW v \in Values, Found(v) PROVE v = m
  <2>1. v \in Int /\ AtMost(bag, v) \in Nat /\ Below(bag, v) \in Nat
    BY <1>3
  <2>2. AtMost(bag, v) >= rank /\ Below(bag, v) < rank
    BY <1>4, <1>13, <2>1
  <2>3. m <= v
    BY <1>7, <1>8, <2>2
  <2>4. m < v => AtMost(bag, m) <= Below(bag, v)
    BY <1>3, <1>9
  <2>5. ~ (m < v)
    BY <1>4, <1>9, <2>1, <2>2, <2>4
  <2>. QED  BY <1>9, <2>1, <2>3, <2>5
<1>12. Percentile(bag) = CHOOSE v \in Values : Found(v)
  <2>1. SortedAt(bag, rank - 1) = CHOOSE v \in Values : Found(v)
    BY DEF SortedAt, AtMost, Below, SumOf
  <2>2. Percentile(bag) = SortedAt(bag, Min({n - 1, Max({0, rank - 1})}))
    BY <1>1, <1>2 DEF Percentile
  <2>. QED  BY <1>5, <2>1, <2>2
<1> HIDE DEF Found
<1>14. (CHOOSE v \in Values : Found(v)) = m
  BY <1>9, <1>11, <1>13
<1>. QED  BY <1>8, <1>12, <1>14

------------------------------------------------------------------------------

\* The rows of one stream.
LEMMA StreamSums ==
  ASSUME MetricsTypeOK, NEW s \in Streams
  PROVE  /\ Bag(samples[s]) /\ Total(samples[s]) \in Int /\ Size(samples[s]) \in Nat
         /\ Size(samples[s]) = 0 <=> \A v \in Values : samples[s][v] = 0
         /\ Size(samples[s]) = 0 => Total(samples[s]) = 0
<1> DEFINE g == [v \in Values |-> v * samples[s][v]]
<1>1. /\ \A v \in Values : samples[s][v] \in Nat
      /\ IsFiniteSet(Values) /\ Values \subseteq Int
  BY MetricsAssumption DEF MetricsTypeOK
<1>2. Size(samples[s]) = SumOf(samples[s], Values) /\ Total(samples[s]) = SumOf(g, Values)
  BY BagSums
<1>3. /\ SumOf(samples[s], Values) \in Nat
      /\ SumOf(samples[s], Values) = 0 <=> \A v \in Values : samples[s][v] = 0
  BY <1>1, SumOfNaturals
<1>4. ASSUME NEW v \in Values PROVE g[v] \in Int /\ (samples[s][v] = 0 => g[v] = 0)
  <2>1. PICK n \in Nat : n = samples[s][v]
    BY <1>1
  <2>2. v \in Int /\ v * n \in Int /\ v * 0 = 0 /\ g[v] = v * n
    BY <1>1, <2>1
  <2>. QED  BY <2>1, <2>2
<1> HIDE DEF g
<1>5. SumOf(g, Values) \in Int
  BY <1>1, <1>4, SumType DEF Numeric
<1>6. Size(samples[s]) = 0 => Total(samples[s]) = 0
  BY <1>1, <1>2, <1>3, <1>4, SumZero
<1>. QED  BY <1>1, <1>2, <1>3, <1>5, <1>6 DEF Bag

\* The bag of several streams: what it amounts to is the sum over them.
IsMerged(bag, T) == \A v \in Values : bag[v] = SumOf(Column(samples, T, v), T)

\* Of a part of the values, a merged bag has what the streams have together ...
LEMMA MergedPart ==
  ASSUME MetricsTypeOK, NEW T \in SUBSET Streams, NEW bag, IsMerged(bag, T),
         NEW V \in SUBSET Values, NEW g, \A s \in T : g[s] = SumOf(samples[s], V)
  PROVE  SumOf(bag, V) = SumOf(g, T)
<1>1. IsFiniteSet(T) /\ IsFiniteSet(V)
  BY MetricsAssumption, FS_Subset
<1>2. \A s \in T, v \in V : samples[s][v] \in Int
  BY DEF MetricsTypeOK
<1>3. \A v \in V : bag[v] = SumOf(Column(samples, T, v), T)
  BY DEF IsMerged
<1>. QED  BY <1>1, <1>2, <1>3, SumExchange

\* ... and its total is that of the streams together.
LEMMA MergedTotal ==
  ASSUME MetricsTypeOK, NEW T \in SUBSET Streams, NEW bag, IsMerged(bag, T),
         NEW g, \A s \in T : g[s] = Total(samples[s])
  PROVE  Total(bag) = SumOf(g, T)
<1> DEFINE m == [s \in T |-> [v \in Values |-> v * samples[s][v]]]
           k == [v \in Values |-> v * bag[v]]
<1>1. IsFiniteSet(T) /\ IsFiniteSet(Values) /\ Values \subseteq Int
  BY MetricsAssumption, FS_Subset
<1>2. \A s \in T, v \in Values : samples[s][v] \in Int
  BY DEF MetricsTypeOK
<1>3. \A s \in T, v \in Values : m[s][v] \in Int
  BY <1>1, <1>2
<1>4. ASSUME NEW s \in T PROVE g[s] = SumOf(m[s], Values)
  BY BagSums
<1>5. ASSUME NEW v \in Values PROVE k[v] = SumOf(Column(m, T, v), T)
  <2> DEFINE a == Column(samples, T, v)
             b == Column(m, T, v)
  <2>1. Numeric(a, T) /\ v \in Int
    BY <1>1, <1>2 DEF Numeric, Column
  <2>2. \A s \in T : b[s] = v * a[s]
    BY DEF Column
  <2>3. k[v] = v * bag[v] /\ bag[v] = SumOf(a, T)
    BY DEF IsMerged
  <2> HIDE DEF a, b, k, m
  <2>4. SumOf(b, T) = v * SumOf(a, T)
    BY <2>1, <2>2, SumTimes
  <2>5. k[v] = SumOf(b, T)
    BY <2>3, <2>4
  <2>. QED  BY <2>5 DEF b
<1>6. Total(bag) = SumOf(k, Values)
  BY BagSums
<1>7. PICK byValue : byValue = m
  OBVIOUS
<1>8. PICK all : all = k
  OBVIOUS
<1> HIDE DEF m, k
<1>9. SumOf(g, T) = SumOf(all, Values)
  <2>1. \A s \in T, v \in Values : byValue[s][v] \in Int
    BY <1>3, <1>7
  <2>2. \A s \in T : g[s] = SumOf(byValue[s], Values)
    BY <1>4, <1>7
  <2>3. \A v \in Values : all[v] = SumOf(Column(byValue, T, v), T)
    BY <1>5, <1>7, <1>8
  <2>4. IsFiniteSet(T) /\ IsFiniteSet(Values)
    BY <1>1
  <2>. QED  BY <2>1, <2>2, <2>3, <2>4, SumExchange
<1>. QED  BY <1>6, <1>8, <1>9

Totals == [s \in Streams |-> Total(samples[s])]
Sizes == [s \in Streams |-> Size(samples[s])]
Recorded(selected) == {s \in selected : Size(samples[s]) > 0}

\* Totals and sizes are numbers, and a stream without rows adds nothing.
LEMMA StreamTotals ==
  ASSUME MetricsTypeOK
  PROVE  /\ Numeric(Totals, Streams) /\ \A s \in Streams : Sizes[s] \in Nat
         /\ \A T \in SUBSET Streams : IsFiniteSet(T) /\ Numeric(Totals, T)
         /\ \A T \in SUBSET Streams : SumOf(Totals, Recorded(T)) = SumOf(Totals, T)
<1>1. IsFiniteSet(Streams) /\ \A T \in SUBSET Streams : IsFiniteSet(T)
  BY MetricsAssumption, FS_Subset
<1>2. ASSUME NEW s \in Streams PROVE Totals[s] \in Int /\ Sizes[s] \in Nat
  BY StreamSums DEF Totals, Sizes
<1>3. \A T \in SUBSET Streams : Numeric(Totals, T)
  BY <1>1, <1>2 DEF Numeric
<1>4. ASSUME NEW T \in SUBSET Streams PROVE SumOf(Totals, Recorded(T)) = SumOf(Totals, T)
  <2>1. PICK R \in SUBSET T : R = Recorded(T)
    BY DEF Recorded
  <2>2. PICK Q \in SUBSET T : Q = T \ R
    OBVIOUS
  <2>3. ASSUME NEW s \in Q PROVE Totals[s] = 0
    <3>1. s \in Streams /\ ~ (Size(samples[s]) > 0)
      BY <2>1, <2>2 DEF Recorded
    <3>2. Size(samples[s]) \in Nat /\ (Size(samples[s]) = 0 => Total(samples[s]) = 0)
      BY <3>1, StreamSums
    <3>. QED  BY <3>1, <3>2 DEF Totals
  <2>4. R \cup Q = T /\ R \cap Q = {} /\ Numeric(Totals, T) /\ Numeric(Totals, R) /\ IsFiniteSet(Q)
    BY <1>1, <1>3, <2>2
  <2>5. SumOf(Totals, R \cup Q) = SumOf(Totals, R) + SumOf(Totals, Q)
    BY <2>4, SumDisjoint
  <2>6. SumOf(Totals, Q) = 0
    BY <2>3, <2>4, SumZero
  <2>7. SumOf(Totals, R) \in Int
    BY <2>4, SumType
  <2>8. SumOf(Totals, T) = SumOf(Totals, R) + SumOf(Totals, Q)
    BY <2>4, <2>5, Zenon
  <2>. QED  BY <2>1, <2>6, <2>7, <2>8
<1>. QED  BY <1>1, <1>2, <1>3, <1>4

\* A bucket is the bag of the streams that share its key; all of them
\* together are what was selected.
Sharing(selected, column, k) == {s \in Recorded(selected) : s[column] = k}
IsBucket(bag, T) ==
  /\ T # {} /\ bag = [v \in Values |-> MapThenSumSet(LAMBDA s : samples[s][v], T)]
  /\ IsMerged(bag, T) /\ Bag(bag)
  /\ Total(bag) = SumOf(Totals, T) /\ Total(bag) \in Int
  /\ Size(bag) \in Nat /\ Size(bag) > 0
BucketTotals(grouped) == [k \in DOMAIN grouped |-> Total(grouped[k])]

\* What GroupRows makes of the rows selected.
LEMMA Buckets ==
  ASSUME MetricsTypeOK, NEW selected \in SUBSET Streams, NEW column,
         NEW grouped, grouped = GroupRows(selected, column)
  PROVE  /\ IsFiniteSet(DOMAIN grouped) /\ DOMAIN grouped = {s[column] : s \in Recorded(selected)}
         /\ \A k \in DOMAIN grouped : IsBucket(grouped[k], Sharing(selected, column, k))
         /\ SumOf(BucketTotals(grouped), DOMAIN grouped) = SumOf(Totals, selected)
<1>0. PICK K : K = DOMAIN grouped
  OBVIOUS
<1> DEFINE found == Recorded(selected)
           Of(k) == Sharing(selected, column, k)
<1>1. /\ K = {s[column] : s \in found}
      /\ \A k \in K : grouped[k] = [v \in Values |-> MapThenSumSet(LAMBDA s : samples[s][v], Of(k))]
  BY <1>0 DEF GroupRows, Recorded, Sharing
<1>2. found \in SUBSET Streams /\ IsFiniteSet(found) /\ \A k : Of(k) \in SUBSET Streams
  BY StreamTotals DEF Recorded, Sharing
<1>3. IsFiniteSet(K)
  <2> DEFINE f == [s \in found |-> s[column]]
  <2>1. (\A s \in found : f[s] \in K) /\ \A k \in K : \E s \in found : f[s] = k
    BY <1>1
  <2> HIDE DEF found, f
  <2>. QED  BY <1>2, <2>1, ImageIsFinite
<1>4. ASSUME NEW k \in K PROVE IsBucket(grouped[k], Of(k))
  <2>1. PICK T \in SUBSET Streams : T = Of(k)
    BY <1>2
  <2>2. PICK bag : bag = grouped[k]
    OBVIOUS
  <2>3. T # {} /\ \A s \in T : Size(samples[s]) > 0
    BY <1>1, <2>1 DEF Recorded, Sharing
  <2> HIDE DEF found, Of
  <2>4. ASSUME NEW v \in Values PROVE bag[v] = SumOf(Column(samples, T, v), T)
    <3>1. bag[v] = MapThenSumSet(LAMBDA s : samples[s][v], T)
      BY <1>1, <2>1, <2>2
    <3>2. MapThenSumSet(LAMBDA s : samples[s][v], T) = SumOf(Column(samples, T, v), T)
      BY Zenon DEF MapThenSumSet, MapThenFoldSet, SumOf, Column
    <3>. QED  BY <3>1, <3>2
  <2>5. IsMerged(bag, T)
    BY <2>4 DEF IsMerged
  <2>6. Total(bag) = SumOf(Totals, T) /\ SumOf(Totals, T) \in Int
    <3>1. \A s \in T : Totals[s] = Total(samples[s])
      BY DEF Totals
    <3>2. Numeric(Totals, T)
      BY StreamTotals
    <3>. QED  BY <2>5, <3>1, <3>2, MergedTotal, SumType
  <2>7. Size(bag) = SumOf(Sizes, T)
    <3>1. \A s \in T : Sizes[s] = SumOf(samples[s], Values)
      BY BagSums DEF Sizes
    <3>2. Values \in SUBSET Values
      OBVIOUS
    <3>3. SumOf(bag, Values) = SumOf(Sizes, T)
      BY <2>5, <3>1, <3>2, MergedPart
    <3>. QED  BY <3>3, BagSums
  <2>8. IsFiniteSet(T) /\ \A s \in T : Sizes[s] \in Nat /\ Sizes[s] # 0
    <3>1. IsFiniteSet(T)
      BY StreamTotals
    <3>2. ASSUME NEW s \in T PROVE Sizes[s] \in Nat /\ Sizes[s] # 0
      BY <2>3, StreamTotals DEF Sizes
    <3>. QED  BY <3>1, <3>2
  <2>9. SumOf(Sizes, T) \in Nat /\ SumOf(Sizes, T) # 0
    BY <2>3, <2>8, SumOfNaturals
  <2>10. Bag(bag)
    <3>1. ASSUME NEW v \in Values PROVE bag[v] \in Nat
      <4> DEFINE a == Column(samples, T, v)
      <4>1. \A s \in T : a[s] \in Nat
        BY DEF MetricsTypeOK, Column
      <4>2. bag[v] = SumOf(a, T)
        BY <2>4
      <4> HIDE DEF a
      <4>. QED  BY <2>8, <4>1, <4>2, SumOfNaturals
    <3>. QED  BY <3>1 DEF Bag
  <2>11. bag = [v \in Values |-> MapThenSumSet(LAMBDA s : samples[s][v], T)]
    BY <1>1, <2>1, <2>2
  <2>12. Size(bag) \in Nat /\ Size(bag) > 0
    BY <2>7, <2>9
  <2>13. IsBucket(bag, T)
    BY <2>3, <2>5, <2>6, <2>10, <2>11, <2>12 DEF IsBucket
  <2>. QED  BY <2>1, <2>2, <2>13
<1>5. SumOf(BucketTotals(grouped), K) = SumOf(Totals, found)
  <2> DEFINE c == [s \in found |-> s[column]]
             h == BucketTotals(grouped)
  <2>1. \A s \in found : c[s] \in K
    BY <1>1
  <2>2. \A k \in K : Fiber(c, found, k) = Of(k)
    BY DEF Fiber, Sharing
  <2>3. ASSUME NEW k \in K PROVE h[k] = SumOf(Totals, Fiber(c, found, k))
    <3>1. h[k] = SumOf(Totals, Of(k))
      BY <1>0, <1>4 DEF IsBucket, BucketTotals
    <3>2. Fiber(c, found, k) = Of(k)
      BY <2>2
    <3>. QED  BY <3>1, <3>2, Zenon
  <2>4. Numeric(Totals, found)
    BY <1>2, StreamTotals
  <2> HIDE DEF found, c, h
  <2>5. SumOf(Totals, found) = SumOf(h, K)
    BY <1>3, <2>1, <2>3, <2>4, SumPartition
  <2>. QED  BY <2>5 DEF h
<1>6. SumOf(Totals, found) = SumOf(Totals, selected)
  BY StreamTotals
<1>. QED  BY <1>0, <1>1, <1>3, <1>4, <1>5, <1>6

\* The sum of a stream's row, taken over a set of streams.
LEMMA RowsAreTotals ==
  ASSUME MetricsTypeOK, NEW T \in SUBSET Streams
  PROVE  MapThenSumSet(LAMBDA s : Total(samples[s]), T) = SumOf(Totals, T)
<1> DEFINE g == [s \in T |-> Total(samples[s])]
<1>1. MapThenSumSet(LAMBDA s : Total(samples[s]), T) = SumOf(g, T)
  BY Zenon DEF MapThenSumSet, MapThenFoldSet, SumOf
<1>2. \A s \in T : g[s] = Totals[s]
  BY DEF Totals
<1>3. Numeric(g, T)
  BY <1>2, StreamTotals DEF Numeric
<1> HIDE DEF g
<1>4. SumOf(g, T) = SumOf(Totals, T)
  BY <1>2, <1>3, SumSame
<1>. QED  BY <1>1, <1>4

\* The sum that SummariesAgree speaks of, as SumOf.
LEMMA BucketSums ==
  ASSUME NEW B
  PROVE  MapThenSumSet(LAMBDA b : b.value[1], B) = SumOf([b \in B |-> b.value[1]], B)
  BY Zenon DEF MapThenSumSet, MapThenFoldSet, SumOf

\* The sums of all buckets of a summary.
LEMMA SummarySums ==
  ASSUME MetricsTypeOK, NEW selected \in SUBSET Streams, NEW column,
         NEW grouped, grouped = GroupRows(selected, column),
         NEW B, B = {[key |-> k, value |-> Aggregate(grouped[k], "sum")] : k \in DOMAIN grouped}
  PROVE  MapThenSumSet(LAMBDA b : b.value[1], B) = SumOf(Totals, selected)
<1> DEFINE K == DOMAIN grouped
           h == BucketTotals(grouped)
           g == [b \in B |-> b.value[1]]
           c == [b \in B |-> b.key]
           bucket(k) == [key |-> k, value |-> <<Total(grouped[k]), 1>>]
<1>1. IsFiniteSet(K) /\ (\A k \in K : h[k] \in Int) /\ SumOf(h, K) = SumOf(Totals, selected)
  <2>1. IsFiniteSet(K) /\ SumOf(h, K) = SumOf(Totals, selected)
    BY Buckets
  <2>2. ASSUME NEW k \in K PROVE h[k] \in Int
    <3>1. IsBucket(grouped[k], Sharing(selected, column, k))
      BY Buckets
    <3>2. Total(grouped[k]) \in Int
      BY <3>1 DEF IsBucket
    <3>. QED  BY <3>2 DEF BucketTotals
  <2>. QED  BY <2>1, <2>2
<1>2. B = {bucket(k) : k \in K}
  BY DEF Aggregate
<1>3. \A k \in K : bucket(k).key = k /\ bucket(k).value[1] = h[k]
  BY DEF BucketTotals
<1>4. MapThenSumSet(LAMBDA b : b.value[1], B) = SumOf(g, B)
  BY BucketSums
<1>5. \A k \in K : bucket(k) \in B /\ g[bucket(k)] = h[k]
  BY <1>2, <1>3
<1>6. \A b \in B : c[b] \in K /\ b = bucket(c[b])
  BY <1>2, <1>3
<1>7. \A k \in K : Fiber(c, B, k) = {bucket(k)}
  BY <1>2, <1>3, <1>5, <1>6 DEF Fiber
<1> HIDE DEF bucket, h, g, c, K
<1>8. IsFiniteSet(B)
  <2> DEFINE f == [k \in K |-> bucket(k)]
  <2>1. (\A k \in K : f[k] \in B) /\ \A b \in B : \E k \in K : f[k] = b
    BY <1>5, <1>6
  <2> HIDE DEF f
  <2>. QED  BY <1>1, <2>1, ImageIsFinite
<1>9. Numeric(g, B)
  <2>1. ASSUME NEW b \in B PROVE g[b] \in Int
    BY <1>1, <1>5, <1>6
  <2>. QED  BY <1>8, <2>1 DEF Numeric
<1>10. \A k \in K : h[k] = SumOf(g, Fiber(c, B, k))
  <2>1. ASSUME NEW k \in K PROVE h[k] = SumOf(g, Fiber(c, B, k))
    <3>1. SumOf(g, {bucket(k)}) = g[bucket(k)]
      BY <1>1, <1>5, SumSingle
    <3>2. Fiber(c, B, k) = {bucket(k)}
      BY <1>7
    <3>3. SumOf(g, Fiber(c, B, k)) = SumOf(g, {bucket(k)})
      BY <3>2, Zenon
    <3>. QED  BY <1>5, <3>1, <3>3
  <2>. QED  BY <2>1
<1>11. SumOf(g, B) = SumOf(h, K)
  BY <1>1, <1>6, <1>9, <1>10, SumPartition
<1>. QED  BY <1>1, <1>4, <1>11

\* The count that SummariesAgree speaks of, as SumOf.
LEMMA CountSums ==
  ASSUME NEW S, NEW v
  PROVE  MapThenSumSet(LAMBDA s : AtMost(samples[s], v), S) = SumOf([s \in S |-> AtMost(samples[s], v)], S)
  BY Zenon DEF MapThenSumSet, MapThenFoldSet, SumOf

\* How many of the measurements of all streams of S are at most v.
CountAtMost(S, v) ==
  MapThenSumSet(LAMBDA s : MapThenSumSet(LAMBDA w : samples[s][w], {w \in Values : w <= v}), S)

\* The least value with 95 of 100 of them at or below it.
Rank95(S) ==
  Min({v \in Values : CountAtMost(S, v) > 0 /\
                      100 * CountAtMost(S, v) >= 95 * CountAtMost(S, Max(Values))})

\* A bucket has as many values up to v as the rows it is of.
LEMMA BucketCounts ==
  ASSUME MetricsTypeOK, NEW selected \in SUBSET Streams, NEW column,
         NEW grouped, grouped = GroupRows(selected, column), NEW k \in DOMAIN grouped,
         NEW S, S = {s \in selected : s[column] = k}, NEW v \in Values
  PROVE  CountAtMost(S, v) = AtMost(grouped[k], v)
<1> DEFINE g == [s \in S |-> AtMost(samples[s], v)]
<1>1. PICK T \in SUBSET S : T = Sharing(selected, column, k)
  BY DEF Recorded, Sharing
<1>2. PICK V \in SUBSET Values : V = {w \in Values : w <= v}
  OBVIOUS
<1>3. CountAtMost(S, v) = SumOf(g, S)
  <2>1. CountAtMost(S, v) = MapThenSumSet(LAMBDA s : AtMost(samples[s], v), S)
    BY DEF CountAtMost, AtMost, SumOf
  <2>2. MapThenSumSet(LAMBDA s : AtMost(samples[s], v), S) = SumOf(g, S)
    BY CountSums
  <2>. QED  BY <2>1, <2>2
<1>4. \A s \in S : g[s] = SumOf(samples[s], V)
  BY <1>2 DEF AtMost
<1> HIDE DEF g
<1>5. IsMerged(grouped[k], T)
  BY <1>1, Buckets DEF IsBucket
<1>6. T \in SUBSET Streams /\ S \in SUBSET Streams /\ \A s \in T : g[s] = SumOf(samples[s], V)
  BY <1>4
<1>7. SumOf(grouped[k], V) = SumOf(g, T)
  BY <1>5, <1>6, MergedPart
<1>8. IsFiniteSet(S) /\ IsFiniteSet(V)
  BY <1>6, MetricsAssumption, FS_Subset
<1>9. PICK Q \in SUBSET S : Q = S \ T
  OBVIOUS
<1>10. \A s \in S : g[s] \in Nat
  <2>1. ASSUME NEW s \in S PROVE g[s] \in Nat
    <3>1. \A w \in V : samples[s][w] \in Nat
      BY <1>6 DEF MetricsTypeOK
    <3>2. SumOf(samples[s], V) \in Nat
      BY <1>8, <3>1, SumOfNaturals
    <3>. QED  BY <1>4, <3>2
  <2>. QED  BY <2>1
<1>11. ASSUME NEW s \in Q PROVE g[s] = 0
  <2>1. s \in Streams /\ s \in S /\ ~ (Size(samples[s]) > 0)
    BY <1>1, <1>6, <1>9 DEF Recorded, Sharing
  <2>2. Size(samples[s]) = 0
    BY <2>1, StreamSums
  <2>3. \A w \in V : samples[s][w] = 0
    BY <2>1, <2>2, StreamSums
  <2>4. SumOf(samples[s], V) = 0
    BY <1>8, <2>3, SumZero
  <2>. QED  BY <1>4, <2>1, <2>4
<1>12. SumOf(g, S) = SumOf(g, T)
  <2>1. T \cup Q = S /\ T \cap Q = {} /\ Numeric(g, S) /\ Numeric(g, T) /\ IsFiniteSet(Q)
    BY <1>8, <1>9, <1>10, FS_Subset DEF Numeric
  <2>2. SumOf(g, T \cup Q) = SumOf(g, T) + SumOf(g, Q)
    BY <2>1, SumDisjoint
  <2>3. SumOf(g, Q) = 0
    BY <1>11, <2>1, SumZero
  <2>4. SumOf(g, T) \in Int
    BY <2>1, SumType
  <2>5. SumOf(g, S) = SumOf(g, T) + SumOf(g, Q)
    BY <2>1, <2>2, Zenon
  <2>. QED  BY <2>3, <2>4, <2>5
<1>13. AtMost(grouped[k], v) = SumOf(grouped[k], V)
  BY <1>2 DEF AtMost
<1>. QED  BY <1>3, <1>7, <1>12, <1>13

\* The p95 of a bucket, counted in the rows themselves.
LEMMA BucketPercentile ==
  ASSUME MetricsTypeOK, NEW selected \in SUBSET Streams, NEW column,
         NEW grouped, grouped = GroupRows(selected, column), NEW k \in DOMAIN grouped,
         NEW S, S = {s \in selected : s[column] = k}
  PROVE  Percentile(grouped[k]) = Rank95(S)
<1> DEFINE bag == grouped[k]
           G == {v \in Values : AtMost(bag, v) > 0 /\ 100 * AtMost(bag, v) >= 95 * Size(bag)}
           H == {v \in Values : CountAtMost(S, v) > 0 /\
                                100 * CountAtMost(S, v) >= 95 * CountAtMost(S, Max(Values))}
<1>1. Bag(bag) /\ Size(bag) # 0
  <2>1. IsBucket(bag, Sharing(selected, column, k))
    BY Buckets
  <2> HIDE DEF bag
  <2>. QED  BY <2>1 DEF IsBucket
<1>2. Max(Values) \in Values /\ AtMost(bag, Max(Values)) = Size(bag)
  <2> HIDE DEF bag
  <2>. QED  BY <1>1, Cumulative
<1>3. \A v \in Values : CountAtMost(S, v) = AtMost(bag, v)
  BY BucketCounts
<1>4. CountAtMost(S, Max(Values)) = Size(bag)
  BY <1>2, <1>3
<1> HIDE DEF bag
<1>5. G = H
  BY <1>3, <1>4
<1>6. Percentile(bag) = Min(G)
  <2> HIDE DEF H
  <2>1. PICK X : X = G
    OBVIOUS
  <2>2. Percentile(bag) = Min(X)
    BY <1>1, <2>1, NearestRank
  <2>. QED  BY <2>1, <2>2, Zenon
<1>7. Min(G) = Min(H)
  BY <1>5, Zenon
<1>8. Percentile(bag) = Min(H)
  BY <1>6, <1>7
<1>. QED  BY <1>8 DEF bag, Rank95

------------------------------------------------------------------------------

\* A summary is one line for each bucket.
Lines(grouped, agg) == {[key |-> k, value |-> Aggregate(grouped[k], agg)] : k \in DOMAIN grouped}

\* What Summary answers for a grouping that is supported.
LEMMA SummaryLines ==
  ASSUME NEW name, NEW agg \in SupportedAgg
  PROVE  /\ Summary(name, "day", agg) = Lines(ValuesGroupedByDay(name), agg)
         /\ \A type \in {"project", "agent"} :
              Summary(name, type, agg) = Lines(ValuesGroupedByEntity(name, type), agg)
<1>1. Summary(name, "day", agg) = Lines(ValuesGroupedByDay(name), agg)
  BY DEF Summary, Lines, SupportedGroupBy
<1>2. ASSUME NEW type \in {"project", "agent"}
      PROVE  Summary(name, type, agg) = Lines(ValuesGroupedByEntity(name, type), agg)
  BY DEF Summary, Lines, SupportedGroupBy
<1>. QED  BY <1>1, <1>2

\* The sums of the lines of one grouping are the sum of the rows it is of.
LEMMA LinesCoverRows ==
  ASSUME MetricsTypeOK, NEW T \in SUBSET Streams, NEW column,
         NEW L, L = Lines(GroupRows(T, column), "sum")
  PROVE  MapThenSumSet(LAMBDA b : b.value[1], L) = MapThenSumSet(LAMBDA s : Total(samples[s]), T)
<1>1. PICK grouped : grouped = GroupRows(T, column)
  OBVIOUS
<1>2. L = {[key |-> k, value |-> Aggregate(grouped[k], "sum")] : k \in DOMAIN grouped}
  BY <1>1 DEF Lines
<1>3. MapThenSumSet(LAMBDA b : b.value[1], L) = SumOf(Totals, T)
  BY <1>1, <1>2, SummarySums
<1>4. MapThenSumSet(LAMBDA s : Total(samples[s]), T) = SumOf(Totals, T)
  BY RowsAreTotals
<1>. QED  BY <1>3, <1>4

\* A project's line for a metric and the metric's line for the project are
\* of the same bag.
LEMMA SameBucket ==
  ASSUME MetricsTypeOK, NEW name, NEW entity,
         name \in DOMAIN ValuesGroupedByMetricName("project", entity)
  PROVE  /\ entity \in DOMAIN ValuesGroupedByEntity(name, "project")
         /\ ValuesGroupedByEntity(name, "project")[entity] =
              ValuesGroupedByMetricName("project", entity)[name]
         /\ Size(ValuesGroupedByEntity(name, "project")[entity]) # 0
<1>1. PICK T \in SUBSET Streams : T = {s \in Streams : s.entity_type = "project" /\ s.entity_id = entity}
  OBVIOUS
<1>2. PICK U \in SUBSET Streams : U = {s \in Streams : s.metric_name = name /\ s.entity_type = "project"}
  OBVIOUS
<1>3. PICK byName : byName = GroupRows(T, "metric_name")
  OBVIOUS
<1>4. PICK byEntity : byEntity = GroupRows(U, "entity_id")
  OBVIOUS
<1>5. ValuesGroupedByMetricName("project", entity) = byName
  BY <1>1, <1>3 DEF ValuesGroupedByMetricName
<1>6. ValuesGroupedByEntity(name, "project") = byEntity
  BY <1>2, <1>4 DEF ValuesGroupedByEntity
<1>7. DOMAIN byName = {s["metric_name"] : s \in Recorded(T)}
  BY <1>3, Buckets
<1>8. DOMAIN byEntity = {s["entity_id"] : s \in Recorded(U)}
  BY <1>4, Buckets
<1>9. Sharing(T, "metric_name", name) = Sharing(U, "entity_id", entity)
  BY <1>1, <1>2 DEF Sharing, Recorded
<1>10. name \in DOMAIN byName
  BY <1>5
<1>11. PICK s \in Recorded(T) : s["metric_name"] = name
  BY <1>7, <1>10
<1>12. s \in Recorded(U) /\ s["entity_id"] = entity
  BY <1>1, <1>2, <1>11 DEF Recorded
<1>13. entity \in DOMAIN byEntity
  BY <1>8, <1>12
<1>14. PICK Z : Z = Sharing(U, "entity_id", entity)
  OBVIOUS
<1>15. IsBucket(byName[name], Z)
  BY <1>3, <1>9, <1>10, <1>14, Buckets
<1>16. IsBucket(byEntity[entity], Z)
  BY <1>4, <1>13, <1>14, Buckets
<1>17. byEntity[entity] = byName[name] /\ Size(byEntity[entity]) # 0
  BY <1>15, <1>16 DEF IsBucket
<1>. QED  BY <1>5, <1>6, <1>13, <1>17

\* What a project's own summary says of a metric.
LEMMA ProjectAgrees ==
  ASSUME MetricsTypeOK, NEW name, NEW entity,
         NEW entry \in ProjectSummary(entity), entry.metric_name = name
  PROVE  /\ [key |-> entity, value |-> <<entry.sum, 1>>] \in Summary(name, "project", "sum")
         /\ [key |-> entity, value |-> entry.avg] \in Summary(name, "project", "avg")
<1>1. PICK byName : byName = ValuesGroupedByMetricName("project", entity)
  OBVIOUS
<1>2. PICK byEntity : byEntity = ValuesGroupedByEntity(name, "project")
  OBVIOUS
<1>3. PICK n \in DOMAIN byName :
        entry = [metric_name |-> n, sum |-> Total(byName[n]),
                 avg |-> <<Total(byName[n]), Size(byName[n])>>, count |-> Size(byName[n])]
  BY <1>1 DEF ProjectSummary
<1>4. n = name /\ entry.sum = Total(byName[name])
      /\ entry.avg = <<Total(byName[name]), Size(byName[name])>>
  BY <1>3
<1>5. entity \in DOMAIN byEntity /\ byEntity[entity] = byName[name] /\ Size(byEntity[entity]) # 0
  BY <1>1, <1>2, <1>3, <1>4, SameBucket
<1>6. /\ Aggregate(byEntity[entity], "sum") = <<entry.sum, 1>>
      /\ Aggregate(byEntity[entity], "avg") = entry.avg
  BY <1>4, <1>5 DEF Aggregate
<1>7. /\ Summary(name, "project", "sum") = Lines(byEntity, "sum")
      /\ Summary(name, "project", "avg") = Lines(byEntity, "avg")
  BY <1>2, SummaryLines DEF SupportedAgg
<1>. QED  BY <1>5, <1>6, <1>7 DEF Lines

\* What a line of a p95 summary says of the rows it is of.
LEMMA LinePercentile ==
  ASSUME MetricsTypeOK, NEW T \in SUBSET Streams, NEW column,
         NEW b \in Lines(GroupRows(T, column), "p95"),
         NEW S, S = {s \in T : s[column] = b.key}
  PROVE  b.value[1] = Rank95(S)
<1>1. PICK grouped : grouped = GroupRows(T, column)
  OBVIOUS
<1>2. PICK k \in DOMAIN grouped : b = [key |-> k, value |-> <<Percentile(grouped[k]), 1>>]
  BY <1>1 DEF Lines, Aggregate
<1>3. b.key = k /\ b.value[1] = Percentile(grouped[k]) /\ S = {s \in T : s[column] = k}
  BY <1>2
<1>. QED  BY <1>1, <1>3, BucketPercentile

------------------------------------------------------------------------------

\* A measurement recorded adds one to one count.
LEMMA RecordKeepsType == MetricsTypeOK /\ [MetricsNext]_metricsVars => MetricsTypeOK'
<1> SUFFICES ASSUME MetricsTypeOK, [MetricsNext]_metricsVars PROVE MetricsTypeOK'
  OBVIOUS
<1>1. ASSUME NEW s \in Streams, NEW v \in Values, RecordMetric(s, v) PROVE MetricsTypeOK'
  BY <1>1 DEF RecordMetric, MetricsTypeOK
<1>2. CASE UNCHANGED metricsVars
  BY <1>2 DEF metricsVars, MetricsTypeOK
<1>. QED  BY <1>1, <1>2 DEF MetricsNext

\* Every stream counts how often each value was recorded, whatever modules
\* record their measurements in which order.
THEOREM MetricsTypeCorrect == MetricsSpec => []MetricsTypeOK
<1>1. MetricsInit => MetricsTypeOK
  BY DEF MetricsInit, MetricsTypeOK
<1>. QED  BY <1>1, RecordKeepsType, PTL DEF MetricsSpec

\* The views of one table agree in every state of it.
LEMMA TypedSummariesAgree == MetricsTypeOK => SummariesAgree
<1> SUFFICES ASSUME MetricsTypeOK PROVE SummariesAgree
  OBVIOUS
<1> DEFINE Of(name, type) == {s \in Streams : s.metric_name = name /\ s.entity_type = type}
           All(name) == {s \in Streams : s.metric_name = name}
           Rows(T) == MapThenSumSet(LAMBDA s : Total(samples[s]), T)
           Sums(name, groupBy) == MapThenSumSet(LAMBDA b : b.value[1], Summary(name, groupBy, "sum"))
           Group(name, groupBy, b) ==
             {s \in All(name) : IF groupBy = "day" THEN s.day = b.key
                                ELSE s.entity_type = groupBy /\ s.entity_id = b.key}
<1>1. ASSUME NEW name PROVE Sums(name, "day") = Rows(All(name))
  <2>1. PICK T \in SUBSET Streams : T = All(name)
    OBVIOUS
  <2>2. Summary(name, "day", "sum") = Lines(GroupRows(T, "day"), "sum")
    BY <2>1, SummaryLines DEF ValuesGroupedByDay, SupportedAgg
  <2>. QED  BY <2>1, <2>2, LinesCoverRows
<1>2. ASSUME NEW name, NEW type \in {"project", "agent"} PROVE Sums(name, type) = Rows(Of(name, type))
  <2>1. PICK T \in SUBSET Streams : T = Of(name, type)
    OBVIOUS
  <2>2. Summary(name, type, "sum") = Lines(GroupRows(T, "entity_id"), "sum")
    BY <2>1, SummaryLines DEF ValuesGroupedByEntity, SupportedAgg
  <2>. QED  BY <2>1, <2>2, LinesCoverRows
<1>3. ASSUME NEW name, NEW entity, NEW entry \in ProjectSummary(entity), entry.metric_name = name
      PROVE  /\ [key |-> entity, value |-> <<entry.sum, 1>>] \in Summary(name, "project", "sum")
             /\ [key |-> entity, value |-> entry.avg] \in Summary(name, "project", "avg")
  BY <1>3, ProjectAgrees
<1>4. ASSUME NEW name, NEW groupBy \in SupportedGroupBy, NEW b \in Summary(name, groupBy, "p95")
      PROVE  b.value[1] = Rank95(Group(name, groupBy, b))
  <2>1. PICK S : S = Group(name, groupBy, b)
    OBVIOUS
  <2>2. CASE groupBy = "day"
    <3>1. PICK T \in SUBSET Streams : T = All(name)
      OBVIOUS
    <3>2. Summary(name, "day", "p95") = Lines(GroupRows(T, "day"), "p95")
      BY <3>1, SummaryLines DEF ValuesGroupedByDay, SupportedAgg
    <3>3. b \in Lines(GroupRows(T, "day"), "p95") /\ S = {s \in T : s["day"] = b.key}
      BY <2>1, <2>2, <3>1, <3>2
    <3>4. b.value[1] = Rank95(S)
      BY <3>3, LinePercentile
    <3>. QED  BY <2>1, <3>4
  <2>3. CASE groupBy \in {"project", "agent"}
    <3>1. PICK T \in SUBSET Streams : T = Of(name, groupBy)
      OBVIOUS
    <3>2. Summary(name, groupBy, "p95") = Lines(GroupRows(T, "entity_id"), "p95")
      BY <2>3, <3>1, SummaryLines DEF ValuesGroupedByEntity, SupportedAgg
    <3>3. b \in Lines(GroupRows(T, "entity_id"), "p95") /\ S = {s \in T : s["entity_id"] = b.key}
      BY <2>1, <2>3, <3>1, <3>2
    <3>4. b.value[1] = Rank95(S)
      BY <3>3, LinePercentile
    <3>. QED  BY <2>1, <3>4
  <2>. QED  BY <2>2, <2>3 DEF SupportedGroupBy
<1>. QED  BY <1>1, <1>2, <1>3, <1>4 DEF SummariesAgree, Rank95, CountAtMost

\* The views of the measurements agree whatever was recorded, of whichever
\* streams and in whichever order: every summary covers each row it is about
\* once, a project's own summary says what the summary by project says of
\* it, and a p95 is the least value with 95 of 100 at or below it.
THEOREM ViewsOfOneTable == MetricsSpec => []SummariesAgree
BY MetricsTypeCorrect, TypedSummariesAgree, PTL

------------------------------------------------------------------------------
(***************************************************************************)
(* Context packages                                                        *)
(***************************************************************************)

------------------------------------------------------------------------------

\* Induction from 0 to n.
LEMMA UpTo ==
  ASSUME NEW n \in Nat, NEW A, 0 \in A, \A i \in 1..n : i - 1 \in A => i \in A
  PROVE  \A i \in 0..n : i \in A
<1>1. ASSUME NEW i \in 0..n, i \notin A PROVE FALSE
  <2> DEFINE N == {j \in 0..n : j \notin A}
  <2>1. N \subseteq Nat /\ N # {}
    BY <1>1
  <2>2. PICK m \in N : \A k \in N : ~ (k < m)
    BY <2>1, LeastNumber
  <2>3. m \in 1..n /\ m - 1 \in 0..n
    BY <2>2
  <2>4. m - 1 \in A
    BY <2>2, <2>3
  <2>. QED  BY <2>2, <2>3, <2>4
<1>. QED  BY <1>1

\* The prefixes of 1..n, as a fold from the left meets them.
LEMMA PrefixFacts ==
  ASSUME NEW n \in Nat
  PROVE  /\ IsFiniteSet(1..n) /\ 1..0 = {}
         /\ \A i \in 1..n : /\ 1..i \in SUBSET (1..n) /\ 1..i # {}
                            /\ Max(1..i) = i /\ (1..i) \ {i} = 1..(i - 1)
         /\ \A U \in SUBSET (1..n) : U # {} => Max(U) \in U
<1>1. IsFiniteSet(1..n)
  BY FS_Interval
<1>2. ASSUME NEW U \in SUBSET (1..n), U # {} PROVE Max(U) \in U /\ \A x \in U : x <= Max(U)
  <2>1. PICK S : S = 1..n
    OBVIOUS
  <2>2. IsFiniteSet(S) /\ U \in SUBSET S
    BY <1>1, <2>1
  <2>3. IsFiniteSet(U)
    BY <2>2, FS_Subset
  <2>4. U \subseteq Int /\ U # {}
    BY <1>2
  <2>. QED  BY <2>3, <2>4, Bounds
<1>3. ASSUME NEW i \in 1..n
      PROVE  /\ 1..i \in SUBSET (1..n) /\ 1..i # {}
             /\ Max(1..i) = i /\ (1..i) \ {i} = 1..(i - 1)
  <2>1. 1..i \in SUBSET (1..n) /\ 1..i # {} /\ i \in 1..i
    OBVIOUS
  <2>2. PICK U : U = 1..i
    OBVIOUS
  <2>3. Max(U) \in U /\ \A x \in U : x <= Max(U)
    BY <1>2, <2>1, <2>2
  <2>4. Max(U) = i
    BY <2>1, <2>2, <2>3
  <2>. QED  BY <2>1, <2>2, <2>4
<1>. QED  BY <1>1, <1>2, <1>3

\* A fold of 1..n from the left, by a step that stays within Acc: the table
\* that the community modules make for it; what has to be known of such a
\* table; and what there is after each turn.
Closed(base, step, Acc, n) == base \in Acc /\ \A i \in 1..n, a \in Acc : step[<<i, a>>] \in Acc

IsTable(c, base, step, Acc, n) ==
  /\ c = [U \in SUBSET (1..n) |-> IF U = {} THEN base ELSE step[<<Max(U), c[U \ {Max(U)}]>>]]
  /\ \A U \in SUBSET (1..n) : c[U] \in Acc

Follows(h, base, step, Acc, n) ==
  /\ h[{}] = base
  /\ \A U \in SUBSET (1..n) : U # {} /\ h[U \ {Max(U)}] \in Acc =>
       h[U] = step[<<Max(U), h[U \ {Max(U)}]>>]

Turns(r, base, step, Acc, n) ==
  /\ r[0] = base
  /\ \A i \in 1..n : r[i - 1] \in Acc /\ r[i] = step[<<i, r[i - 1]>>] /\ r[i] \in Acc

\* A fold over 1..n has its table: what it makes of each set of turns.
LEMMA FoldTable ==
  ASSUME NEW n \in Nat, NEW base, NEW Acc, NEW step, Closed(base, step, Acc, n)
  PROVE  \E c : IsTable(c, base, step, Acc, n)
<1> DEFINE last == [U \in SUBSET (1..n) |-> Max(U)]
<1>1. IsFiniteSet(1..n) /\ \A U \in SUBSET (1..n) : U # {} => last[U] \in U
  BY PrefixFacts
<1>2. PICK S : S = 1..n
  OBVIOUS
<1>3. \A U \in SUBSET S : last[U] = Max(U)
  BY <1>2
<1> HIDE DEF last
<1>4. PICK c : IsFold(c, base, step, last, S)
  BY <1>1, <1>2, FoldExists
<1>5. \A U \in SUBSET S : c[U] \in Acc
  <2>1. base \in Acc /\ \A i \in S, a \in Acc : step[<<i, a>>] \in Acc
    BY <1>2 DEF Closed
  <2>. QED  BY <1>1, <1>2, <1>4, <2>1, FoldType
<1>6. c = [U \in SUBSET S |-> IF U = {} THEN base ELSE step[<<Max(U), c[U \ {Max(U)}]>>]]
  BY <1>3, <1>4 DEF IsFold
<1>. QED  BY <1>2, <1>5, <1>6 DEF IsTable

\* A fold over 1..n goes turn by turn, from the first index to the last.
LEMMA FoldTurns ==
  ASSUME NEW n \in Nat, NEW base, NEW Acc, NEW step, Closed(base, step, Acc, n),
         NEW h, Follows(h, base, step, Acc, n)
  PROVE  \E r : Turns(r, base, step, Acc, n) /\ r[n] = h[1..n]
<1> DEFINE r == [i \in 0..n |-> h[1..i]]
           A == {i \in 0..n : r[i] \in Acc}
<1>1. r[0] = base /\ r[n] = h[1..n]
  <2>1. 1..0 = {} /\ 0 \in 0..n /\ n \in 0..n
    OBVIOUS
  <2>2. r[0] = h[1..0] /\ r[n] = h[1..n]
    BY <2>1
  <2>3. h[{}] = base
    BY DEF Follows
  <2>. QED  BY <2>1, <2>2, <2>3, Zenon
<1>2. \A i \in 1..n : r[i - 1] = h[1..(i - 1)] /\ r[i] = h[1..i]
  OBVIOUS
<1> HIDE DEF r
<1>3. ASSUME NEW i \in 1..n, r[i - 1] \in Acc PROVE r[i] = step[<<i, r[i - 1]>>] /\ r[i] \in Acc
  <2>1. PICK U \in SUBSET (1..n) : U = 1..i
    OBVIOUS
  <2>2. U # {} /\ Max(U) = i /\ U \ {Max(U)} = 1..(i - 1)
    BY <2>1, PrefixFacts
  <2>3. h[U \ {Max(U)}] = r[i - 1]
    BY <1>2, <2>2
  <2>4. h[U] = step[<<i, r[i - 1]>>]
    BY <1>3, <2>2, <2>3 DEF Follows
  <2>5. r[i] = step[<<i, r[i - 1]>>]
    BY <1>2, <2>1, <2>4
  <2>. QED  BY <1>3, <2>5 DEF Closed
<1>4. 0 \in A
  BY <1>1 DEF Closed
<1>5. ASSUME NEW i \in 1..n, i - 1 \in A PROVE i \in A
  <2>1. r[i] \in Acc
    BY <1>3, <1>5
  <2>. QED  BY <2>1
<1>6. \A i \in 0..n : i \in A
  <2> HIDE DEF A
  <2>. QED  BY <1>4, <1>5, UpTo
<1>7. \A i \in 1..n : r[i - 1] \in Acc /\ r[i] = step[<<i, r[i - 1]>>] /\ r[i] \in Acc
  <2>1. ASSUME NEW i \in 1..n PROVE r[i - 1] \in Acc /\ r[i] = step[<<i, r[i - 1]>>] /\ r[i] \in Acc
    <3>1. i - 1 \in 0..n
      OBVIOUS
    <3>2. r[i - 1] \in Acc
      BY <1>6, <3>1
    <3>. QED  BY <1>3, <3>2
  <2>. QED  BY <2>1
<1>. QED  BY <1>1, <1>7 DEF Turns

------------------------------------------------------------------------------

\* What a loop has after each turn that appends x[i] unless i is in `out`,
\* and where its elements are from.
Filters(r, x, out, n) ==
  /\ r[0] = <<>>
  /\ \A i \in 1..n : r[i] = IF i \in out THEN r[i - 1] ELSE Append(r[i - 1], x[i])

PlacedAt(pos, r, x, out, n) ==
  /\ pos \in [1..Len(r[n]) -> 1..n]
  /\ \A p \in 1..Len(r[n]) : pos[p] \notin out /\ r[n][p] = x[pos[p]] /\ Len(r[pos[p] - 1]) = p - 1
  /\ \A p, q \in 1..Len(r[n]) : p < q => pos[p] < pos[q]
  /\ \A i \in 1..n : i \notin out => \E p \in 1..Len(r[n]) : pos[p] = i
  /\ \A i \in 0..n : /\ Len(r[i]) <= Len(r[n])
                     /\ \A q \in 1..Len(r[i]) : r[i][q] = r[n][q] /\ pos[q] <= i

\* Every turn has a sequence.
LEMMA FilterType ==
  ASSUME NEW n \in Nat, NEW E, NEW x, \A i \in 1..n : x[i] \in E,
         NEW out, NEW r, Filters(r, x, out, n)
  PROVE  \A i \in 0..n : r[i] \in Seq(E)
<1> DEFINE A == {i \in 0..n : r[i] \in Seq(E)}
<1>1. 0 \in A
  <2>1. r[0] = <<>> /\ <<>> \in Seq(E) /\ 0 \in 0..n
    BY DEF Filters
  <2>. QED  BY <2>1
<1>2. ASSUME NEW i \in 1..n, i - 1 \in A PROVE i \in A
  <2>1. r[i - 1] \in Seq(E) /\ x[i] \in E
    BY <1>2
  <2>2. Append(r[i - 1], x[i]) \in Seq(E)
    BY <2>1
  <2>3. r[i] = r[i - 1] \/ r[i] = Append(r[i - 1], x[i])
    BY DEF Filters
  <2>4. r[i] \in Seq(E)
    BY <2>1, <2>2, <2>3, Zenon
  <2>5. i \in 0..n
    OBVIOUS
  <2>. QED  BY <2>4, <2>5
<1>3. \A i \in 0..n : i \in A
  <2> HIDE DEF A
  <2>. QED  BY <1>1, <1>2, UpTo
<1>. QED  BY <1>3

\* One turn more.
LEMMA FilterTurn ==
  ASSUME NEW n \in Nat, NEW E, NEW x, \A i \in 1..n : x[i] \in E,
         NEW out, NEW r, Filters(r, x, out, n),
         NEW m \in 1..n, NEW pos, PlacedAt(pos, r, x, out, m - 1)
  PROVE  \E now : PlacedAt(now, r, x, out, m)
<1>1. \A i \in 0..n : r[i] \in Seq(E) /\ Len(r[i]) \in Nat
  BY FilterType
<1>2. m - 1 \in 0..n /\ m \in 0..n /\ 1..(m - 1) \subseteq 1..m /\ m \in Nat
  OBVIOUS
<1>3. PICK k \in Nat : k = Len(r[m - 1])
  BY <1>1, <1>2
<1>4. /\ pos \in [1..k -> 1..(m - 1)]
      /\ \A p \in 1..k : pos[p] \notin out /\ r[m - 1][p] = x[pos[p]] /\ Len(r[pos[p] - 1]) = p - 1
      /\ \A p, q \in 1..k : p < q => pos[p] < pos[q]
      /\ \A i \in 1..(m - 1) : i \notin out => \E p \in 1..k : pos[p] = i
      /\ \A i \in 0..(m - 1) : /\ Len(r[i]) <= k
                               /\ \A q \in 1..Len(r[i]) : r[i][q] = r[m - 1][q] /\ pos[q] <= i
  BY <1>3 DEF PlacedAt
<1>5. CASE m \in out
  <2>1. r[m] = r[m - 1] /\ Len(r[m]) = k
    BY <1>3, <1>5 DEF Filters
  <2>2. pos \in [1..k -> 1..m]
    BY <1>2, <1>4
  <2>3. \A i \in 1..m : i \notin out => \E p \in 1..k : pos[p] = i
    BY <1>4, <1>5
  <2>4. \A i \in 0..m : /\ Len(r[i]) <= k
                        /\ \A q \in 1..Len(r[i]) : r[i][q] = r[m][q] /\ pos[q] <= i
    <3>1. ASSUME NEW i \in 0..m
          PROVE  Len(r[i]) <= k /\ \A q \in 1..Len(r[i]) : r[i][q] = r[m][q] /\ pos[q] <= i
      <4>1. CASE i = m
        BY <2>1, <2>2, <4>1
      <4>2. CASE i \in 0..(m - 1)
        BY <1>4, <2>1, <4>2
      <4>. QED  BY <4>1, <4>2
    <3>. QED  BY <3>1
  <2>5. PlacedAt(pos, r, x, out, m)
    BY <1>4, <2>1, <2>2, <2>3, <2>4 DEF PlacedAt
  <2>. QED  BY <2>5
<1>6. CASE m \notin out
  <2> DEFINE now == [p \in 1..(k + 1) |-> IF p = k + 1 THEN m ELSE pos[p]]
  <2>1. r[m] = Append(r[m - 1], x[m]) /\ r[m - 1] \in Seq(E) /\ x[m] \in E
    BY <1>1, <1>2, <1>6 DEF Filters
  <2>2. Len(r[m]) = k + 1 /\ r[m][k + 1] = x[m] /\ \A q \in 1..k : r[m][q] = r[m - 1][q]
    BY <1>3, <2>1
  <2>3. now[k + 1] = m /\ \A p \in 1..k : now[p] = pos[p]
    OBVIOUS
  <2>4. now \in [1..(k + 1) -> 1..m]
    BY <1>2, <1>4
  <2>5. DOMAIN now = 1..(k + 1)
    OBVIOUS
  <2> HIDE DEF now
  <2>6. ASSUME NEW p \in 1..(k + 1)
        PROVE  now[p] \notin out /\ r[m][p] = x[now[p]] /\ Len(r[now[p] - 1]) = p - 1
    <3>1. CASE p = k + 1
      BY <1>3, <1>6, <2>2, <2>3, <3>1
    <3>2. CASE p \in 1..k
      BY <1>4, <2>2, <2>3, <3>2
    <3>. QED  BY <3>1, <3>2
  <2>7. ASSUME NEW p \in 1..(k + 1), NEW q \in 1..(k + 1), p < q PROVE now[p] < now[q]
    <3>1. p \in 1..k /\ now[p] = pos[p] /\ pos[p] \in 1..(m - 1)
      BY <1>4, <2>3, <2>7
    <3>2. CASE q = k + 1
      BY <2>3, <3>1, <3>2
    <3>3. CASE q \in 1..k
      BY <1>4, <2>3, <2>7, <3>1, <3>3
    <3>. QED  BY <3>2, <3>3
  <2>8. ASSUME NEW i \in 1..m, i \notin out PROVE \E p \in 1..(k + 1) : now[p] = i
    <3>1. CASE i = m
      <4>1. k + 1 \in 1..(k + 1)
        OBVIOUS
      <4>. QED  BY <2>3, <3>1, <4>1
    <3>2. CASE i \in 1..(m - 1)
      <4>1. PICK p \in 1..k : pos[p] = i
        BY <1>4, <2>8, <3>2
      <4>2. p \in 1..(k + 1) /\ now[p] = i
        BY <2>3, <4>1
      <4>. QED  BY <4>2
    <3>. QED  BY <3>1, <3>2
  <2>9. ASSUME NEW i \in 0..m
        PROVE  Len(r[i]) <= k + 1 /\ \A q \in 1..Len(r[i]) : r[i][q] = r[m][q] /\ now[q] <= i
    <3>1. CASE i = m
      BY <2>2, <2>4, <3>1
    <3>2. CASE i \in 0..(m - 1)
      <4>1. PICK j \in Nat : j = Len(r[i])
        BY <1>1
      <4>2. j <= k /\ \A q \in 1..j : r[i][q] = r[m - 1][q] /\ pos[q] <= i
        BY <1>4, <3>2, <4>1
      <4>3. \A q \in 1..j : q \in 1..k
        BY <4>2
      <4>. QED  BY <2>2, <2>3, <4>1, <4>2, <4>3
    <3>. QED  BY <3>1, <3>2
  <2>10. PlacedAt(now, r, x, out, m)
    BY <2>2, <2>4, <2>6, <2>7, <2>8, <2>9 DEF PlacedAt
  <2>. QED  BY <2>10
<1>. QED  BY <1>5, <1>6

\* So it is after the last.
LEMMA FilterPlaces ==
  ASSUME NEW n \in Nat, NEW E, NEW x, \A i \in 1..n : x[i] \in E,
         NEW out, NEW r, Filters(r, x, out, n)
  PROVE  \E pos : PlacedAt(pos, r, x, out, n)
<1> DEFINE A == {m \in 0..n : \E pos : PlacedAt(pos, r, x, out, m)}
<1>1. 0 \in A
  <2>1. r[0] = <<>> /\ Len(r[0]) = 0
    BY DEF Filters
  <2> DEFINE none == [p \in 1..0 |-> 1]
  <2>2. none \in [1..0 -> 1..0]
    OBVIOUS
  <2> HIDE DEF none
  <2>3. PlacedAt(none, r, x, out, 0)
    BY <2>1, <2>2 DEF PlacedAt
  <2>. QED  BY <2>3
<1>2. ASSUME NEW m \in 1..n, m - 1 \in A PROVE m \in A
  <2>1. PICK pos : PlacedAt(pos, r, x, out, m - 1)
    BY <1>2
  <2>2. \E now : PlacedAt(now, r, x, out, m)
    BY <2>1, FilterTurn
  <2>. QED  BY <2>2
<1>3. \A m \in 0..n : m \in A
  <2> HIDE DEF A
  <2>. QED  BY <1>1, <1>2, UpTo
<1>. QED  BY <1>3

------------------------------------------------------------------------------

\* The loop of _dedup_exact_by_content_hash.
LEMMA DedupExactTurns ==
  ASSUME NEW E, NEW docs \in Seq(E), NEW n, n = Len(docs)
  PROVE  \E r, out : /\ Filters(r, docs, out, n) /\ r[n] = DedupExact(docs)
                     /\ \A i \in 1..n : i \in out <=> \E k \in ToSet(r[i - 1]) : k.hash = docs[i].hash
<1> DEFINE Drop(a, x) == \E k \in ToSet(a) : k.hash = x.hash
           Turn(a, x) == IF Drop(a, x) THEN a ELSE Append(a, x)
           B(c) == [U \in SUBSET (DOMAIN docs) |->
                      IF U = {} THEN <<>> ELSE LET i == Max(U) IN Turn(c[U \ {i}], docs[i])]
           h == CHOOSE c : c = B(c)
           Acc == Seq(E)
           step == [p \in (1..n) \X Acc |-> Turn(p[2], docs[p[1]])]
<1>1. DedupExact(docs) = h[DOMAIN docs]
  BY Zenon DEF DedupExact, FoldLeft, MapThenFoldSet
<1>2. DOMAIN docs = 1..n /\ n \in Nat
  OBVIOUS
<1>3. <<>> \in Acc
  OBVIOUS
<1>4. \A i \in 1..n, a \in Acc : step[<<i, a>>] = Turn(a, docs[i]) /\ Turn(a, docs[i]) \in Acc
  <2>1. ASSUME NEW i \in 1..n, NEW a \in Acc
        PROVE  step[<<i, a>>] = Turn(a, docs[i]) /\ Turn(a, docs[i]) \in Acc
    <3>1. step[<<i, a>>] = Turn(a, docs[i])
      OBVIOUS
    <3> HIDE DEF step
    <3>2. Turn(a, docs[i]) \in Acc
      <4>1. Append(a, docs[i]) \in Seq(E)
        OBVIOUS
      <4> HIDE DEF Drop
      <4>2. CASE Drop(a, docs[i])
        BY <4>2
      <4>3. CASE ~ Drop(a, docs[i])
        BY <4>1, <4>3
      <4>. QED  BY <4>2, <4>3
    <3>. QED  BY <3>1, <3>2
  <2>. QED  BY <2>1
<1> HIDE DEF Turn, step, Acc
<1>5. Closed(<<>>, step, Acc, n)
  BY <1>3, <1>4 DEF Closed
<1>6. \E c : c = B(c)
  <2>1. PICK c : IsTable(c, <<>>, step, Acc, n)
    BY <1>2, <1>5, FoldTable
  <2>2. ASSUME NEW U \in SUBSET (1..n), U # {}
        PROVE  c[U] = Turn(c[U \ {Max(U)}], docs[Max(U)])
    <3>1. PICK V \in SUBSET (1..n) : V = U \ {Max(U)}
      OBVIOUS
    <3>2. PICK i \in 1..n : i = Max(U)
      BY <1>2, <2>2, PrefixFacts
    <3>3. c[U] = step[<<i, c[V]>>] /\ c[V] \in Acc
      BY <2>1, <2>2, <3>1, <3>2 DEF IsTable
    <3>. QED  BY <1>4, <3>1, <3>2, <3>3
  <2>3. c = [U \in SUBSET (1..n) |-> c[U]] /\ c[{}] = <<>>
    BY <2>1 DEF IsTable
  <2>4. c = B(c)
    BY <1>2, <2>2, <2>3
  <2>. QED  BY <2>4
<1>7. h = B(h)
  BY <1>6
<1> HIDE DEF h
<1>8. Follows(h, <<>>, step, Acc, n)
  <2>1. h[{}] = <<>>
    BY <1>7
  <2>2. ASSUME NEW U \in SUBSET (1..n), U # {}, h[U \ {Max(U)}] \in Acc
        PROVE  h[U] = step[<<Max(U), h[U \ {Max(U)}]>>]
    <3>1. PICK a \in Acc : a = h[U \ {Max(U)}]
      BY <2>2
    <3>2. PICK i \in 1..n : i = Max(U)
      BY <1>2, <2>2, PrefixFacts
    <3>3. h[U] = Turn(a, docs[i])
      BY <1>2, <1>7, <2>2, <3>1, <3>2
    <3>. QED  BY <1>4, <3>1, <3>2, <3>3
  <2>. QED  BY <2>1, <2>2 DEF Follows
<1>9. PICK r : Turns(r, <<>>, step, Acc, n) /\ r[n] = h[1..n]
  BY <1>2, <1>5, <1>8, FoldTurns
<1>10. r[n] = DedupExact(docs)
  BY <1>1, <1>2, <1>9
<1>11. r[0] = <<>> /\ \A i \in 1..n : r[i - 1] \in Acc /\ r[i] = Turn(r[i - 1], docs[i])
  <2>1. ASSUME NEW i \in 1..n PROVE r[i - 1] \in Acc /\ r[i] = Turn(r[i - 1], docs[i])
    BY <1>4, <1>9 DEF Turns
  <2>. QED  BY <1>9, <2>1 DEF Turns
<1>12. PICK out : out = {i \in 1..n : Drop(r[i - 1], docs[i])}
  OBVIOUS
<1>13. \A i \in 1..n : r[i] = IF i \in out THEN r[i - 1] ELSE Append(r[i - 1], docs[i])
  <2>1. ASSUME NEW i \in 1..n PROVE r[i] = IF i \in out THEN r[i - 1] ELSE Append(r[i - 1], docs[i])
    BY <1>11, <1>12 DEF Turn
  <2>. QED  BY <2>1
<1>14. Filters(r, docs, out, n)
  BY <1>11, <1>13 DEF Filters
<1>. QED  BY <1>10, <1>12, <1>14

\* The loop of _dedup_near_duplicates.
LEMMA DedupNearTurns ==
  ASSUME NEW E, NEW docs \in Seq(E), NEW n, n = Len(docs)
  PROVE  \E r, out : /\ Filters(r, docs, out, n) /\ r[n] = DedupNearDuplicates(docs)
                     /\ \A i \in 1..n : i \in out <=>
                          \E k \in ToSet(r[i - 1]) : NearDuplicate(docs[i].text, k.text)
<1> DEFINE Drop(a, x) == \E k \in ToSet(a) : NearDuplicate(x.text, k.text)
           Turn(a, x) == IF Drop(a, x) THEN a ELSE Append(a, x)
           B(c) == [U \in SUBSET (DOMAIN docs) |->
                      IF U = {} THEN <<>> ELSE LET i == Max(U) IN Turn(c[U \ {i}], docs[i])]
           h == CHOOSE c : c = B(c)
           Acc == Seq(E)
           step == [p \in (1..n) \X Acc |-> Turn(p[2], docs[p[1]])]
<1>1. DedupNearDuplicates(docs) = h[DOMAIN docs]
  BY Zenon DEF DedupNearDuplicates, FoldLeft, MapThenFoldSet
<1>2. DOMAIN docs = 1..n /\ n \in Nat
  OBVIOUS
<1>3. <<>> \in Acc
  OBVIOUS
<1>4. \A i \in 1..n, a \in Acc : step[<<i, a>>] = Turn(a, docs[i]) /\ Turn(a, docs[i]) \in Acc
  <2>1. ASSUME NEW i \in 1..n, NEW a \in Acc
        PROVE  step[<<i, a>>] = Turn(a, docs[i]) /\ Turn(a, docs[i]) \in Acc
    <3>1. step[<<i, a>>] = Turn(a, docs[i])
      OBVIOUS
    <3> HIDE DEF step
    <3>2. Turn(a, docs[i]) \in Acc
      <4>1. Append(a, docs[i]) \in Seq(E)
        OBVIOUS
      <4> HIDE DEF Drop
      <4>2. CASE Drop(a, docs[i])
        BY <4>2
      <4>3. CASE ~ Drop(a, docs[i])
        BY <4>1, <4>3
      <4>. QED  BY <4>2, <4>3
    <3>. QED  BY <3>1, <3>2
  <2>. QED  BY <2>1
<1> HIDE DEF Turn, step, Acc
<1>5. Closed(<<>>, step, Acc, n)
  BY <1>3, <1>4 DEF Closed
<1>6. \E c : c = B(c)
  <2>1. PICK c : IsTable(c, <<>>, step, Acc, n)
    BY <1>2, <1>5, FoldTable
  <2>2. ASSUME NEW U \in SUBSET (1..n), U # {}
        PROVE  c[U] = Turn(c[U \ {Max(U)}], docs[Max(U)])
    <3>1. PICK V \in SUBSET (1..n) : V = U \ {Max(U)}
      OBVIOUS
    <3>2. PICK i \in 1..n : i = Max(U)
      BY <1>2, <2>2, PrefixFacts
    <3>3. c[U] = step[<<i, c[V]>>] /\ c[V] \in Acc
      BY <2>1, <2>2, <3>1, <3>2 DEF IsTable
    <3>. QED  BY <1>4, <3>1, <3>2, <3>3
  <2>3. c = [U \in SUBSET (1..n) |-> c[U]] /\ c[{}] = <<>>
    BY <2>1 DEF IsTable
  <2>4. c = B(c)
    BY <1>2, <2>2, <2>3
  <2>. QED  BY <2>4
<1>7. h = B(h)
  BY <1>6
<1> HIDE DEF h
<1>8. Follows(h, <<>>, step, Acc, n)
  <2>1. h[{}] = <<>>
    BY <1>7
  <2>2. ASSUME NEW U \in SUBSET (1..n), U # {}, h[U \ {Max(U)}] \in Acc
        PROVE  h[U] = step[<<Max(U), h[U \ {Max(U)}]>>]
    <3>1. PICK a \in Acc : a = h[U \ {Max(U)}]
      BY <2>2
    <3>2. PICK i \in 1..n : i = Max(U)
      BY <1>2, <2>2, PrefixFacts
    <3>3. h[U] = Turn(a, docs[i])
      BY <1>2, <1>7, <2>2, <3>1, <3>2
    <3>. QED  BY <1>4, <3>1, <3>2, <3>3
  <2>. QED  BY <2>1, <2>2 DEF Follows
<1>9. PICK r : Turns(r, <<>>, step, Acc, n) /\ r[n] = h[1..n]
  BY <1>2, <1>5, <1>8, FoldTurns
<1>10. r[n] = DedupNearDuplicates(docs)
  BY <1>1, <1>2, <1>9
<1>11. r[0] = <<>> /\ \A i \in 1..n : r[i - 1] \in Acc /\ r[i] = Turn(r[i - 1], docs[i])
  <2>1. ASSUME NEW i \in 1..n PROVE r[i - 1] \in Acc /\ r[i] = Turn(r[i - 1], docs[i])
    BY <1>4, <1>9 DEF Turns
  <2>. QED  BY <1>9, <2>1 DEF Turns
<1>12. PICK out : out = {i \in 1..n : Drop(r[i - 1], docs[i])}
  OBVIOUS
<1>13. \A i \in 1..n : r[i] = IF i \in out THEN r[i - 1] ELSE Append(r[i - 1], docs[i])
  <2>1. ASSUME NEW i \in 1..n PROVE r[i] = IF i \in out THEN r[i - 1] ELSE Append(r[i - 1], docs[i])
    BY <1>11, <1>12 DEF Turn
  <2>. QED  BY <2>1
<1>14. Filters(r, docs, out, n)
  BY <1>11, <1>13 DEF Filters
<1>. QED  BY <1>10, <1>12, <1>14

\* The rows of documents, and the documents that get none.
DocRows(docs, chunks, included) == [i \in 1..Len(docs) |-> Rollup(docs[i], chunks, included)]
Bare(docs, chunks) == {i \in 1..Len(docs) : ChunksOf(chunks, docs[i]) = {}}

\* The loop that rolls the chunks up.
LEMMA RollupTurns ==
  ASSUME NEW E, NEW docs \in Seq(E), NEW n, n = Len(docs), NEW chunks, NEW included,
         NEW listed, listed = DocRows(docs, chunks, included),
         NEW out, out = Bare(docs, chunks)
  PROVE  \E r : Filters(r, listed, out, n) /\ r[n] = Rollups(docs, chunks, included)
<1> DEFINE Drop(a, x) == ChunksOf(chunks, x) = {}
           Turn(a, x) == IF Drop(a, x) THEN a ELSE Append(a, Rollup(x, chunks, included))
           B(c) == [U \in SUBSET (DOMAIN docs) |->
                      IF U = {} THEN <<>> ELSE LET i == Max(U) IN Turn(c[U \ {i}], docs[i])]
           h == CHOOSE c : c = B(c)
           Acc == Seq({listed[i] : i \in 1..n})
           step == [p \in (1..n) \X Acc |-> Turn(p[2], docs[p[1]])]
<1>0. /\ listed = [i \in 1..n |-> Rollup(docs[i], chunks, included)]
      /\ out = {i \in 1..n : ChunksOf(chunks, docs[i]) = {}}
  BY DEF DocRows, Bare
<1>1. Rollups(docs, chunks, included) = h[DOMAIN docs]
  BY Zenon DEF Rollups, FoldLeft, MapThenFoldSet
<1>2. DOMAIN docs = 1..n /\ n \in Nat
  OBVIOUS
<1>3. <<>> \in Acc
  OBVIOUS
<1>4. \A i \in 1..n, a \in Acc : step[<<i, a>>] = Turn(a, docs[i]) /\ Turn(a, docs[i]) \in Acc
  <2>1. ASSUME NEW i \in 1..n, NEW a \in Acc
        PROVE  step[<<i, a>>] = Turn(a, docs[i]) /\ Turn(a, docs[i]) \in Acc
    <3>1. step[<<i, a>>] = Turn(a, docs[i])
      OBVIOUS
    <3> HIDE DEF step
    <3>2. Turn(a, docs[i]) \in Acc
      <4>1. listed[i] = Rollup(docs[i], chunks, included) /\ listed[i] \in {listed[j] : j \in 1..n}
        BY <1>0, <1>2
      <4>2. Append(a, listed[i]) \in Seq({listed[j] : j \in 1..n})
        BY <4>1
      <4> HIDE DEF Drop
      <4>3. CASE Drop(a, docs[i])
        BY <4>3
      <4>4. CASE ~ Drop(a, docs[i])
        BY <4>1, <4>2, <4>4
      <4>. QED  BY <4>3, <4>4
    <3>. QED  BY <3>1, <3>2
  <2>. QED  BY <2>1
<1> HIDE DEF Turn, step, Acc
<1>5. Closed(<<>>, step, Acc, n)
  BY <1>3, <1>4 DEF Closed
<1>6. \E c : c = B(c)
  <2>1. PICK c : IsTable(c, <<>>, step, Acc, n)
    BY <1>2, <1>5, FoldTable
  <2>2. ASSUME NEW U \in SUBSET (1..n), U # {}
        PROVE  c[U] = Turn(c[U \ {Max(U)}], docs[Max(U)])
    <3>1. PICK V \in SUBSET (1..n) : V = U \ {Max(U)}
      OBVIOUS
    <3>2. PICK i \in 1..n : i = Max(U)
      BY <1>2, <2>2, PrefixFacts
    <3>3. c[U] = step[<<i, c[V]>>] /\ c[V] \in Acc
      BY <2>1, <2>2, <3>1, <3>2 DEF IsTable
    <3>. QED  BY <1>4, <3>1, <3>2, <3>3
  <2>3. c = [U \in SUBSET (1..n) |-> c[U]] /\ c[{}] = <<>>
    BY <2>1 DEF IsTable
  <2>4. c = B(c)
    BY <1>2, <2>2, <2>3
  <2>. QED  BY <2>4
<1>7. h = B(h)
  BY <1>6
<1> HIDE DEF h
<1>8. Follows(h, <<>>, step, Acc, n)
  <2>1. h[{}] = <<>>
    BY <1>7
  <2>2. ASSUME NEW U \in SUBSET (1..n), U # {}, h[U \ {Max(U)}] \in Acc
        PROVE  h[U] = step[<<Max(U), h[U \ {Max(U)}]>>]
    <3>1. PICK a \in Acc : a = h[U \ {Max(U)}]
      BY <2>2
    <3>2. PICK i \in 1..n : i = Max(U)
      BY <1>2, <2>2, PrefixFacts
    <3>3. h[U] = Turn(a, docs[i])
      BY <1>2, <1>7, <2>2, <3>1, <3>2
    <3>. QED  BY <1>4, <3>1, <3>2, <3>3
  <2>. QED  BY <2>1, <2>2 DEF Follows
<1>9. PICK r : Turns(r, <<>>, step, Acc, n) /\ r[n] = h[1..n]
  BY <1>2, <1>5, <1>8, FoldTurns
<1>10. r[n] = Rollups(docs, chunks, included)
  BY <1>1, <1>2, <1>9
<1>11. r[0] = <<>> /\ \A i \in 1..n : r[i - 1] \in Acc /\ r[i] = Turn(r[i - 1], docs[i])
  <2>1. ASSUME NEW i \in 1..n PROVE r[i - 1] \in Acc /\ r[i] = Turn(r[i - 1], docs[i])
    BY <1>4, <1>9 DEF Turns
  <2>. QED  BY <1>9, <2>1 DEF Turns
<1>12. \A i \in 1..n : r[i] = IF i \in out THEN r[i - 1] ELSE Append(r[i - 1], listed[i])
  <2>1. ASSUME NEW i \in 1..n PROVE r[i] = IF i \in out THEN r[i - 1] ELSE Append(r[i - 1], listed[i])
    BY <1>0, <1>11 DEF Turn
  <2>. QED  BY <2>1
<1>13. Filters(r, listed, out, n)
  BY <1>11, <1>12 DEF Filters
<1>. QED  BY <1>10, <1>13

\* What the greedy fill has used and included after each chunk ...
FitTurns(r, chunks, budget, n) ==
  /\ r[0] = [used |-> 0, included |-> {}]
  /\ \A i \in 1..n :
       /\ r[i - 1] \in [used : Nat, included : SUBSET (1..n)]
       /\ r[i] = IF r[i - 1].used + chunks[i].tokens <= budget
                 THEN [used |-> r[i - 1].used + chunks[i].tokens, included |-> r[i - 1].included \cup {i}]
                 ELSE r[i - 1]

\* The loop of _fit_budget.
LEMMA FitBudgetTurns ==
  ASSUME NEW chunks, NEW n \in Nat, DOMAIN chunks = 1..n, \A i \in 1..n : chunks[i].tokens \in Nat,
         NEW budget \in Nat
  PROVE  \E r : FitTurns(r, chunks, budget, n) /\ r[n] = FitBudget(chunks, budget)
<1> DEFINE ids == [i \in DOMAIN chunks |-> i]
           Turn(a, x) == IF a.used + chunks[x].tokens <= budget
                         THEN [used |-> a.used + chunks[x].tokens, included |-> a.included \cup {x}]
                         ELSE a
           B(c) == [U \in SUBSET (DOMAIN ids) |->
                      IF U = {} THEN [used |-> 0, included |-> {}] ELSE LET i == Max(U) IN Turn(c[U \ {i}], ids[i])]
           h == CHOOSE c : c = B(c)
           Acc == [used : Nat, included : SUBSET (1..n)]
           step == [p \in (1..n) \X Acc |-> Turn(p[2], ids[p[1]])]
<1>1. FitBudget(chunks, budget) = h[DOMAIN ids]
  BY Zenon DEF FitBudget, FoldLeftDomain, FoldLeft, MapThenFoldSet
<1>2. DOMAIN ids = 1..n /\ n \in Nat
  OBVIOUS
<1>3. [used |-> 0, included |-> {}] \in Acc
  OBVIOUS
<1>4. \A i \in 1..n, a \in Acc : step[<<i, a>>] = Turn(a, ids[i]) /\ Turn(a, ids[i]) \in Acc
  <2>1. ASSUME NEW i \in 1..n, NEW a \in Acc
        PROVE  step[<<i, a>>] = Turn(a, ids[i]) /\ Turn(a, ids[i]) \in Acc
    <3>1. step[<<i, a>>] = Turn(a, ids[i])
      OBVIOUS
    <3> HIDE DEF step
    <3>2. Turn(a, ids[i]) \in Acc
      <4>1. ids[i] = i /\ chunks[i].tokens \in Nat /\ a.used \in Nat /\ a.included \in SUBSET (1..n)
        OBVIOUS
      <4>2. a.used + chunks[i].tokens \in Nat /\ a.included \cup {i} \in SUBSET (1..n)
        BY <4>1
      <4>. QED  BY <4>1, <4>2
    <3>. QED  BY <3>1, <3>2
  <2>. QED  BY <2>1
<1> HIDE DEF Turn, step, Acc
<1>5. Closed([used |-> 0, included |-> {}], step, Acc, n)
  BY <1>3, <1>4 DEF Closed
<1>6. \E c : c = B(c)
  <2>1. PICK c : IsTable(c, [used |-> 0, included |-> {}], step, Acc, n)
    BY <1>2, <1>5, FoldTable
  <2>2. ASSUME NEW U \in SUBSET (1..n), U # {}
        PROVE  c[U] = Turn(c[U \ {Max(U)}], ids[Max(U)])
    <3>1. PICK V \in SUBSET (1..n) : V = U \ {Max(U)}
      OBVIOUS
    <3>2. PICK i \in 1..n : i = Max(U)
      BY <1>2, <2>2, PrefixFacts
    <3>3. c[U] = step[<<i, c[V]>>] /\ c[V] \in Acc
      BY <2>1, <2>2, <3>1, <3>2 DEF IsTable
    <3>. QED  BY <1>4, <3>1, <3>2, <3>3
  <2>3. c = [U \in SUBSET (1..n) |-> c[U]] /\ c[{}] = [used |-> 0, included |-> {}]
    BY <2>1 DEF IsTable
  <2>4. c = B(c)
    BY <1>2, <2>2, <2>3
  <2>. QED  BY <2>4
<1>7. h = B(h)
  BY <1>6
<1> HIDE DEF h
<1>8. Follows(h, [used |-> 0, included |-> {}], step, Acc, n)
  <2>1. h[{}] = [used |-> 0, included |-> {}]
    BY <1>7
  <2>2. ASSUME NEW U \in SUBSET (1..n), U # {}, h[U \ {Max(U)}] \in Acc
        PROVE  h[U] = step[<<Max(U), h[U \ {Max(U)}]>>]
    <3>1. PICK a \in Acc : a = h[U \ {Max(U)}]
      BY <2>2
    <3>2. PICK i \in 1..n : i = Max(U)
      BY <1>2, <2>2, PrefixFacts
    <3>3. h[U] = Turn(a, ids[i])
      BY <1>2, <1>7, <2>2, <3>1, <3>2
    <3>. QED  BY <1>4, <3>1, <3>2, <3>3
  <2>. QED  BY <2>1, <2>2 DEF Follows
<1>9. PICK r : Turns(r, [used |-> 0, included |-> {}], step, Acc, n) /\ r[n] = h[1..n]
  BY <1>2, <1>5, <1>8, FoldTurns
<1>10. r[n] = FitBudget(chunks, budget)
  BY <1>1, <1>2, <1>9
<1>11. r[0] = [used |-> 0, included |-> {}] /\ \A i \in 1..n : r[i - 1] \in Acc /\ r[i] = Turn(r[i - 1], ids[i])
  <2>1. ASSUME NEW i \in 1..n PROVE r[i - 1] \in Acc /\ r[i] = Turn(r[i - 1], ids[i])
    BY <1>4, <1>9 DEF Turns
  <2>. QED  BY <1>9, <2>1 DEF Turns
<1>12. \A i \in 1..n : ids[i] = i
  OBVIOUS
<1>13. FitTurns(r, chunks, budget, n)
  BY <1>11, <1>12 DEF FitTurns, Turn, Acc
<1>. QED  BY <1>10, <1>13

\* ... and what the sum of tokens has come to.
TokenTurns(r, chunks, S, n) ==
  /\ r[0] = 0
  /\ \A i \in 1..n : r[i - 1] \in Nat /\ r[i] = r[i - 1] + (IF i \in S THEN chunks[i].tokens ELSE 0)

\* The sum of the tokens of some chunks.
LEMMA TokensOfTurns ==
  ASSUME NEW chunks, NEW n \in Nat, DOMAIN chunks = 1..n, \A i \in 1..n : chunks[i].tokens \in Nat,
         NEW S
  PROVE  \E r : TokenTurns(r, chunks, S, n) /\ r[n] = TokensOf(chunks, S)
<1> DEFINE ids == [i \in DOMAIN chunks |-> i]
           Turn(a, x) == a + (IF x \in S THEN chunks[x].tokens ELSE 0)
           B(c) == [U \in SUBSET (DOMAIN ids) |->
                      IF U = {} THEN 0 ELSE LET i == Max(U) IN Turn(c[U \ {i}], ids[i])]
           h == CHOOSE c : c = B(c)
           Acc == Nat
           step == [p \in (1..n) \X Acc |-> Turn(p[2], ids[p[1]])]
<1>1. TokensOf(chunks, S) = h[DOMAIN ids]
  BY Zenon DEF TokensOf, FoldLeftDomain, FoldLeft, MapThenFoldSet
<1>2. DOMAIN ids = 1..n /\ n \in Nat
  OBVIOUS
<1>3. 0 \in Acc
  OBVIOUS
<1>4. \A i \in 1..n, a \in Acc : step[<<i, a>>] = Turn(a, ids[i]) /\ Turn(a, ids[i]) \in Acc
  <2>1. ASSUME NEW i \in 1..n, NEW a \in Acc
        PROVE  step[<<i, a>>] = Turn(a, ids[i]) /\ Turn(a, ids[i]) \in Acc
    <3>1. step[<<i, a>>] = Turn(a, ids[i])
      OBVIOUS
    <3> HIDE DEF step
    <3>2. Turn(a, ids[i]) \in Acc
      <4>1. ids[i] = i /\ chunks[i].tokens \in Nat
        OBVIOUS
      <4>. QED  BY <4>1
    <3>. QED  BY <3>1, <3>2
  <2>. QED  BY <2>1
<1> HIDE DEF Turn, step, Acc
<1>5. Closed(0, step, Acc, n)
  BY <1>3, <1>4 DEF Closed
<1>6. \E c : c = B(c)
  <2>1. PICK c : IsTable(c, 0, step, Acc, n)
    BY <1>2, <1>5, FoldTable
  <2>2. ASSUME NEW U \in SUBSET (1..n), U # {}
        PROVE  c[U] = Turn(c[U \ {Max(U)}], ids[Max(U)])
    <3>1. PICK V \in SUBSET (1..n) : V = U \ {Max(U)}
      OBVIOUS
    <3>2. PICK i \in 1..n : i = Max(U)
      BY <1>2, <2>2, PrefixFacts
    <3>3. c[U] = step[<<i, c[V]>>] /\ c[V] \in Acc
      BY <2>1, <2>2, <3>1, <3>2 DEF IsTable
    <3>. QED  BY <1>4, <3>1, <3>2, <3>3
  <2>3. c = [U \in SUBSET (1..n) |-> c[U]] /\ c[{}] = 0
    BY <2>1 DEF IsTable
  <2>4. c = B(c)
    BY <1>2, <2>2, <2>3
  <2>. QED  BY <2>4
<1>7. h = B(h)
  BY <1>6
<1> HIDE DEF h
<1>8. Follows(h, 0, step, Acc, n)
  <2>1. h[{}] = 0
    BY <1>7
  <2>2. ASSUME NEW U \in SUBSET (1..n), U # {}, h[U \ {Max(U)}] \in Acc
        PROVE  h[U] = step[<<Max(U), h[U \ {Max(U)}]>>]
    <3>1. PICK a \in Acc : a = h[U \ {Max(U)}]
      BY <2>2
    <3>2. PICK i \in 1..n : i = Max(U)
      BY <1>2, <2>2, PrefixFacts
    <3>3. h[U] = Turn(a, ids[i])
      BY <1>2, <1>7, <2>2, <3>1, <3>2
    <3>. QED  BY <1>4, <3>1, <3>2, <3>3
  <2>. QED  BY <2>1, <2>2 DEF Follows
<1>9. PICK r : Turns(r, 0, step, Acc, n) /\ r[n] = h[1..n]
  BY <1>2, <1>5, <1>8, FoldTurns
<1>10. r[n] = TokensOf(chunks, S)
  BY <1>1, <1>2, <1>9
<1>11. r[0] = 0 /\ \A i \in 1..n : r[i - 1] \in Acc /\ r[i] = Turn(r[i - 1], ids[i])
  <2>1. ASSUME NEW i \in 1..n PROVE r[i - 1] \in Acc /\ r[i] = Turn(r[i - 1], ids[i])
    BY <1>4, <1>9 DEF Turns
  <2>. QED  BY <1>9, <2>1 DEF Turns
<1>12. \A i \in 1..n : ids[i] = i
  OBVIOUS
<1>13. TokenTurns(r, chunks, S, n)
  BY <1>11, <1>12 DEF TokenTurns, Turn, Acc
<1>. QED  BY <1>10, <1>13

------------------------------------------------------------------------------

\* What is flattened has its elements from the sequences.
LEMMA FlattenType ==
  ASSUME NEW E, NEW seqs \in Seq(Seq(E)), NEW n, n = Len(seqs)
  PROVE  FlattenSeq(seqs) \in Seq(E)
<1>1. n \in Nat /\ \A i \in 1..n : seqs[i] \in Seq(E)
  OBVIOUS
<1>2. CASE n = 0
  <2>1. FlattenSeq(seqs) = seqs
    BY <1>2 DEF FlattenSeq
  <2>2. seqs = <<>>
    BY <1>2, EmptySeq
  <2>3. <<>> \in Seq(E)
    BY EmptySeq
  <2>. QED  BY <2>1, <2>2, <2>3, Zenon
<1>3. CASE n # 0
  <2> DEFINE B(f) == [i \in 1..Len(seqs) |-> IF i = 1 THEN seqs[i] ELSE f[i - 1] \o seqs[i]]
             h == CHOOSE f : f = B(f)
             Acc == Seq(E)
             step == [p \in (1..n) \X Acc |-> p[2] \o seqs[p[1]]]
             A == {i \in 0..n : i # 0 => h[i] \in Seq(E)}
  <2>1. FlattenSeq(seqs) = h[n]
    BY <1>3 DEF FlattenSeq
  <2>2. Closed(<<>>, step, Acc, n)
    <3>1. ASSUME NEW i \in 1..n, NEW a \in Acc PROVE step[<<i, a>>] \in Acc
      <4>1. step[<<i, a>>] = a \o seqs[i] /\ seqs[i] \in Seq(E) /\ a \in Seq(E)
        BY <1>1
      <4>2. a \o seqs[i] \in Seq(E)
        BY <4>1
      <4>. QED  BY <4>1, <4>2
    <3>2. <<>> \in Acc
      OBVIOUS
    <3>. QED  BY <3>1, <3>2 DEF Closed
  <2>3. \A i \in 1..n, a \in Acc : step[<<i, a>>] = a \o seqs[i]
    OBVIOUS
  <2> HIDE DEF step
  <2>4. PICK c : IsTable(c, <<>>, step, Acc, n)
    BY <1>1, <2>2, FoldTable
  <2>5. Follows(c, <<>>, step, Acc, n)
    <3>1. c[{}] = <<>>
      BY <2>4 DEF IsTable
    <3>2. ASSUME NEW U \in SUBSET (1..n), U # {} PROVE c[U] = step[<<Max(U), c[U \ {Max(U)}]>>]
      BY <2>4, <3>2 DEF IsTable
    <3>. QED  BY <3>1, <3>2 DEF Follows
  <2>6. PICK r : Turns(r, <<>>, step, Acc, n)
    BY <1>1, <2>2, <2>5, FoldTurns
  <2>7. \E f : f = B(f)
    <3> DEFINE f == [i \in 1..n |-> r[i]]
    <3>1. \A i \in 1..n : f[i] = r[i]
      OBVIOUS
    <3>2. f = [i \in 1..n |-> f[i]]
      OBVIOUS
    <3> HIDE DEF f
    <3>3. ASSUME NEW i \in 1..n PROVE f[i] = IF i = 1 THEN seqs[i] ELSE f[i - 1] \o seqs[i]
      <4>1. r[i] = r[i - 1] \o seqs[i] /\ r[0] = <<>> /\ seqs[i] \in Seq(E)
        BY <1>1, <2>3, <2>6 DEF Turns
      <4>2. CASE i = 1
        <5>1. <<>> \o seqs[i] = seqs[i]
          BY <4>1, ConcatEmptySeq
        <5>2. r[i - 1] = r[0]
          BY <4>2
        <5>3. f[i] = seqs[i]
          BY <3>1, <4>1, <5>1, <5>2
        <5>. QED  BY <4>2, <5>3
      <4>3. CASE i # 1
        <5>1. f[i - 1] = r[i - 1] /\ f[i] = r[i]
          BY <3>1, <4>3
        <5>2. f[i] = f[i - 1] \o seqs[i]
          BY <4>1, <5>1
        <5>. QED  BY <4>3, <5>2
      <4>. QED  BY <4>2, <4>3
    <3>4. f = B(f)
      <4>1. f = [i \in 1..n |-> IF i = 1 THEN seqs[i] ELSE f[i - 1] \o seqs[i]]
        BY <3>2, <3>3
      <4>. QED  BY <4>1
    <3>. QED  BY <3>4
  <2>8. h = B(h)
    BY <2>7
  <2> HIDE DEF h
  <2>9. 0 \in A
    BY <1>1
  <2>10. ASSUME NEW i \in 1..n, i - 1 \in A PROVE i \in A
    <3>1. seqs[i] \in Seq(E)
      BY <1>1
    <3>2. CASE i = 1
      BY <2>8, <3>1, <3>2
    <3>3. CASE i # 1
      <4>1. h[i - 1] \in Seq(E)
        BY <2>10, <3>3
      <4>2. h[i] = h[i - 1] \o seqs[i]
        BY <2>8, <3>3
      <4>3. h[i - 1] \o seqs[i] \in Seq(E)
        BY <3>1, <4>1
      <4>4. h[i] \in Seq(E) /\ i \in 0..n
        BY <4>2, <4>3
      <4>. QED  BY <4>4
    <3>. QED  BY <3>2, <3>3
  <2>11. \A i \in 0..n : i \in A
    <3> HIDE DEF A
    <3>. QED  BY <1>1, <2>9, <2>10, UpTo
  <2>. QED  BY <1>1, <1>3, <2>1, <2>11
<1>. QED  BY <1>2, <1>3

\* Positions can be listed by any strict weak order, equal ones as they are.
LEMMA StableOrder ==
  ASSUME NEW n \in Nat, NEW R,
         \A i, j \in 1..n : <<i, j>> \in R => <<j, i>> \notin R,
         \A i, j, k \in 1..n : <<i, j>> \notin R /\ <<j, k>> \notin R => <<i, k>> \notin R
  PROVE  \E o \in SetToSeqs(1..n) : \A i, j \in 1..n : i < j =>
           <<o[j], o[i]>> \notin R /\ (<<o[i], o[j]>> \in R \/ o[i] < o[j])
<1> DEFINE T == {p \in (1..n) \X (1..n) : p \in R \/ (<<p[2], p[1]>> \notin R /\ p[1] < p[2])}
<1>1. \A i, j \in 1..n : <<i, j>> \in T <=> <<i, j>> \in R \/ (<<j, i>> \notin R /\ i < j)
  OBVIOUS
<1> HIDE DEF T
<1>2. PICK S : S = 1..n
  OBVIOUS
<1>3. /\ \A x \in S : <<x, x>> \notin T
      /\ \A x, y \in S : x # y => <<x, y>> \in T \/ <<y, x>> \in T
  BY <1>1, <1>2
<1>4. ASSUME NEW x \in S, NEW y \in S, NEW z \in S, <<x, y>> \in T, <<y, z>> \in T PROVE <<x, z>> \in T
  <2>1. <<y, x>> \notin R /\ <<z, y>> \notin R
    BY <1>1, <1>2, <1>4
  <2>2. <<z, x>> \notin R
    BY <1>2, <2>1
  <2>3. CASE <<x, z>> \in R
    BY <1>1, <1>2, <2>3
  <2>4. CASE <<x, z>> \notin R
    <3>1. <<x, y>> \notin R /\ <<y, z>> \notin R
      BY <1>2, <2>1, <2>4
    <3>2. x < y /\ y < z
      BY <1>1, <1>2, <1>4, <3>1
    <3>3. x < z
      BY <1>2, <3>2
    <3>. QED  BY <1>1, <1>2, <2>2, <3>3
  <2>. QED  BY <2>3, <2>4
<1>5. IsFiniteSet(S) /\ Cardinality(S) = n
  BY <1>2, FS_Interval
<1>6. PICK o \in SetToSeqs(S) : \A i, j \in DOMAIN o : i < j => <<o[j], o[i]>> \notin T
  BY <1>3, <1>4, <1>5, SortedListExists
<1>7. o \in Seq(S) /\ Len(o) = n /\ \A i, j \in 1..n : i # j => o[i] # o[j]
  BY <1>5, PermutationFacts
<1>8. ASSUME NEW i \in 1..n, NEW j \in 1..n, i < j
      PROVE  <<o[j], o[i]>> \notin R /\ (<<o[i], o[j]>> \in R \/ o[i] < o[j])
  <2>1. DOMAIN o = 1..n /\ o[i] \in S /\ o[j] \in S
    BY <1>7
  <2>2. o[i] # o[j]
    BY <1>7, <1>8
  <2>3. <<o[j], o[i]>> \notin T
    BY <1>6, <1>8, <2>1
  <2>4. <<o[i], o[j]>> \in T
    BY <1>3, <2>1, <2>2, <2>3
  <2>. QED  BY <1>1, <1>2, <2>1, <2>3, <2>4
<1>. QED  BY <1>2, <1>6, <1>8

------------------------------------------------------------------------------

\* A sequence has the elements of another, each from the position that `at`
\* tells.
Arranged(out, seq, pos, n) ==
  /\ pos \in [1..n -> 1..n]
  /\ \A i, j \in 1..n : i # j => pos[i] # pos[j]
  /\ \A k \in 1..n : \E i \in 1..n : pos[i] = k
  /\ DOMAIN out = 1..n /\ Len(out) = n
  /\ \A i \in 1..n : out[i] = seq[pos[i]]

\* The two sorts.
ByScore(seq) == StableSort(seq, LAMBDA a, b : a.score > b.score)

BySection(seq) ==
  StableSort(seq, LAMBDA a, b :
    \/ SectionOrder[a.doc_type] < SectionOrder[b.doc_type]
    \/ SectionOrder[a.doc_type] = SectionOrder[b.doc_type] /\ a.score > b.score)

Descending(out, n) == \A i, j \in 1..n : i < j => out[i].score >= out[j].score

InSections(out, n) ==
  \A i, j \in 1..n : i < j =>
    /\ SectionOrder[out[i].doc_type] <= SectionOrder[out[j].doc_type]
    /\ SectionOrder[out[i].doc_type] = SectionOrder[out[j].doc_type] => out[i].score >= out[j].score

\* A list of positions has each of them at one place.
LEMMA PositionFacts ==
  ASSUME NEW n \in Nat, NEW o \in SetToSeqs(1..n)
  PROVE  /\ o \in [1..n -> 1..n]
         /\ \A i, j \in 1..n : i # j => o[i] # o[j]
         /\ \A k \in 1..n : \E i \in 1..n : o[i] = k
<1>1. PICK S : S = 1..n
  OBVIOUS
<1>2. IsFiniteSet(1..n) /\ Cardinality(1..n) = n
  BY FS_Interval
<1>3. IsFiniteSet(S) /\ Cardinality(S) = n /\ o \in SetToSeqs(S)
  BY <1>1, <1>2
<1>4. o \in Seq(S) /\ Len(o) = Cardinality(S) /\ ToSet(o) = S /\ \A i, j \in 1..Len(o) : i # j => o[i] # o[j]
  BY <1>3, PermutationFacts
<1>5. o \in [1..n -> 1..n] /\ DOMAIN o = 1..n /\ \A i, j \in 1..n : i # j => o[i] # o[j]
  BY <1>1, <1>3, <1>4
<1>6. ToSet(o) = {o[i] : i \in DOMAIN o}
  BY DEF ToSet
<1>7. \A k \in 1..n : \E i \in 1..n : o[i] = k
  BY <1>1, <1>4, <1>5, <1>6
<1>. QED  BY <1>5, <1>7

\* Chunks are ranked by score.
LEMMA RankedByScore ==
  ASSUME NEW E, NEW seq \in Seq(E), NEW n, n = Len(seq),
         \A i \in 1..n : seq[i].score \in Int
  PROVE  \E out, pos : /\ out \in Seq(E) /\ Arranged(out, seq, pos, n) /\ out = ByScore(seq)
                                 /\ Descending(out, n)
<1> DEFINE Before(a, b) == a.score > b.score
           R == {p \in (1..n) \X (1..n) : Before(seq[p[1]], seq[p[2]])}
           Fine(o) == \A i, j \in DOMAIN seq : i < j =>
                        /\ ~ Before(seq[o[j]], seq[o[i]])
                        /\ Before(seq[o[i]], seq[o[j]]) \/ o[i] < o[j]
           order == CHOOSE o \in SetToSeqs(DOMAIN seq) : Fine(o)
           out == [i \in DOMAIN seq |-> seq[order[i]]]
<1>1. n \in Nat /\ DOMAIN seq = 1..n /\ \A i \in 1..n : seq[i] \in E
  OBVIOUS
<1>2. \A i, j \in 1..n : <<i, j>> \in R <=> Before(seq[i], seq[j])
  OBVIOUS
<1>3. out = ByScore(seq)
  BY Zenon DEF StableSort, ByScore, BySection
<1> HIDE DEF R
<1>4. \A i, j \in 1..n : <<i, j>> \in R => <<j, i>> \notin R
  BY <1>2
<1>5. \A i, j, k \in 1..n : <<i, j>> \notin R /\ <<j, k>> \notin R => <<i, k>> \notin R
  BY <1>2
<1> HIDE DEF Before
<1>6. \E o \in SetToSeqs(1..n) : \A i, j \in 1..n : i < j =>
        <<o[j], o[i]>> \notin R /\ (<<o[i], o[j]>> \in R \/ o[i] < o[j])
  BY <1>1, <1>4, <1>5, StableOrder
<1>9. \E o \in SetToSeqs(DOMAIN seq) : Fine(o)
  <2>1. PICK o \in SetToSeqs(1..n) : \A i, j \in 1..n : i < j =>
               <<o[j], o[i]>> \notin R /\ (<<o[i], o[j]>> \in R \/ o[i] < o[j])
    BY <1>6
  <2>2. o \in [1..n -> 1..n]
    BY <1>1, <2>1, PositionFacts
  <2>3. \A i \in 1..n : o[i] \in 1..n
    BY <2>2
  <2>4. Fine(o)
    <3>1. ASSUME NEW i \in 1..n, NEW j \in 1..n, i < j
          PROVE  ~ Before(seq[o[j]], seq[o[i]]) /\ (Before(seq[o[i]], seq[o[j]]) \/ o[i] < o[j])
      BY <1>2, <2>1, <2>3, <3>1
    <3>. QED  BY <1>1, <3>1
  <2>. QED  BY <1>1, <2>1, <2>4
<1>10. order \in SetToSeqs(DOMAIN seq) /\ Fine(order)
  <2> HIDE DEF Fine
  <2>. QED  BY <1>9
<1> HIDE DEF order
<1>11. order \in SetToSeqs(1..n)
  BY <1>1, <1>10
<1>12. \A i, j \in 1..n : i # j => order[i] # order[j]
  BY <1>1, <1>11, PositionFacts
<1>13. order \in [1..n -> 1..n]
  BY <1>1, <1>11, PositionFacts
<1>14. \A k \in 1..n : \E i \in 1..n : order[i] = k
  BY <1>1, <1>11, PositionFacts
<1>15. \A i \in 1..n : out[i] = seq[order[i]] /\ out[i] \in E
  BY <1>1, <1>13
<1>16. DOMAIN out = 1..n
  BY <1>1
<1>17. out \in Seq(E) /\ Len(out) = n
  <2>1. out \in [1..n -> E]
    BY <1>1, <1>13
  <2> HIDE DEF out
  <2>. QED  BY <1>1, <2>1
<1> HIDE DEF out
<1>18. Arranged(out, seq, order, n)
  BY <1>12, <1>13, <1>14, <1>15, <1>16, <1>17 DEF Arranged
<1>19. ASSUME NEW i \in 1..n, NEW j \in 1..n, i < j
      PROVE  out[i].score >= out[j].score
  <2>1. ~ Before(seq[order[j]], seq[order[i]])
    BY <1>1, <1>10, <1>19
  <2>2. order[i] \in 1..n /\ order[j] \in 1..n /\ out[i] = seq[order[i]] /\ out[j] = seq[order[j]]
    BY <1>13, <1>15
  <2>3. seq[order[i]].score \in Int /\ seq[order[j]].score \in Int
    BY <2>2
  <2>. QED  BY <2>1, <2>2, <2>3 DEF Before
<1>24. Descending(out, n)
  BY <1>19 DEF Descending
<1>. QED  BY <1>3, <1>17, <1>18, <1>24

\* Rows are sorted by section, then by score.
LEMMA SortedBySection ==
  ASSUME NEW E, NEW seq \in Seq(E), NEW n, n = Len(seq),
         \A i \in 1..n : SectionOrder[seq[i].doc_type] \in Int /\ seq[i].score \in Int
  PROVE  \E out, pos : /\ out \in Seq(E) /\ Arranged(out, seq, pos, n) /\ out = BySection(seq)
                                 /\ InSections(out, n)
<1> DEFINE Before(a, b) == \/ SectionOrder[a.doc_type] < SectionOrder[b.doc_type]
                           \/ SectionOrder[a.doc_type] = SectionOrder[b.doc_type] /\ a.score > b.score
           R == {p \in (1..n) \X (1..n) : Before(seq[p[1]], seq[p[2]])}
           Fine(o) == \A i, j \in DOMAIN seq : i < j =>
                        /\ ~ Before(seq[o[j]], seq[o[i]])
                        /\ Before(seq[o[i]], seq[o[j]]) \/ o[i] < o[j]
           order == CHOOSE o \in SetToSeqs(DOMAIN seq) : Fine(o)
           out == [i \in DOMAIN seq |-> seq[order[i]]]
<1>1. n \in Nat /\ DOMAIN seq = 1..n /\ \A i \in 1..n : seq[i] \in E
  OBVIOUS
<1>2. \A i, j \in 1..n : <<i, j>> \in R <=> Before(seq[i], seq[j])
  OBVIOUS
<1>3. out = BySection(seq)
  BY Zenon DEF StableSort, ByScore, BySection
<1> HIDE DEF R
<1>20. PICK sec : sec = [i \in 1..n |-> SectionOrder[seq[i].doc_type]]
  OBVIOUS
<1>21. PICK key : key = [i \in 1..n |-> seq[i].score]
  OBVIOUS
<1>22. \A i \in 1..n : sec[i] \in Int /\ key[i] \in Int
  BY <1>20, <1>21
<1>23. \A i, j \in 1..n : <<i, j>> \in R <=> sec[i] < sec[j] \/ (sec[i] = sec[j] /\ key[i] > key[j])
  <2>1. ASSUME NEW i \in 1..n, NEW j \in 1..n
        PROVE  <<i, j>> \in R <=> sec[i] < sec[j] \/ (sec[i] = sec[j] /\ key[i] > key[j])
    <3>1. /\ sec[i] = SectionOrder[seq[i].doc_type] /\ key[i] = seq[i].score
          /\ sec[j] = SectionOrder[seq[j].doc_type] /\ key[j] = seq[j].score
      BY <1>20, <1>21
    <3>2. <<i, j>> \in R <=> Before(seq[i], seq[j])
      BY <1>2
    <3>. QED  BY <3>1, <3>2
  <2>. QED  BY <2>1
<1>4. \A i, j \in 1..n : <<i, j>> \in R => <<j, i>> \notin R
  <2>1. ASSUME NEW i \in 1..n, NEW j \in 1..n, <<i, j>> \in R PROVE <<j, i>> \notin R
    <3>1. sec[i] < sec[j] \/ (sec[i] = sec[j] /\ key[i] > key[j])
      BY <1>23, <2>1
    <3>2. sec[i] \in Int /\ sec[j] \in Int /\ key[i] \in Int /\ key[j] \in Int
      BY <1>22
    <3>3. ~ (sec[j] < sec[i] \/ (sec[j] = sec[i] /\ key[j] > key[i]))
      BY <3>1, <3>2
    <3>. QED  BY <1>23, <3>3
  <2>. QED  BY <2>1
<1>5. \A i, j, k \in 1..n : <<i, j>> \notin R /\ <<j, k>> \notin R => <<i, k>> \notin R
  <2>1. ASSUME NEW i \in 1..n, NEW j \in 1..n, NEW k \in 1..n, <<i, j>> \notin R, <<j, k>> \notin R
        PROVE  <<i, k>> \notin R
    <3>1. /\ sec[j] < sec[i] \/ (sec[i] = sec[j] /\ key[i] <= key[j])
          /\ sec[k] < sec[j] \/ (sec[j] = sec[k] /\ key[j] <= key[k])
      BY <1>22, <1>23, <2>1
    <3>. QED  BY <1>22, <1>23, <3>1
  <2>. QED  BY <2>1
<1> HIDE DEF Before
<1>6. \E o \in SetToSeqs(1..n) : \A i, j \in 1..n : i < j =>
        <<o[j], o[i]>> \notin R /\ (<<o[i], o[j]>> \in R \/ o[i] < o[j])
  BY <1>1, <1>4, <1>5, StableOrder
<1>9. \E o \in SetToSeqs(DOMAIN seq) : Fine(o)
  <2>1. PICK o \in SetToSeqs(1..n) : \A i, j \in 1..n : i < j =>
               <<o[j], o[i]>> \notin R /\ (<<o[i], o[j]>> \in R \/ o[i] < o[j])
    BY <1>6
  <2>2. o \in [1..n -> 1..n]
    BY <1>1, <2>1, PositionFacts
  <2>3. \A i \in 1..n : o[i] \in 1..n
    BY <2>2
  <2>4. Fine(o)
    <3>1. ASSUME NEW i \in 1..n, NEW j \in 1..n, i < j
          PROVE  ~ Before(seq[o[j]], seq[o[i]]) /\ (Before(seq[o[i]], seq[o[j]]) \/ o[i] < o[j])
      BY <1>2, <2>1, <2>3, <3>1
    <3>. QED  BY <1>1, <3>1
  <2>. QED  BY <1>1, <2>1, <2>4
<1>10. order \in SetToSeqs(DOMAIN seq) /\ Fine(order)
  <2> HIDE DEF Fine
  <2>. QED  BY <1>9
<1> HIDE DEF order
<1>11. order \in SetToSeqs(1..n)
  BY <1>1, <1>10
<1>12. \A i, j \in 1..n : i # j => order[i] # order[j]
  BY <1>1, <1>11, PositionFacts
<1>13. order \in [1..n -> 1..n]
  BY <1>1, <1>11, PositionFacts
<1>14. \A k \in 1..n : \E i \in 1..n : order[i] = k
  BY <1>1, <1>11, PositionFacts
<1>15. \A i \in 1..n : out[i] = seq[order[i]] /\ out[i] \in E
  BY <1>1, <1>13
<1>16. DOMAIN out = 1..n
  BY <1>1
<1>17. out \in Seq(E) /\ Len(out) = n
  <2>1. out \in [1..n -> E]
    BY <1>1, <1>13
  <2> HIDE DEF out
  <2>. QED  BY <1>1, <2>1
<1> HIDE DEF out
<1>18. Arranged(out, seq, order, n)
  BY <1>12, <1>13, <1>14, <1>15, <1>16, <1>17 DEF Arranged
<1>19. ASSUME NEW i \in 1..n, NEW j \in 1..n, i < j
      PROVE  /\ SectionOrder[out[i].doc_type] <= SectionOrder[out[j].doc_type]
             /\ SectionOrder[out[i].doc_type] = SectionOrder[out[j].doc_type] => out[i].score >= out[j].score
  <2>1. ~ Before(seq[order[j]], seq[order[i]])
    BY <1>1, <1>10, <1>19
  <2>2. order[i] \in 1..n /\ order[j] \in 1..n /\ out[i] = seq[order[i]] /\ out[j] = seq[order[j]]
    BY <1>13, <1>15
  <2>3. /\ seq[order[i]].score \in Int /\ SectionOrder[seq[order[i]].doc_type] \in Int
        /\ seq[order[j]].score \in Int /\ SectionOrder[seq[order[j]].doc_type] \in Int
    BY <2>2
  <2>. QED  BY <2>1, <2>2, <2>3 DEF Before
<1>24. InSections(out, n)
  BY <1>19 DEF InSections
<1>. QED  BY <1>3, <1>17, <1>18, <1>24

------------------------------------------------------------------------------

\* Of multiples: they grow by what is multiplied, and have no rest.
LEMMA Multiples ==
  ASSUME NEW d \in Nat \ {0}
  PROVE  /\ \A i \in Nat : i * d \in Nat /\ i <= i * d /\ (i + 1) * d = i * d + d /\ (i * d) % d = 0
         /\ \A i, j \in Nat : i < j => i * d + d <= j * d
         /\ \A s \in Nat : s % d = 0 => \E q \in Nat : s = q * d
<1>1. ASSUME NEW i \in Nat PROVE i * d \in Nat /\ i <= i * d /\ (i + 1) * d = i * d + d
  OBVIOUS
<1>2. ASSUME NEW i \in Nat PROVE (i * d) % d = 0
  OBVIOUS
<1>3. ASSUME NEW i \in Nat, NEW j \in Nat, i < j PROVE i * d + d <= j * d
  <2>1. (j - (i + 1)) * d >= 0
    BY <1>3
  <2>2. (j - (i + 1)) * d = j * d - (i * d + d)
    OBVIOUS
  <2>. QED  BY <2>1, <2>2
<1>4. ASSUME NEW s \in Nat, s % d = 0 PROVE \E q \in Nat : s = q * d
  <2>1. s = ((s \div d) * d) + (s % d)
    OBVIOUS
  <2>2. PICK q \in Nat : q = s \div d
    OBVIOUS
  <2>3. s = (q * d) + (s % d) /\ q * d \in Nat
    BY <1>1, <2>1, <2>2
  <2>4. s = q * d
    BY <1>4, <2>3
  <2>. QED  BY <2>4
<1>. QED  BY <1>1, <1>2, <1>3, <1>4

\* The steps of the chunker go forward, and no further than a chunk is long.
LEMMA StepFacts ==
  Step \in Nat \ {0} /\ Step <= LinesPerChunk /\ LinesPerChunk \in Nat \ {0} /\ LinesPerChunk - Step = OverlapLines
BY ChunkerParameters DEF Step

\* Where chunks start: at the multiples of Step below the m-th, the first
\* whose chunk reaches the end.
LEMMA ChunkStartFacts ==
  ASSUME NEW W, NEW lines \in Seq(W), lines # <<>>
  PROVE  \E m \in Nat \ {0} :
           /\ Cardinality(ChunkStarts(lines)) = m
           /\ Len(lines) <= (m - 1) * Step + LinesPerChunk
           /\ \A i \in 1..m : (i - 1) * Step \in Nat /\ (i - 1) * Step < Len(lines)
           /\ \A i \in 1..(m - 1) : (i - 1) * Step + LinesPerChunk < Len(lines)
<1> DEFINE N == {i \in Nat : Len(lines) <= i * Step + LinesPerChunk}
<1>1. PICK L \in Nat \ {0} : L = Len(lines)
  BY EmptySeq
<1>2. PICK d \in Nat \ {0} : d = Step
  BY StepFacts
<1>3. PICK P \in Nat \ {0} : P = LinesPerChunk /\ d <= P
  BY StepFacts, <1>2
<1>4. L \in N
  <2>1. L <= L * d /\ L * d \in Nat
    BY <1>1, <1>2, Multiples
  <2>. QED  BY <1>1, <1>2, <1>3, <2>1
<1>5. PICK q \in N : \A j \in N : ~ (j < q)
  BY <1>4, LeastNumber
<1>6. q \in Nat /\ L <= q * d + P /\ \A i \in Nat : i < q => i * d + P < L
  <2>1. q \in Nat /\ L <= q * d + P
    BY <1>1, <1>2, <1>3, <1>5
  <2>2. ASSUME NEW i \in Nat, i < q PROVE i * d + P < L
    <3>1. i \notin N /\ i * d \in Nat
      BY <1>2, <1>5, <2>2, Multiples
    <3>. QED  BY <1>1, <1>2, <1>3, <3>1
  <2>. QED  BY <2>1, <2>2
<1>7. ASSUME NEW i \in Nat, i <= q PROVE i * d \in Nat /\ i * d < L /\ (i # 0 => i * d - d + P < L)
  <2>1. i * d \in Nat
    BY Multiples
  <2>2. CASE i = 0
    <3>1. i * d = 0
      BY <2>2
    <3>. QED  BY <1>1, <2>2, <3>1
  <2>3. CASE i # 0
    <3>1. i - 1 \in Nat /\ i - 1 < q
      BY <1>6, <1>7, <2>3
    <3>2. (i - 1) * d + P < L /\ (i - 1) * d \in Nat
      BY <1>6, <3>1, Multiples
    <3>3. ((i - 1) + 1) * d = (i - 1) * d + d
      BY <3>1, Multiples
    <3>4. i * d = (i - 1) * d + d
      BY <3>3
    <3>. QED  BY <1>3, <2>1, <3>2, <3>4
  <2>. QED  BY <2>2, <2>3
<1> DEFINE S == ChunkStarts(lines)
           f == [i \in 1..(q + 1) |-> (i - 1) * d]
<1>8. S = {s \in 0..(L - 1) : s % d = 0 /\ (s = 0 \/ s - d + P < L)}
  BY <1>1, <1>2, <1>3 DEF ChunkStarts
<1> HIDE DEF S
<1>9. \A i \in 1..(q + 1) : f[i] \in S
  <2>1. ASSUME NEW i \in 1..(q + 1) PROVE f[i] \in S
    <3>1. PICK k \in Nat : k = i - 1 /\ k <= q
      BY <1>6
    <3>2. f[i] = k * d
      BY <3>1
    <3>3. k * d \in Nat /\ k * d < L /\ (k # 0 => k * d - d + P < L) /\ (k * d) % d = 0
      BY <1>7, <3>1, Multiples
    <3>4. k = 0 => k * d = 0
      OBVIOUS
    <3>5. k * d \in 0..(L - 1)
      BY <1>1, <3>3
    <3>. QED  BY <1>8, <3>2, <3>3, <3>4, <3>5
  <2>. QED  BY <2>1
<1>10. \A s \in S : \E i \in 1..(q + 1) : f[i] = s
  <2>1. ASSUME NEW s \in S PROVE \E i \in 1..(q + 1) : f[i] = s
    <3>1. s \in 0..(L - 1) /\ s % d = 0 /\ (s = 0 \/ s - d + P < L) /\ s \in Nat
      BY <1>8
    <3>2. PICK k \in Nat : s = k * d
      BY <3>1, Multiples
    <3>3. k <= q
      <4>1. ASSUME k > q PROVE FALSE
        <5>1. q * d + d <= k * d /\ q * d \in Nat
          BY <1>6, <4>1, Multiples
        <5>2. k * d - d + P < L
          BY <1>2, <3>1, <3>2, <5>1
        <5>3. q * d + P <= k * d - d + P
          BY <1>2, <1>3, <3>1, <3>2, <5>1
        <5>. QED  BY <1>1, <1>3, <1>6, <3>1, <3>2, <5>1, <5>2, <5>3
      <4>. QED  BY <1>6, <4>1
    <3>4. k + 1 \in 1..(q + 1)
      BY <1>6, <3>3
    <3>5. f[k + 1] = (k + 1 - 1) * d
      BY <3>4
    <3>6. (k + 1 - 1) = k
      OBVIOUS
    <3>. QED  BY <3>2, <3>4, <3>5, <3>6
  <2>. QED  BY <2>1
<1>11. \A i, j \in 1..(q + 1) : f[i] = f[j] => i = j
  <2>1. ASSUME NEW i \in 1..(q + 1), NEW j \in 1..(q + 1), i < j PROVE f[i] < f[j]
    <3>1. PICK k \in Nat : k = i - 1
      BY <1>6
    <3>2. PICK l \in Nat : l = j - 1
      BY <1>6
    <3>3. f[i] = k * d /\ f[j] = l * d /\ k < l
      BY <1>6, <2>1, <3>1, <3>2
    <3>4. k * d + d <= l * d /\ k * d \in Nat /\ l * d \in Nat
      BY <3>3, Multiples
    <3>. QED  BY <3>3, <3>4
  <2>2. ASSUME NEW i \in 1..(q + 1) PROVE f[i] \in Nat
    BY <1>8, <1>9
  <2> HIDE DEF f
  <2>3. ASSUME NEW i \in 1..(q + 1), NEW j \in 1..(q + 1), f[i] = f[j], i # j PROVE FALSE
    <3>1. i < j \/ j < i
      BY <1>6, <2>3
    <3>2. f[i] < f[j] \/ f[j] < f[i]
      BY <2>1, <3>1
    <3>3. f[i] \in Nat /\ f[j] \in Nat
      BY <2>2
    <3>. QED  BY <2>3, <3>2, <3>3
  <2>. QED  BY <2>3
<1>12. PICK T : T = 1..(q + 1)
  OBVIOUS
<1>13. IsFiniteSet(1..(q + 1)) /\ Cardinality(1..(q + 1)) = q + 1
  BY <1>6, FS_Interval
<1>14. f \in [T -> S] /\ (\A i, j \in T : f[i] = f[j] => i = j) /\ \A s \in S : \E i \in T : f[i] = s
  BY <1>9, <1>10, <1>11, <1>12
<1> HIDE DEF f
<1>15. f \in Bijection(T, S)
  BY <1>14, Fun_IsBij
<1>16. Cardinality(S) = q + 1
  <2>1. ExistsBijection(T, S) /\ IsFiniteSet(T)
    BY <1>12, <1>13, <1>15 DEF ExistsBijection
  <2>2. Cardinality(T) = Cardinality(S)
    BY <2>1, FS_Bijection
  <2>. QED  BY <1>12, <1>13, <2>2
<1>17. ASSUME NEW i \in 1..(q + 1) PROVE (i - 1) * Step \in Nat /\ (i - 1) * Step < Len(lines)
  <2>1. i - 1 \in Nat /\ i - 1 <= q
    BY <1>6
  <2>. QED  BY <1>1, <1>2, <1>7, <2>1
<1>18. ASSUME NEW i \in 1..(q + 1 - 1) PROVE (i - 1) * Step + LinesPerChunk < Len(lines)
  <2>1. i - 1 \in Nat /\ i - 1 < q
    BY <1>6
  <2>. QED  BY <1>1, <1>2, <1>3, <1>6, <2>1
<1>19. q + 1 \in Nat \ {0} /\ Len(lines) <= (q + 1 - 1) * Step + LinesPerChunk
  <2>1. q + 1 - 1 = q
    BY <1>6
  <2>. QED  BY <1>1, <1>2, <1>3, <1>6, <2>1
<1>. QED  BY <1>16, <1>17, <1>18, <1>19 DEF S

\* The smaller of two.
LEMMA MinOfTwo ==
  ASSUME NEW x \in Int, NEW y \in Int
  PROVE  Min({x, y}) = IF x <= y THEN x ELSE y
<1>1. IsFiniteSet({x, y})
  BY PairIsFinite
<1>2. Min({x, y}) \in {x, y} /\ \A z \in {x, y} : Min({x, y}) <= z
  BY <1>1, Bounds
<1>. QED  BY <1>2

\* The chunks of a text are texts and cover it.
LEMMA ChunkFacts ==
  ASSUME NEW W, NEW lines \in Seq(W), lines # <<>>
  PROVE  /\ ChunksCover(lines)
         /\ Chunks(lines) \in Seq(Seq(W))
         /\ \A i \in DOMAIN Chunks(lines) : Chunks(lines)[i] # <<>>
<1> DEFINE chunk(i) == Chunks(lines)[i]
           Top(i) == (i - 1) * Step + 1
           End(i) == Top(i) + Len(chunk(i)) - 1
<1>1. PICK L \in Nat \ {0} : L = Len(lines)
  BY EmptySeq
<1>2. PICK m \in Nat \ {0} :
           /\ Cardinality(ChunkStarts(lines)) = m
           /\ Len(lines) <= (m - 1) * Step + LinesPerChunk
           /\ \A i \in 1..m : (i - 1) * Step \in Nat /\ (i - 1) * Step < Len(lines)
           /\ \A i \in 1..(m - 1) : (i - 1) * Step + LinesPerChunk < Len(lines)
  BY ChunkStartFacts
<1>3. PICK d \in Nat \ {0} : d = Step
  BY StepFacts
<1>4. PICK P \in Nat \ {0} : P = LinesPerChunk /\ d <= P /\ P - d = OverlapLines
  BY StepFacts, <1>3
<1>5. Chunks(lines) = [i \in 1..m |-> SubSeq(lines, (i - 1) * d + 1, Min({(i - 1) * d + P, L}))]
  BY <1>1, <1>2, <1>3, <1>4 DEF Chunks
<1>6. ASSUME NEW i \in 1..m
      PROVE  /\ chunk(i) \in Seq(W) /\ chunk(i) # <<>> /\ chunk(i) = SubSeq(lines, Top(i), End(i))
             /\ End(i) = IF (i - 1) * d + P <= L THEN (i - 1) * d + P ELSE L
  <2>1. PICK a \in Nat : a = (i - 1) * d /\ a < L
    BY <1>1, <1>2, <1>3
  <2>2. PICK e \in Int : e = IF a + P <= L THEN a + P ELSE L
    OBVIOUS
  <2>3. Min({a + P, L}) = e
    BY <2>2, MinOfTwo
  <2>4. chunk(i) = SubSeq(lines, a + 1, e)
    BY <1>5, <2>1, <2>3
  <2>5. e \in (a + 1)..L
    BY <1>4, <2>1, <2>2
  <2>6. SubSeq(lines, a + 1, e) \in Seq(W) /\ Len(SubSeq(lines, a + 1, e)) = e - (a + 1) + 1
    <3>1. a + 1 \in 1..(Len(lines) + 1) /\ e \in (a + 1 - 1)..Len(lines) /\ a + 1 <= e
      BY <1>1, <2>1, <2>5
    <3>2. /\ SubSeq(lines, a + 1, e) \in Seq(W)
          /\ Len(SubSeq(lines, a + 1, e)) = IF a + 1 <= e THEN e - (a + 1) + 1 ELSE 0
      BY <3>1, SubSeqProperties
    <3>. QED  BY <3>1, <3>2
  <2>7. Len(chunk(i)) = e - a /\ chunk(i) \in Seq(W)
    BY <2>1, <2>2, <2>4, <2>6
  <2>8. Top(i) = a + 1 /\ End(i) = e
    BY <1>3, <2>1, <2>2, <2>7
  <2>9. chunk(i) # <<>>
    BY <2>1, <2>5, <2>7
  <2>. QED  BY <2>1, <2>2, <2>4, <2>7, <2>8, <2>9
<1>7. Chunks(lines) \in Seq(Seq(W)) /\ DOMAIN Chunks(lines) = 1..m
  <2>1. Chunks(lines) \in [1..m -> Seq(W)]
    BY <1>5, <1>6
  <2>. QED  BY <2>1
<1>8. End(m) = Len(lines)
  <2>1. m \in 1..m /\ L <= (m - 1) * d + P /\ (m - 1) * d \in Nat
    BY <1>1, <1>2, <1>3, <1>4
  <2>2. End(m) = IF (m - 1) * d + P <= L THEN (m - 1) * d + P ELSE L
    BY <1>6, <2>1
  <2>. QED  BY <1>1, <2>1, <2>2
<1>9. ASSUME NEW i \in 1..(m - 1)
      PROVE  End(i) < End(i + 1) /\ End(i) - Top(i + 1) + 1 = OverlapLines
  <2>1. i \in 1..m /\ i + 1 \in 1..m /\ i - 1 \in Nat
    OBVIOUS
  <2>2. PICK a \in Nat : a = (i - 1) * d /\ a + P < L
    BY <1>1, <1>2, <1>3, <1>4, <2>1
  <2>3. End(i) = a + P
    BY <1>6, <2>1, <2>2
  <2>4. PICK k \in Nat : k = i - 1
    BY <2>1
  <2>5. (i + 1 - 1) * d = a + d
    <3>1. (k + 1) * d = k * d + d
      BY Multiples
    <3>2. i + 1 - 1 = k + 1
      BY <2>4
    <3>3. (i + 1 - 1) * d = (k + 1) * d
      BY <3>2, Zenon
    <3>4. a = k * d
      BY <2>2, <2>4, Zenon
    <3>5. (k + 1) * d = a + d
      BY <3>1, <3>4
    <3>. QED  BY <3>3, <3>5, Zenon
  <2>6. End(i + 1) = IF a + d + P <= L THEN a + d + P ELSE L
    <3>1. PICK j \in 1..m : j = i + 1
      BY <2>1
    <3>2. End(j) = IF (j - 1) * d + P <= L THEN (j - 1) * d + P ELSE L
      BY <1>6
    <3>3. (j - 1) * d = a + d
      BY <2>5, <3>1
    <3>. QED  BY <3>1, <3>2, <3>3
  <2>7. Top(i + 1) = a + d + 1
    BY <1>3, <2>5
  <2>. QED  BY <1>4, <2>2, <2>3, <2>6, <2>7
<1>10. ChunksCover(lines)
  BY <1>2, <1>6, <1>8, <1>9 DEF ChunksCover
<1>. QED  BY <1>6, <1>7, <1>10

------------------------------------------------------------------------------

Words == UNION {ToSet(w) : w \in Contents \cup {Query}}
ScoredChunk == [file : Files, text : Seq(Words), tokens : Nat, score : Int]

\* What may be in a file is a text, and so is the query.
LEMMA ContentIsText ==
  ASSUME NEW w \in Contents \cup {Query}
  PROVE  w \in Seq(Words)
<1>1. w \in Seq(ToSet(w))
  BY ContextAssumption
<1>2. ToSet(w) \subseteq Words
  BY DEF Words
<1>3. \A i \in 1..Len(w) : w[i] \in Words
  BY <1>1, <1>2
<1>. QED  BY <1>1, <1>3

\* What is read of a file is a sequence of words; a file that is gone reads as empty.
LEMMA ReadIsText ==
  ASSUME disk \in [Files -> Contents \cup {Gone}], NEW f \in Files
  PROVE  ReadContent(f) \in Seq(Words)
<1>1. CASE disk[f] = Gone
  <2>1. ReadContent(f) = <<>>
    BY <1>1 DEF ReadContent
  <2>. QED  BY <2>1, EmptySeq
<1>2. CASE disk[f] # Gone
  <2>1. disk[f] \in Contents /\ ReadContent(f) = disk[f]
    BY <1>2 DEF ReadContent
  <2>. QED  BY <2>1, ContentIsText
<1>. QED  BY <1>1, <1>2

\* The words of a text are finitely many.
LEMMA WordsAreFinite ==
  ASSUME NEW W, NEW s \in Seq(W)
  PROVE  IsFiniteSet(ToSet(s))
<1>1. Len(s) \in Nat /\ DOMAIN s = 1..Len(s)
  OBVIOUS
<1>2. PICK S : S = 1..Len(s)
  OBVIOUS
<1>3. IsFiniteSet(S)
  BY <1>1, <1>2, FS_Interval
<1>4. PICK K : K = ToSet(s)
  OBVIOUS
<1>5. \A i \in S : s[i] \in K
  BY <1>1, <1>2, <1>4 DEF ToSet
<1>6. \A k \in K : \E i \in S : s[i] = k
  BY <1>1, <1>2, <1>4 DEF ToSet
<1>. QED  BY <1>3, <1>4, <1>5, <1>6, ImageIsFinite

\* Two texts are as near to each other in either order.
LEMMA NearFacts ==
  ASSUME NEW W, NEW a \in Seq(W), NEW b \in Seq(W)
  PROVE  Jaccard(a, b) \in Int /\ (NearDuplicate(a, b) <=> NearDuplicate(b, a))
<1>1. PICK A : A = ToSet(a) /\ IsFiniteSet(A)
  BY WordsAreFinite
<1>2. PICK B : B = ToSet(b) /\ IsFiniteSet(B)
  BY WordsAreFinite
<1>3. A \cap B = B \cap A /\ A \cup B = B \cup A
  OBVIOUS
<1>4. Jaccard(a, b) = Jaccard(b, a)
  BY <1>1, <1>2, <1>3 DEF Jaccard
<1>5. Jaccard(a, b) \in Int
  <2>1. CASE A = {} \/ B = {}
    BY <1>1, <1>2, <2>1 DEF Jaccard
  <2>2. CASE ~ (A = {} \/ B = {})
    <3>1. IsFiniteSet(A \cap B) /\ IsFiniteSet(A \cup B)
      BY <1>1, <1>2, FS_Intersection, FS_Union
    <3>2. PICK c \in Nat : c = Cardinality(A \cap B)
      BY <3>1, FS_CardinalityType
    <3>3. PICK d \in Nat \ {0} : d = Cardinality(A \cup B)
      BY <2>2, <3>1, FS_CardinalityType, FS_EmptySet
    <3>4. Jaccard(a, b) = (60 * c) \div d
      BY <1>1, <1>2, <2>2, <3>2, <3>3 DEF Jaccard
    <3>5. (60 * c) \div d \in Int
      OBVIOUS
    <3>. QED  BY <3>4, <3>5
  <2>. QED  BY <2>1, <2>2
<1>. QED  BY <1>4, <1>5 DEF NearDuplicate

\* What a chunk is given as its score is a number.
LEMMA ScoreType ==
  ASSUME NEW row \in Document, NEW semantic \in Int, NEW pinned
  PROVE  ScoreDocument(row, semantic, pinned) \in Int
<1>1. row.doc_type \in {"coding_standard", "architecture_doc", "api_spec", "source_file"}
  BY DEF Document, SectionOrder
<1>2. DocTypePrior[row.doc_type] \in Int
  BY <1>1 DEF DocTypePrior
<1>3. RecencyDecay(row.age) \in Int
  BY DEF RecencyDecay
<1>. QED  BY <1>2, <1>3 DEF ScoreDocument

\* The chunks of a document.
LEMMA ScoredChunksType ==
  ASSUME disk \in [Files -> Contents \cup {Gone}], NEW row \in Document, NEW pinned
  PROVE  /\ ScoredChunks(row, pinned) \in Seq(ScoredChunk)
         /\ \A i \in DOMAIN ScoredChunks(row, pinned) : ScoredChunks(row, pinned)[i].file = row.file
<1> DEFINE Scored(text, count) ==
             [file |-> row.file, text |-> text, tokens |-> count,
              score |-> ScoreDocument(row, Jaccard(Query, text), pinned)]
<1>1. PICK content \in Seq(Words) : content = ReadContent(row.file)
  <2>1. row.file \in Files
    BY DEF Document
  <2>. QED  BY <2>1, ReadIsText
<1>2. ASSUME NEW text \in Seq(Words), NEW count \in Nat
      PROVE  Scored(text, count) \in ScoredChunk /\ Scored(text, count).file = row.file
  <2>1. Query \in Seq(Words) /\ row.file \in Files
    BY ContentIsText DEF Document
  <2>2. Jaccard(Query, text) \in Int
    BY <2>1, NearFacts
  <2>3. ScoreDocument(row, Jaccard(Query, text), pinned) \in Int
    BY <2>2, ScoreType
  <2>. QED  BY <2>1, <2>3 DEF ScoredChunk
<1>3. CASE content = <<>>
  <2>1. ScoredChunks(row, pinned) = <<Scored(<<>>, 0)>>
    BY <1>1, <1>3 DEF ScoredChunks
  <2>2. Scored(<<>>, 0) \in ScoredChunk /\ Scored(<<>>, 0).file = row.file
    BY <1>2, EmptySeq
  <2> HIDE DEF Scored
  <2>3. <<Scored(<<>>, 0)>> \in Seq(ScoredChunk)
    BY <2>2
  <2>4. \A i \in DOMAIN <<Scored(<<>>, 0)>> : <<Scored(<<>>, 0)>>[i].file = row.file
    BY <2>2
  <2>. QED  BY <2>1, <2>3, <2>4
<1>4. CASE content # <<>>
  <2>1. PICK chunks : chunks = Chunks(content)
    OBVIOUS
  <2>2. chunks \in Seq(Seq(Words)) /\ \A i \in DOMAIN chunks : chunks[i] # <<>>
    BY <1>4, <2>1, ChunkFacts
  <2>3. PICK n \in Nat : n = Len(chunks) /\ DOMAIN chunks = 1..n
    BY <2>2
  <2>4. ScoredChunks(row, pinned) = [i \in DOMAIN chunks |-> Scored(chunks[i], EstimateTokens(chunks[i]))]
    BY <1>1, <1>4, <2>1 DEF ScoredChunks
  <2>5. ASSUME NEW i \in 1..n
        PROVE  /\ Scored(chunks[i], EstimateTokens(chunks[i])) \in ScoredChunk
               /\ Scored(chunks[i], EstimateTokens(chunks[i])).file = row.file
    <3>1. chunks[i] \in Seq(Words) /\ chunks[i] # <<>>
      BY <2>2, <2>3
    <3>2. PICK l \in Nat \ {0} : l = Len(chunks[i])
      BY <3>1, EmptySeq
    <3>3. EstimateTokens(chunks[i]) \in Nat
      <4>1. EstimateTokens(chunks[i]) = (5 * l - 1) \div 4
        BY <3>1, <3>2 DEF EstimateTokens
      <4>2. (5 * l - 1) \div 4 \in Nat
        OBVIOUS
      <4>. QED  BY <4>1, <4>2
    <3>. QED  BY <1>2, <3>1, <3>3
  <2> HIDE DEF Scored
  <2>6. ScoredChunks(row, pinned) \in [1..n -> ScoredChunk]
    BY <2>3, <2>4, <2>5
  <2>7. \A i \in DOMAIN ScoredChunks(row, pinned) : ScoredChunks(row, pinned)[i].file = row.file
    BY <2>3, <2>4, <2>5
  <2>. QED  BY <2>6, <2>7
<1>. QED  BY <1>3, <1>4

------------------------------------------------------------------------------

\* What a loop keeps was there before all that it keeps later, and what was
\* there before is kept.
Keeps(r, pos, E, n) ==
  /\ r[n] \in Seq(E) /\ pos \in [1..Len(r[n]) -> 1..n] /\ DOMAIN r[n] = 1..Len(r[n])
  /\ \A p, q \in 1..Len(r[n]) : p < q => r[n][p] \in ToSet(r[pos[q] - 1])
  /\ \A i \in 1..n : \A k \in ToSet(r[i - 1]) : \E p \in 1..Len(r[n]) : r[n][p] = k /\ pos[p] < i

\* What a filter keeps before the q-th one it keeps was kept by an earlier turn.
LEMMA KeptBefore ==
  ASSUME NEW n \in Nat, NEW E, NEW x, \A i \in 1..n : x[i] \in E,
         NEW out, NEW r, Filters(r, x, out, n), NEW pos, PlacedAt(pos, r, x, out, n)
  PROVE  Keeps(r, pos, E, n)
<1>1. \A i \in 0..n : r[i] \in Seq(E)
  BY FilterType
<1>2. r[n] \in Seq(E) /\ pos \in [1..Len(r[n]) -> 1..n]
  BY <1>1 DEF PlacedAt
<1>3. PICK m \in Nat : m = Len(r[n])
  BY <1>2
<1>4. ASSUME NEW i \in 0..n, NEW k
      PROVE  k \in ToSet(r[i]) <=> \E p \in 1..Len(r[i]) : r[n][p] = k
  <2>1. r[i] \in Seq(E)
    BY <1>1
  <2>2. DOMAIN r[i] = 1..Len(r[i])
    BY <2>1
  <2>3. \A p \in 1..Len(r[i]) : r[i][p] = r[n][p]
    BY DEF PlacedAt
  <2>4. ToSet(r[i]) = {r[i][p] : p \in 1..Len(r[i])}
    BY <2>2 DEF ToSet
  <2>. QED  BY <2>3, <2>4
<1>5. ASSUME NEW p \in 1..m, NEW q \in 1..m, p < q PROVE r[n][p] \in ToSet(r[pos[q] - 1])
  <2>1. pos[q] \in 1..n
    BY <1>2, <1>3
  <2>2. pos[q] - 1 \in 0..n
    BY <2>1
  <2>3. Len(r[pos[q] - 1]) = q - 1
    BY <1>3 DEF PlacedAt
  <2>4. p \in 1..Len(r[pos[q] - 1])
    BY <1>3, <1>5, <2>3
  <2>. QED  BY <1>4, <2>2, <2>4
<1>6. ASSUME NEW i \in 1..n, NEW k \in ToSet(r[i - 1])
      PROVE  \E p \in 1..m : r[n][p] = k /\ pos[p] < i
  <2>1. PICK j \in 0..n : j = i - 1
    OBVIOUS
  <2>2. k \in ToSet(r[j])
    BY <2>1
  <2>3. PICK p \in 1..Len(r[j]) : r[n][p] = k
    BY <1>4, <2>2
  <2>4. Len(r[j]) <= m /\ pos[p] <= j
    BY <1>3 DEF PlacedAt
  <2>5. Len(r[j]) \in Nat
    BY <1>1
  <2>6. p \in 1..m
    BY <1>3, <2>4, <2>5
  <2>7. pos[p] \in 1..n
    BY <1>2, <1>3, <2>6
  <2>. QED  BY <2>1, <2>3, <2>4, <2>6, <2>7
<1>. QED  BY <1>2, <1>3, <1>5, <1>6 DEF Keeps

\* Of documents with equal contents the first is kept, and no document twice.
LEMMA DedupExactFacts ==
  ASSUME NEW E, NEW docs \in Seq(E),
         \A i, j \in DOMAIN docs : docs[i].file = docs[j].file => i = j
  PROVE  LET kept == DedupExact(docs)
         IN /\ kept \in Seq(E)
            /\ \A i, j \in DOMAIN kept : kept[i].hash = kept[j].hash => i = j
            /\ \A i, j \in DOMAIN kept : kept[i].file = kept[j].file => i = j
<1>1. PICK n \in Nat : n = Len(docs)
  OBVIOUS
<1>2. \E r, out : /\ Filters(r, docs, out, n) /\ r[n] = DedupExact(docs)
                  /\ \A i \in 1..n : i \in out <=> \E k \in ToSet(r[i - 1]) : k.hash = docs[i].hash
  BY <1>1, DedupExactTurns
<1>3. PICK r, out : /\ Filters(r, docs, out, n) /\ r[n] = DedupExact(docs)
                    /\ \A i \in 1..n : i \in out <=> \E k \in ToSet(r[i - 1]) : k.hash = docs[i].hash
  BY <1>2
<1>4. \A i \in 1..n : docs[i] \in E
  BY <1>1
<1>5. PICK pos : PlacedAt(pos, r, docs, out, n)
  BY <1>3, <1>4, FilterPlaces
<1>6. PICK kept : kept = DedupExact(docs)
  OBVIOUS
<1>7. PICK m : m = Len(kept)
  OBVIOUS
<1>8. /\ kept \in Seq(E) /\ pos \in [1..m -> 1..n] /\ DOMAIN kept = 1..m
      /\ \A p, q \in 1..m : p < q => kept[p] \in ToSet(r[pos[q] - 1])
  <2>1. Filters(r, docs, out, n)
    BY <1>3
  <2>2. Keeps(r, pos, E, n)
    BY <1>1, <1>4, <1>5, <2>1, KeptBefore
  <2>3. r[n] = kept
    BY <1>3, <1>6
  <2>. QED  BY <1>7, <2>2, <2>3 DEF Keeps
<1>9. /\ \A p \in 1..m : pos[p] \notin out /\ kept[p] = docs[pos[p]]
      /\ \A p, q \in 1..m : p < q => pos[p] < pos[q]
  BY <1>3, <1>5, <1>6, <1>7 DEF PlacedAt
<1>10. ASSUME NEW p \in 1..m, NEW q \in 1..m, p < q
       PROVE  kept[p].hash # kept[q].hash /\ kept[p].file # kept[q].file
  <2>1. pos[p] \in 1..n /\ pos[q] \in 1..n /\ pos[p] < pos[q] /\ pos[q] \notin out
    BY <1>8, <1>9, <1>10
  <2>2. kept[p] = docs[pos[p]] /\ kept[q] = docs[pos[q]] /\ kept[p] \in ToSet(r[pos[q] - 1])
    BY <1>8, <1>9, <1>10
  <2>3. kept[p].hash # docs[pos[q]].hash
    BY <1>3, <2>1, <2>2
  <2>4. docs[pos[p]].file # docs[pos[q]].file
    BY <1>1, <2>1
  <2>. QED  BY <2>2, <2>3, <2>4
<1>11. m \in Nat
  BY <1>7, <1>8
<1>12. ASSUME NEW p \in 1..m, NEW q \in 1..m, p # q
       PROVE  kept[p].hash # kept[q].hash /\ kept[p].file # kept[q].file
  <2>1. p < q \/ q < p
    BY <1>11, <1>12
  <2>. QED  BY <1>10, <2>1
<1>. QED  BY <1>6, <1>8, <1>12

\* Of near duplicates the first, the best, is kept.
LEMMA DedupNearFacts ==
  ASSUME NEW E, E \subseteq ScoredChunk, NEW ranked \in Seq(E),
         \A i, j \in DOMAIN ranked : i < j => ranked[i].score >= ranked[j].score
  PROVE  LET kept == DedupNearDuplicates(ranked)
         IN /\ kept \in Seq(E)
            /\ \A i \in DOMAIN ranked :
                 \E k \in DOMAIN kept : kept[k].score >= ranked[i].score /\
                   (kept[k] = ranked[i] \/ NearDuplicate(kept[k].text, ranked[i].text))
            /\ \A i, j \in DOMAIN kept : i < j =>
                 kept[i].score >= kept[j].score /\ ~ NearDuplicate(kept[i].text, kept[j].text)
<1>1. PICK n \in Nat : n = Len(ranked)
  OBVIOUS
<1>2. \E r, out : /\ Filters(r, ranked, out, n) /\ r[n] = DedupNearDuplicates(ranked)
                  /\ \A i \in 1..n : i \in out <=> \E k \in ToSet(r[i - 1]) : NearDuplicate(ranked[i].text, k.text)
  BY <1>1, DedupNearTurns
<1>3. PICK r, out : /\ Filters(r, ranked, out, n) /\ r[n] = DedupNearDuplicates(ranked)
                    /\ \A i \in 1..n : i \in out <=> \E k \in ToSet(r[i - 1]) : NearDuplicate(ranked[i].text, k.text)
  BY <1>2
<1>4. DOMAIN ranked = 1..n /\ \A i \in 1..n : ranked[i] \in E /\ ranked[i].score \in Int /\ ranked[i].text \in Seq(Words)
  BY <1>1 DEF ScoredChunk
<1>5. PICK pos : PlacedAt(pos, r, ranked, out, n)
  BY <1>3, <1>4, FilterPlaces
<1>6. PICK kept : kept = DedupNearDuplicates(ranked)
  OBVIOUS
<1>7. PICK m : m = Len(kept)
  OBVIOUS
<1>8. /\ kept \in Seq(E) /\ pos \in [1..m -> 1..n] /\ DOMAIN kept = 1..m
      /\ \A p, q \in 1..m : p < q => kept[p] \in ToSet(r[pos[q] - 1])
      /\ \A i \in 1..n : \A k \in ToSet(r[i - 1]) : \E p \in 1..m : kept[p] = k /\ pos[p] < i
  <2>0. \A i \in 1..n : ranked[i] \in E
    BY <1>4
  <2>1. Filters(r, ranked, out, n)
    BY <1>3
  <2>2. Keeps(r, pos, E, n)
    BY <1>1, <1>5, <2>0, <2>1, KeptBefore
  <2>3. r[n] = kept
    BY <1>3, <1>6
  <2>. QED  BY <1>7, <2>2, <2>3 DEF Keeps
<1>9. /\ \A p \in 1..m : pos[p] \notin out /\ kept[p] = ranked[pos[p]]
      /\ \A p, q \in 1..m : p < q => pos[p] < pos[q]
      /\ \A i \in 1..n : i \notin out => \E p \in 1..m : pos[p] = i
  BY <1>3, <1>5, <1>6, <1>7 DEF PlacedAt
<1>10. ASSUME NEW p \in 1..m, NEW q \in 1..m, p < q
       PROVE  kept[p].score >= kept[q].score /\ ~ NearDuplicate(kept[p].text, kept[q].text)
  <2>1. pos[p] \in 1..n /\ pos[q] \in 1..n /\ pos[p] < pos[q] /\ pos[q] \notin out
    BY <1>8, <1>9, <1>10
  <2>2. kept[p] = ranked[pos[p]] /\ kept[q] = ranked[pos[q]] /\ kept[p] \in ToSet(r[pos[q] - 1])
    BY <1>8, <1>9, <1>10
  <2>3. ~ NearDuplicate(ranked[pos[q]].text, kept[p].text)
    BY <1>3, <2>1, <2>2
  <2>4. kept[p].text \in Seq(Words) /\ kept[q].text \in Seq(Words)
    BY <1>4, <2>1, <2>2
  <2>5. ~ NearDuplicate(kept[p].text, kept[q].text)
    BY <2>2, <2>3, <2>4, NearFacts
  <2>6. ranked[pos[p]].score >= ranked[pos[q]].score
    BY <1>4, <2>1
  <2>. QED  BY <2>2, <2>5, <2>6
<1>11. ASSUME NEW i \in 1..n
       PROVE  \E k \in 1..m : kept[k].score >= ranked[i].score /\
                (kept[k] = ranked[i] \/ NearDuplicate(kept[k].text, ranked[i].text))
  <2>1. CASE i \notin out
    <3>1. PICK p \in 1..m : pos[p] = i
      BY <1>9, <2>1
    <3>2. kept[p] = ranked[i] /\ kept[p].score >= ranked[i].score
      BY <1>4, <1>9, <3>1
    <3>. QED  BY <3>2
  <2>2. CASE i \in out
    <3>1. PICK c \in ToSet(r[i - 1]) : NearDuplicate(ranked[i].text, c.text)
      BY <1>3, <2>2
    <3>2. PICK p \in 1..m : kept[p] = c /\ pos[p] < i
      BY <1>8, <3>1
    <3>3. pos[p] \in 1..n /\ kept[p] = ranked[pos[p]]
      BY <1>8, <1>9
    <3>4. kept[p].score >= ranked[i].score
      BY <1>4, <3>2, <3>3
    <3>5. kept[p].text \in Seq(Words) /\ ranked[i].text \in Seq(Words)
      BY <1>4, <3>3
    <3>6. NearDuplicate(kept[p].text, ranked[i].text)
      BY <3>1, <3>2, <3>5, NearFacts
    <3>. QED  BY <3>4, <3>6
  <2>. QED  BY <2>1, <2>2
<1>. QED  BY <1>4, <1>6, <1>8, <1>10, <1>11

------------------------------------------------------------------------------

\* What the greedy fill includes, and how far it has got: a chunk is in if it
\* fits beside the ones before it that are in.
Filled(r, chunks, budget, n) ==
  /\ \A i \in 0..n : r[i].used \in Nat /\ r[i].used <= budget
  /\ r[n].included \in SUBSET (1..n)
  /\ \A i \in 1..n : r[i].used = r[i - 1].used + (IF i \in r[n].included THEN chunks[i].tokens ELSE 0)
  /\ \A i \in 1..n : i \notin r[n].included => r[i - 1].used + chunks[i].tokens > budget

\* The fill stays within the budget, and leaves a chunk out only where it did not fit.
LEMMA FitFacts ==
  ASSUME NEW chunks, NEW n \in Nat, \A i \in 1..n : chunks[i].tokens \in Nat,
         NEW budget \in Nat, NEW r, FitTurns(r, chunks, budget, n)
  PROVE  Filled(r, chunks, budget, n)
<1> DEFINE A == {i \in 0..n : /\ r[i].used \in Nat /\ r[i].used <= budget
                              /\ r[i].included \in SUBSET (1..i)
                              /\ \A k \in 1..i : k \in r[i].included <=> r[k - 1].used + chunks[k].tokens <= budget}
<1>1. 0 \in A
  <2>1. r[0] = [used |-> 0, included |-> {}]
    BY DEF FitTurns
  <2>2. r[0].used = 0 /\ r[0].included = {} /\ 0 \in 0..n
    BY <2>1
  <2>. QED  BY <2>2
<1>2. ASSUME NEW i \in 1..n, i - 1 \in A PROVE i \in A
  <2>1. PICK u \in Nat : u = r[i - 1].used /\ u <= budget
    BY <1>2
  <2>2. PICK S \in SUBSET (1..(i - 1)) : S = r[i - 1].included
    BY <1>2
  <2>3. \A k \in 1..(i - 1) : k \in S <=> r[k - 1].used + chunks[k].tokens <= budget
    BY <1>2, <2>2
  <2>4. PICK t \in Nat : t = chunks[i].tokens
    OBVIOUS
  <2>5. r[i] = IF u + t <= budget THEN [used |-> u + t, included |-> S \cup {i}] ELSE r[i - 1]
    BY <2>1, <2>2, <2>4 DEF FitTurns
  <2>6. i \in 0..n
    OBVIOUS
  <2>7. CASE u + t <= budget
    <3>1. r[i].used = u + t /\ r[i].included = S \cup {i}
      BY <2>5, <2>7
    <3>2. S \cup {i} \in SUBSET (1..i)
      BY <2>2
    <3>3. ASSUME NEW k \in 1..i PROVE k \in S \cup {i} <=> r[k - 1].used + chunks[k].tokens <= budget
      <4>1. CASE k = i
        BY <2>1, <2>4, <2>7, <4>1
      <4>2. CASE k \in 1..(i - 1)
        BY <2>3, <4>2
      <4>. QED  BY <4>1, <4>2
    <3>. QED  BY <2>1, <2>4, <2>6, <2>7, <3>1, <3>2, <3>3
  <2>8. CASE ~ (u + t <= budget)
    <3>1. r[i] = r[i - 1] /\ r[i].used = u /\ r[i].included = S
      BY <2>1, <2>2, <2>5, <2>8
    <3>2. S \in SUBSET (1..i)
      BY <2>2
    <3>3. ASSUME NEW k \in 1..i PROVE k \in S <=> r[k - 1].used + chunks[k].tokens <= budget
      <4>1. CASE k = i
        <5>1. i \notin S
          BY <2>2
        <5>. QED  BY <2>1, <2>4, <2>8, <4>1, <5>1
      <4>2. CASE k \in 1..(i - 1)
        BY <2>3, <4>2
      <4>. QED  BY <4>1, <4>2
    <3>. QED  BY <2>1, <2>6, <3>1, <3>2, <3>3
  <2>. QED  BY <2>7, <2>8
<1>3. \A i \in 0..n : i \in A
  <2> HIDE DEF A
  <2>. QED  BY <1>1, <1>2, UpTo
<1>4. \A i \in 0..n : r[i].used \in Nat /\ r[i].used <= budget
  BY <1>3
<1>5. n \in A
  BY <1>3
<1>6. PICK I \in SUBSET (1..n) : I = r[n].included
  BY <1>5
<1>7. \A k \in 1..n : k \in I <=> r[k - 1].used + chunks[k].tokens <= budget
  BY <1>5, <1>6
<1>8. ASSUME NEW i \in 1..n PROVE r[i].used = r[i - 1].used + (IF i \in I THEN chunks[i].tokens ELSE 0)
  <2>1. i - 1 \in 0..n
    OBVIOUS
  <2>2. r[i - 1].used \in Nat
    BY <1>4, <2>1
  <2>3. r[i] = IF r[i - 1].used + chunks[i].tokens <= budget
               THEN [used |-> r[i - 1].used + chunks[i].tokens, included |-> r[i - 1].included \cup {i}]
               ELSE r[i - 1]
    BY DEF FitTurns
  <2>4. CASE i \in I
    BY <1>7, <2>3, <2>4
  <2>5. CASE i \notin I
    <3>1. r[i] = r[i - 1]
      BY <1>7, <2>3, <2>5
    <3>. QED  BY <2>2, <2>5, <3>1
  <2>. QED  BY <2>4, <2>5
<1>9. ASSUME NEW i \in 1..n, i \notin I PROVE r[i - 1].used + chunks[i].tokens > budget
  <2>1. i - 1 \in 0..n
    OBVIOUS
  <2>2. r[i - 1].used \in Nat /\ chunks[i].tokens \in Nat
    BY <1>4, <2>1
  <2>. QED  BY <1>7, <1>9, <2>2
<1>. QED  BY <1>4, <1>6, <1>8, <1>9 DEF Filled

\* The tokens of what is included of the chunks below m are what the fill
\* had used by then.
IndicesBelow(I, m) == {k \in I : k <= m}

ChunkAdds(u, chunks, I, n) ==
  /\ u[0] = 0 /\ \A i \in 0..n : u[i] \in Nat
  /\ \A i \in 1..n : u[i] = u[i - 1] + (IF i \in I THEN chunks[i].tokens ELSE 0)

\* The sum over the included chunks up to m is what the fill had used by turn m.
LEMMA TokensSoFar ==
  ASSUME NEW chunks, NEW n \in Nat, DOMAIN chunks = 1..n, \A i \in 1..n : chunks[i].tokens \in Nat,
         NEW I, NEW u, ChunkAdds(u, chunks, I, n),
         NEW m \in 0..n
  PROVE  TokensOf(chunks, IndicesBelow(I, m)) = u[m]
<1>0. /\ u[0] = 0 /\ \A i \in 0..n : u[i] \in Nat
      /\ \A i \in 1..n : u[i] = u[i - 1] + (IF i \in I THEN chunks[i].tokens ELSE 0)
  BY DEF ChunkAdds
<1> DEFINE S == IndicesBelow(I, m)
<1>1. \A i \in 1..n : i \in S <=> i \in I /\ i <= m
  BY DEF IndicesBelow
<1> HIDE DEF S
<1>2. PICK t : TokenTurns(t, chunks, S, n) /\ t[n] = TokensOf(chunks, S)
  <2>1. \E t : TokenTurns(t, chunks, S, n) /\ t[n] = TokensOf(chunks, S)
    BY TokensOfTurns
  <2>. QED  BY <2>1
<1> DEFINE A == {i \in 0..n : t[i] = IF i <= m THEN u[i] ELSE u[m]}
<1>3. 0 \in A
  <2>1. t[0] = 0 /\ u[0] = 0 /\ 0 \in 0..n
    BY <1>0, <1>2 DEF TokenTurns
  <2>. QED  BY <2>1
<1>4. ASSUME NEW i \in 1..n, i - 1 \in A PROVE i \in A
  <2>1. t[i] = t[i - 1] + (IF i \in S THEN chunks[i].tokens ELSE 0)
    BY <1>2 DEF TokenTurns
  <2>2. i - 1 \in 0..n /\ i \in 0..n
    OBVIOUS
  <2>3. CASE i <= m
    <3>1. t[i - 1] = u[i - 1] /\ (i \in S <=> i \in I)
      BY <1>1, <1>4, <2>3
    <3>2. t[i] = u[i]
      BY <1>0, <2>1, <3>1
    <3>. QED  BY <2>2, <2>3, <3>2
  <2>4. CASE ~ (i <= m)
    <3>1. i \notin S
      BY <1>1, <2>4
    <3>2. t[i - 1] = u[m]
      <4>1. CASE i - 1 <= m
        <5>1. i - 1 = m
          BY <2>4, <4>1
        <5>2. t[i - 1] = u[i - 1]
          BY <1>4, <4>1
        <5>. QED  BY <5>1, <5>2
      <4>2. CASE ~ (i - 1 <= m)
        BY <1>4, <4>2
      <4>. QED  BY <4>1, <4>2
    <3>3. u[m] \in Nat
      BY <1>0
    <3>4. t[i] = u[m]
      BY <2>1, <3>1, <3>2, <3>3
    <3>. QED  BY <2>2, <2>4, <3>4
  <2>. QED  BY <2>3, <2>4
<1>5. \A i \in 0..n : i \in A
  <2> HIDE DEF A
  <2>. QED  BY <1>3, <1>4, UpTo
<1>6. t[n] = IF n <= m THEN u[n] ELSE u[m]
  BY <1>5
<1>7. t[n] = u[m]
  BY <1>6
<1>. QED  BY <1>2, <1>7 DEF S

\* The fill is as full as it can be.
LEMMA FitBudgetFacts ==
  ASSUME NEW E, E \subseteq ScoredChunk, NEW kept \in Seq(E), NEW budget \in Nat
  PROVE  LET fit == FitBudget(kept, budget)
         IN /\ fit.included \in SUBSET (DOMAIN kept)
            /\ TokensOf(kept, fit.included) = fit.used /\ fit.used \in Nat /\ fit.used <= budget
            /\ \A i \in DOMAIN kept \ fit.included :
                 TokensOf(kept, {k \in fit.included : k < i}) + kept[i].tokens > budget
<1>1. PICK n \in Nat : n = Len(kept) /\ DOMAIN kept = 1..n
  OBVIOUS
<1>2. \A i \in 1..n : kept[i].tokens \in Nat
  BY <1>1 DEF ScoredChunk
<1>3. \E r : FitTurns(r, kept, budget, n) /\ r[n] = FitBudget(kept, budget)
  BY <1>1, <1>2, FitBudgetTurns
<1>4. PICK r : FitTurns(r, kept, budget, n) /\ r[n] = FitBudget(kept, budget)
  BY <1>3
<1>5. PICK fit : fit = FitBudget(kept, budget)
  OBVIOUS
<1>6. PICK I : I = fit.included
  OBVIOUS
<1>7. /\ \A i \in 0..n : r[i].used \in Nat /\ r[i].used <= budget
      /\ I \in SUBSET (1..n)
      /\ \A i \in 1..n : r[i].used = r[i - 1].used + (IF i \in I THEN kept[i].tokens ELSE 0)
      /\ \A i \in 1..n : i \notin I => r[i - 1].used + kept[i].tokens > budget
  <2>1. FitTurns(r, kept, budget, n)
    BY <1>4
  <2>2. Filled(r, kept, budget, n)
    BY <1>1, <1>2, <2>1, FitFacts
  <2>3. r[n].included = I
    BY <1>4, <1>5, <1>6
  <2>. QED  BY <2>2, <2>3 DEF Filled
<1>8. PICK u : u = [i \in 0..n |-> r[i].used]
  OBVIOUS
<1>9. \A i \in 0..n : u[i] = r[i].used /\ u[i] \in Nat
  BY <1>7, <1>8
<1>10. \A i \in 1..n : u[i] = u[i - 1] + (IF i \in I THEN kept[i].tokens ELSE 0)
  <2>1. ASSUME NEW i \in 1..n PROVE u[i] = u[i - 1] + (IF i \in I THEN kept[i].tokens ELSE 0)
    <3>1. i \in 0..n /\ i - 1 \in 0..n
      OBVIOUS
    <3>2. u[i] = r[i].used /\ u[i - 1] = r[i - 1].used
      BY <1>9, <3>1
    <3>. QED  BY <1>7, <3>2
  <2>. QED  BY <2>1
<1>11. u[0] = 0
  <2>1. r[0] = [used |-> 0, included |-> {}]
    BY <1>4 DEF FitTurns
  <2>2. r[0].used = 0
    BY <2>1
  <2>. QED  BY <1>9, <2>2
<1>12. \A m \in 0..n : TokensOf(kept, IndicesBelow(I, m)) = u[m]
  <2>1. ASSUME NEW m \in 0..n PROVE TokensOf(kept, IndicesBelow(I, m)) = u[m]
    <3>1. ChunkAdds(u, kept, I, n)
      BY <1>9, <1>10, <1>11 DEF ChunkAdds
    <3>. QED  BY <1>1, <1>2, <3>1, TokensSoFar
  <2>. QED  BY <2>1
<1>13. TokensOf(kept, I) = fit.used /\ fit.used \in Nat /\ fit.used <= budget
  <2>1. IndicesBelow(I, n) = I
    <3>1. \A k \in I : k \in Nat /\ k <= n
      BY <1>1, <1>7
    <3>. QED  BY <3>1 DEF IndicesBelow
  <2>2. TokensOf(kept, IndicesBelow(I, n)) = u[n]
    BY <1>1, <1>12
  <2>3. TokensOf(kept, I) = u[n]
    BY <2>1, <2>2
  <2>. QED  BY <1>4, <1>5, <1>7, <1>9, <2>3
<1>14. ASSUME NEW i \in (1..n) \ I PROVE TokensOf(kept, {k \in I : k < i}) + kept[i].tokens > budget
  <2>1. PICK m \in 0..n : m = i - 1
    OBVIOUS
  <2>2. IndicesBelow(I, m) = {k \in I : k < i}
    <3>1. \A k \in I : k \in Nat
      BY <1>1, <1>7
    <3>2. \A k \in I : k <= m <=> k < i
      BY <1>1, <2>1, <3>1
    <3>. QED  BY <3>2 DEF IndicesBelow
  <2>3. TokensOf(kept, IndicesBelow(I, m)) = u[m]
    BY <1>12
  <2>4. TokensOf(kept, {k \in I : k < i}) = r[m].used
    BY <1>9, <2>2, <2>3
  <2>5. r[m].used + kept[i].tokens > budget
    BY <1>7, <2>1
  <2>. QED  BY <2>4, <2>5
<1>. QED  BY <1>1, <1>5, <1>6, <1>7, <1>13, <1>14

------------------------------------------------------------------------------

\* What RolledUp says, of rows and chunks.
RowsRollUp(listed, kept, included) ==
  LET ofRow(i) == {k \in DOMAIN kept : kept[k].file = listed[i].file}
  IN
  /\ \A i \in DOMAIN listed :
       /\ listed[i].score = Max({kept[k].score : k \in ofRow(i)})
       /\ listed[i].included <=> ofRow(i) \cap included # {}
       /\ listed[i].tokens = TokensOf(kept, ofRow(i) \cap included)
  /\ {listed[i].file : i \in DOMAIN listed} = {kept[k].file : k \in DOMAIN kept}
  /\ \A i, j \in DOMAIN listed : i < j =>
       /\ listed[i].file # listed[j].file
       /\ SectionOrder[listed[i].doc_type] <= SectionOrder[listed[j].doc_type]
       /\ listed[i].doc_type = listed[j].doc_type => listed[i].score >= listed[j].score

\* The rows that are made of documents and their chunks.
LEMMA RollupFacts ==
  ASSUME NEW docs \in Seq(Document),
         \A i, j \in DOMAIN docs : docs[i].file = docs[j].file => i = j,
         NEW E, E \subseteq ScoredChunk, \A c \in E : \E i \in DOMAIN docs : docs[i].file = c.file,
         NEW kept \in Seq(E), NEW included
  PROVE  RowsRollUp(BuildSources(docs, kept, included), kept, included)
<1>1. PICK n \in Nat : n = Len(docs)
  OBVIOUS
<1>2. DOMAIN docs = 1..n /\ \A i \in 1..n : docs[i] \in Document
  BY <1>1
<1>3. PICK l \in Nat : l = Len(kept) /\ DOMAIN kept = 1..l
  OBVIOUS
<1>4. \A k \in 1..l : kept[k] \in ScoredChunk /\ kept[k].score \in Int /\ \E i \in 1..n : docs[i].file = kept[k].file
  <2>1. ASSUME NEW k \in 1..l
        PROVE  kept[k] \in ScoredChunk /\ kept[k].score \in Int /\ \E i \in 1..n : docs[i].file = kept[k].file
    <3>1. kept[k] \in E
      BY <1>3
    <3>. QED  BY <1>2, <3>1 DEF ScoredChunk
  <2>. QED  BY <2>1
<1>5. PICK listed : listed = DocRows(docs, kept, included)
  OBVIOUS
<1>6. PICK out : out = Bare(docs, kept)
  OBVIOUS
<1>7. PICK r : Filters(r, listed, out, n) /\ r[n] = Rollups(docs, kept, included)
  <2>1. \E r : Filters(r, listed, out, n) /\ r[n] = Rollups(docs, kept, included)
    BY <1>1, <1>5, <1>6, RollupTurns
  <2>. QED  BY <2>1
<1>8. PICK R : R = {listed[i] : i \in 1..n}
  OBVIOUS
<1>9. \A i \in 1..n : listed[i] \in R
  BY <1>8
<1>10. PICK pos : PlacedAt(pos, r, listed, out, n)
  BY <1>7, <1>9, FilterPlaces
<1>11. Keeps(r, pos, R, n)
  BY <1>7, <1>9, <1>10, KeptBefore
<1>12. PICK rolled : rolled = Rollups(docs, kept, included)
  OBVIOUS
<1>13. rolled \in Seq(R) /\ rolled = r[n]
  BY <1>7, <1>11, <1>12 DEF Keeps
<1>14. PICK m \in Nat : m = Len(rolled)
  BY <1>13
<1>15. /\ pos \in [1..m -> 1..n]
       /\ \A q \in 1..m : pos[q] \notin out /\ rolled[q] = listed[pos[q]]
       /\ \A q, s \in 1..m : q < s => pos[q] < pos[s]
       /\ \A i \in 1..n : i \notin out => \E q \in 1..m : pos[q] = i
  BY <1>10, <1>13, <1>14 DEF PlacedAt
<1>16. ASSUME NEW i \in 1..n, i \notin out
       PROVE  /\ SectionOrder[listed[i].doc_type] \in Int /\ listed[i].score \in Int
              /\ listed[i].file = docs[i].file /\ listed[i].doc_type = docs[i].doc_type
              /\ listed[i].score = Max({kept[k].score : k \in ChunksOf(kept, docs[i])})
              /\ listed[i].included <=> ChunksOf(kept, docs[i]) \cap included # {}
              /\ listed[i].tokens = TokensOf(kept, ChunksOf(kept, docs[i]) \cap included)
  <2>1. listed[i] = Rollup(docs[i], kept, included)
    BY <1>1, <1>5 DEF DocRows
  <2>2. /\ listed[i].file = docs[i].file /\ listed[i].doc_type = docs[i].doc_type
        /\ listed[i].score = Max({kept[k].score : k \in ChunksOf(kept, docs[i])})
        /\ listed[i].included = (ChunksOf(kept, docs[i]) \cap included # {})
        /\ listed[i].tokens = TokensOf(kept, ChunksOf(kept, docs[i]) \cap included)
    <3>1. PICK s : s = Max({kept[k].score : k \in ChunksOf(kept, docs[i])})
      OBVIOUS
    <3>2. PICK inc : inc = (ChunksOf(kept, docs[i]) \cap included # {})
      OBVIOUS
    <3>3. PICK t : t = TokensOf(kept, ChunksOf(kept, docs[i]) \cap included)
      OBVIOUS
    <3>4. listed[i] = [file |-> docs[i].file, doc_type |-> docs[i].doc_type, score |-> s,
                     included |-> inc, tokens |-> t]
      BY <2>1, <3>1, <3>2, <3>3, Zenon DEF Rollup
    <3>5. /\ listed[i].file = docs[i].file /\ listed[i].doc_type = docs[i].doc_type
          /\ listed[i].score = s /\ listed[i].included = inc /\ listed[i].tokens = t
      BY <3>4
    <3>. QED  BY <3>1, <3>2, <3>3, <3>5, Zenon
  <2>3. docs[i].doc_type \in {"coding_standard", "architecture_doc", "api_spec", "source_file"}
    BY <1>2 DEF Document, SectionOrder
  <2>4. SectionOrder[docs[i].doc_type] \in Int
    BY <2>3 DEF SectionOrder
  <2>5. PICK C : C = ChunksOf(kept, docs[i])
    OBVIOUS
  <2>6. C \in SUBSET (1..l) /\ C # {}
    BY <1>1, <1>3, <1>6, <1>16, <2>5 DEF ChunksOf, Bare
  <2>7. IsFiniteSet(C)
    <3>1. PICK S : S = 1..l
      OBVIOUS
    <3>2. IsFiniteSet(S)
      BY <3>1, FS_Interval
    <3>. QED  BY <2>6, <3>1, <3>2, FS_Subset
  <2>8. PICK K : K = {kept[k].score : k \in C}
    OBVIOUS
  <2>9. PICK f : f = [k \in C |-> kept[k].score]
    OBVIOUS
  <2>10. IsFiniteSet(K)
    <3>1. (\A k \in C : f[k] \in K) /\ \A x \in K : \E k \in C : f[k] = x
      BY <2>8, <2>9
    <3>. QED  BY <2>7, <3>1, ImageIsFinite
  <2>11. K \subseteq Int /\ K # {}
    <3>1. ASSUME NEW x \in K PROVE x \in Int
      <4>1. PICK k \in C : x = kept[k].score
        BY <2>8
      <4>2. kept[k].score \in Int
        BY <1>4, <2>6
      <4>. QED  BY <4>1, <4>2
    <3>2. PICK k \in C : TRUE
      BY <2>6
    <3>3. kept[k].score \in K
      BY <2>8
    <3>. QED  BY <3>1, <3>3
  <2>12. Max(K) \in Int
    BY <2>10, <2>11, Bounds
  <2>13. listed[i].score \in Int
    BY <2>2, <2>5, <2>8, <2>12
  <2>14. SectionOrder[listed[i].doc_type] \in Int
    BY <2>2, <2>4
  <2>15. listed[i].included <=> ChunksOf(kept, docs[i]) \cap included # {}
    BY <2>2
  <2>16. /\ listed[i].file = docs[i].file /\ listed[i].doc_type = docs[i].doc_type
         /\ listed[i].score = Max({kept[k].score : k \in ChunksOf(kept, docs[i])})
         /\ listed[i].tokens = TokensOf(kept, ChunksOf(kept, docs[i]) \cap included)
    BY <2>2, Zenon
  <2>. QED  BY <2>13, <2>14, <2>15, <2>16
<1>17. \A q \in 1..m : SectionOrder[rolled[q].doc_type] \in Int /\ rolled[q].score \in Int
  <2>1. ASSUME NEW q \in 1..m PROVE SectionOrder[rolled[q].doc_type] \in Int /\ rolled[q].score \in Int
    <3>1. PICK i \in 1..n : i = pos[q] /\ i \notin out /\ rolled[q] = listed[i]
      BY <1>15
    <3>. QED  BY <1>16, <3>1
  <2>. QED  BY <2>1
<1>18. PICK sources, place :
         /\ sources \in Seq(R) /\ Arranged(sources, rolled, place, m) /\ sources = BuildSources(docs, kept, included)
         /\ InSections(sources, m)
  <2>1. BuildSources(docs, kept, included) = BySection(rolled)
    BY <1>12, Zenon DEF BuildSources, BySection
  <2>2. \E sources, place : /\ sources \in Seq(R) /\ Arranged(sources, rolled, place, m)
                            /\ sources = BySection(rolled) /\ InSections(sources, m)
    BY <1>13, <1>14, <1>17, SortedBySection
  <2>. QED  BY <2>1, <2>2, Zenon
<1>19. /\ place \in [1..m -> 1..m]
       /\ \A i, j \in 1..m : i # j => place[i] # place[j]
       /\ \A k \in 1..m : \E i \in 1..m : place[i] = k
       /\ DOMAIN sources = 1..m
       /\ \A i \in 1..m : sources[i] = rolled[place[i]]
  BY <1>18 DEF Arranged
<1>20. PICK of : of = [i \in 1..m |-> pos[place[i]]]
  OBVIOUS
<1>21. ASSUME NEW i \in 1..m
       PROVE  of[i] \in 1..n /\ of[i] \notin out /\ sources[i] = listed[of[i]]
  BY <1>15, <1>19, <1>20
<1>22. ASSUME NEW i \in 1..m, NEW j \in 1..m, i # j PROVE of[i] # of[j]
  <2>1. place[i] \in 1..m /\ place[j] \in 1..m /\ place[i] # place[j]
    BY <1>19, <1>22
  <2>2. place[i] < place[j] \/ place[j] < place[i]
    BY <2>1
  <2>3. pos[place[i]] \in 1..n /\ pos[place[j]] \in 1..n
    BY <1>15, <2>1
  <2>4. pos[place[i]] # pos[place[j]]
    <3>1. PICK q, s : q = place[i] /\ s = place[j]
      OBVIOUS
    <3>2. q \in 1..m /\ s \in 1..m /\ (q < s \/ s < q) /\ pos[q] \in Int /\ pos[s] \in Int
      BY <2>1, <2>2, <2>3, <3>1
    <3>3. \A a, b \in 1..m : a < b => pos[a] < pos[b]
      BY <1>15
    <3>4. (q < s => pos[q] < pos[s]) /\ (s < q => pos[s] < pos[q])
      BY <3>2, <3>3
    <3>. QED  BY <3>1, <3>2, <3>4
  <2>5. of[i] = pos[place[i]] /\ of[j] = pos[place[j]]
    BY <1>20, <1>22
  <2>. QED  BY <2>4, <2>5
<1> DEFINE ofRow(i) == {k \in DOMAIN kept : kept[k].file = sources[i].file}
<1>23. ASSUME NEW i \in 1..m
       PROVE  /\ sources[i].file = docs[of[i]].file /\ ofRow(i) = ChunksOf(kept, docs[of[i]])
              /\ sources[i].score = Max({kept[k].score : k \in ofRow(i)})
              /\ sources[i].included <=> ofRow(i) \cap included # {}
              /\ sources[i].tokens = TokensOf(kept, ofRow(i) \cap included)
  <2>1. PICK d \in 1..n : d = of[i] /\ d \notin out /\ sources[i] = listed[d]
    BY <1>21
  <2>2. /\ listed[d].file = docs[d].file
        /\ listed[d].score = Max({kept[k].score : k \in ChunksOf(kept, docs[d])})
        /\ listed[d].included <=> ChunksOf(kept, docs[d]) \cap included # {}
        /\ listed[d].tokens = TokensOf(kept, ChunksOf(kept, docs[d]) \cap included)
    BY <1>16, <2>1
  <2>3. sources[i].file = docs[d].file
    BY <2>1, <2>2
  <2>4. ofRow(i) = ChunksOf(kept, docs[d])
    BY <2>3 DEF ChunksOf
  <2> HIDE DEF ofRow
  <2>. QED  BY <2>1, <2>2, <2>3, <2>4
<1>24. {sources[i].file : i \in DOMAIN sources} = {kept[k].file : k \in DOMAIN kept}
  <2>1. ASSUME NEW i \in 1..m PROVE \E k \in 1..l : kept[k].file = sources[i].file
    <3>1. of[i] \in 1..n /\ of[i] \notin out
      BY <1>21
    <3>2. ChunksOf(kept, docs[of[i]]) # {}
      BY <1>1, <1>6, <3>1 DEF Bare
    <3>3. PICK k \in DOMAIN kept : kept[k].file = docs[of[i]].file
      BY <3>2 DEF ChunksOf
    <3>. QED  BY <1>3, <1>23, <3>3
  <2>2. ASSUME NEW k \in 1..l PROVE \E i \in 1..m : sources[i].file = kept[k].file
    <3>1. PICK d \in 1..n : docs[d].file = kept[k].file
      BY <1>4
    <3>2. k \in ChunksOf(kept, docs[d])
      BY <1>3, <3>1 DEF ChunksOf
    <3>3. d \notin out
      BY <1>6, <3>2 DEF Bare
    <3>4. PICK q \in 1..m : pos[q] = d
      BY <1>15, <3>3
    <3>5. PICK i \in 1..m : place[i] = q
      BY <1>19
    <3>6. of[i] = d
      BY <1>20, <3>4, <3>5
    <3>7. sources[i].file = docs[of[i]].file
      BY <1>23
    <3>. QED  BY <3>1, <3>6, <3>7
  <2>3. ASSUME NEW x
        PROVE  x \in {sources[i].file : i \in DOMAIN sources} <=> x \in {kept[k].file : k \in DOMAIN kept}
    <3>0. DOMAIN sources = 1..m
      BY <1>19
    <3>1. x \in {sources[i].file : i \in DOMAIN sources} <=> \E i \in 1..m : sources[i].file = x
      BY <3>0
    <3>2. x \in {kept[k].file : k \in DOMAIN kept} <=> \E k \in 1..l : kept[k].file = x
      BY <1>3
    <3>3. ASSUME NEW i \in 1..m, sources[i].file = x PROVE \E k \in 1..l : kept[k].file = x
      BY <2>1, <3>3
    <3>4. ASSUME NEW k \in 1..l, kept[k].file = x PROVE \E i \in 1..m : sources[i].file = x
      BY <2>2, <3>4
    <3>. QED  BY <3>1, <3>2, <3>3, <3>4
  <2>. QED  BY <2>3
<1>25. ASSUME NEW i \in 1..m, NEW j \in 1..m, i < j
       PROVE  /\ sources[i].file # sources[j].file
              /\ SectionOrder[sources[i].doc_type] <= SectionOrder[sources[j].doc_type]
              /\ sources[i].doc_type = sources[j].doc_type => sources[i].score >= sources[j].score
  <2>1. of[i] \in 1..n /\ of[j] \in 1..n /\ of[i] # of[j]
    BY <1>21, <1>22, <1>25
  <2>2. sources[i].file # sources[j].file
    <3>1. sources[i].file = docs[of[i]].file /\ sources[j].file = docs[of[j]].file
      BY <1>23
    <3>. QED  BY <1>2, <2>1, <3>1
  <2>3. /\ SectionOrder[sources[i].doc_type] <= SectionOrder[sources[j].doc_type]
        /\ SectionOrder[sources[i].doc_type] = SectionOrder[sources[j].doc_type] =>
             sources[i].score >= sources[j].score
    BY <1>18, <1>25 DEF InSections
  <2>. QED  BY <2>2, <2>3
<1>27. \A i \in DOMAIN sources :
         /\ sources[i].score = Max({kept[k].score : k \in ofRow(i)})
         /\ sources[i].included <=> ofRow(i) \cap included # {}
         /\ sources[i].tokens = TokensOf(kept, ofRow(i) \cap included)
  BY <1>19, <1>23
<1>28. \A i, j \in DOMAIN sources : i < j =>
         /\ sources[i].file # sources[j].file
         /\ SectionOrder[sources[i].doc_type] <= SectionOrder[sources[j].doc_type]
         /\ sources[i].doc_type = sources[j].doc_type => sources[i].score >= sources[j].score
  BY <1>19, <1>25
<1>29. RowsRollUp(sources, kept, included)
  BY <1>24, <1>27, <1>28, Zenon DEF RowsRollUp
<1>. QED  BY <1>18, <1>29

------------------------------------------------------------------------------

\* Catalogs have a row for a file at most once.
Catalogs ==
  {listed \in Seq(Document) : \A i, j \in DOMAIN listed : listed[i].file = listed[j].file => i = j}

\* A file is indexed.
LEMMA IndexFileType ==
  ASSUME disk \in [Files -> Contents \cup {Gone}],
         NEW listed \in Catalogs, NEW f \in Files, disk[f] # Gone
  PROVE  IndexFile(listed, f) \in Catalogs
<1> DEFINE fresh == [file |-> f, hash |-> disk[f], doc_type |-> InferDocType(PathHints[f]), age |-> 0]
           found == {i \in DOMAIN listed : listed[i].file = f}
<1>1. PICK n \in Nat : n = Len(listed) /\ DOMAIN listed = 1..n
  BY DEF Catalogs
<1>2. PICK d \in Document : d = fresh /\ d.file = f
  <2>1. InferDocType(PathHints[f]) \in DOMAIN SectionOrder
    BY DEF InferDocType, SectionOrder
  <2>2. fresh \in Document /\ fresh.file = f
    BY <2>1 DEF Document
  <2>. QED  BY <2>2
<1>3. listed \in Seq(Document) /\ \A i, j \in 1..n : listed[i].file = listed[j].file => i = j
  BY <1>1 DEF Catalogs
<1>5. CASE found = {}
  <2>1. IndexFile(listed, f) = Append(listed, d)
    BY <1>2, <1>5, Zenon DEF IndexFile, AddDocument
  <2>2. PICK new : new = Append(listed, d)
    OBVIOUS
  <2>3. new \in Seq(Document) /\ DOMAIN new = 1..(n + 1)
    BY <1>1, <1>3, <2>2
  <2>4. new[n + 1] = d /\ \A i \in 1..n : new[i] = listed[i]
    BY <1>1, <1>3, <2>2
  <2>5. \A i \in 1..n : listed[i].file # f
    BY <1>1, <1>5
  <2>6. ASSUME NEW i \in 1..(n + 1), NEW j \in 1..(n + 1), new[i].file = new[j].file PROVE i = j
    <3>1. CASE i = n + 1 /\ j = n + 1
      BY <3>1
    <3>2. CASE i \in 1..n /\ j \in 1..n
      BY <1>3, <2>4, <2>6, <3>2
    <3>3. CASE i \in 1..n /\ j = n + 1
      BY <1>2, <2>4, <2>5, <2>6, <3>3
    <3>4. CASE i = n + 1 /\ j \in 1..n
      BY <1>2, <2>4, <2>5, <2>6, <3>4
    <3>. QED  BY <3>1, <3>2, <3>3, <3>4
  <2>. QED  BY <2>1, <2>2, <2>3, <2>6 DEF Catalogs
<1>6. CASE found # {} /\ \E i \in found : listed[i].hash = fresh.hash
  <2>1. IndexFile(listed, f) = listed
    BY <1>6, Zenon DEF IndexFile
  <2>. QED  BY <2>1
<1>7. CASE found # {} /\ ~ \E i \in found : listed[i].hash = fresh.hash
  <2>1. IndexFile(listed, f) = UpdateDocument(listed, d)
    BY <1>2, <1>7, Zenon DEF IndexFile
  <2>2. PICK new : new = UpdateDocument(listed, d)
    OBVIOUS
  <2>3. new = [i \in 1..n |-> IF listed[i].file = d.file THEN d ELSE listed[i]]
    BY <1>1, <2>2 DEF UpdateDocument
  <2>4. ASSUME NEW i \in 1..n PROVE new[i] \in Document /\ new[i].file = listed[i].file
    BY <1>1, <1>3, <2>3
  <2>5. new \in Seq(Document) /\ DOMAIN new = 1..n
    <3>1. new \in [1..n -> Document]
      BY <2>3, <2>4
    <3>. QED  BY <3>1
  <2>. QED  BY <1>3, <2>1, <2>2, <2>4, <2>5 DEF Catalogs
<1>. QED  BY <1>5, <1>6, <1>7

\* What a run over the directory makes of the catalog.
Indexed ==
  FoldLeft(LAMBDA listed, f : IF disk[f] = Gone THEN listed ELSE IndexFile(listed, f),
           catalog, [f \in Files |-> f])

\* The loop of index_directory.
LEMMA IndexedType ==
  ASSUME disk \in [Files -> Contents \cup {Gone}], catalog \in Catalogs
  PROVE  Indexed \in Catalogs
<1> DEFINE n == Cardinality(Files)
           paths == [f \in Files |-> f]
           Turn(a, x) == IF disk[x] = Gone THEN a ELSE IndexFile(a, x)
           B(c) == [U \in SUBSET (DOMAIN paths) |->
                      IF U = {} THEN catalog ELSE LET i == Max(U) IN Turn(c[U \ {i}], paths[i])]
           h == CHOOSE c : c = B(c)
           Acc == Catalogs
           step == [p \in (1..n) \X Acc |-> Turn(p[2], paths[p[1]])]
<1>1. Indexed = h[DOMAIN paths]
  BY Zenon DEF Indexed, FoldLeft, MapThenFoldSet
<1>2. DOMAIN paths = 1..n /\ n \in Nat
  <2>1. IsFiniteSet(Files) /\ Files = 1..Cardinality(Files)
    BY ContextAssumption
  <2>2. Cardinality(Files) \in Nat
    BY <2>1, FS_CardinalityType
  <2>. QED  BY <2>1, <2>2
<1>3. catalog \in Acc
  OBVIOUS
<1> HIDE DEF n
<1>4. \A i \in 1..n, a \in Acc : step[<<i, a>>] = Turn(a, paths[i]) /\ Turn(a, paths[i]) \in Acc
  <2>1. ASSUME NEW i \in 1..n, NEW a \in Acc
        PROVE  step[<<i, a>>] = Turn(a, paths[i]) /\ Turn(a, paths[i]) \in Acc
    <3>1. step[<<i, a>>] = Turn(a, paths[i])
      OBVIOUS
    <3> HIDE DEF step
    <3>2. Turn(a, paths[i]) \in Acc
      <4>1. paths[i] = i /\ i \in Files
        BY ContextAssumption DEF n
      <4>2. CASE disk[i] = Gone
        BY <4>1, <4>2
      <4>3. CASE disk[i] # Gone
        BY <4>1, <4>3, IndexFileType
      <4>. QED  BY <4>2, <4>3
    <3>. QED  BY <3>1, <3>2
  <2>. QED  BY <2>1
<1> HIDE DEF Turn, step, Acc
<1>5. Closed(catalog, step, Acc, n)
  BY <1>3, <1>4 DEF Closed
<1>6. \E c : c = B(c)
  <2>1. PICK c : IsTable(c, catalog, step, Acc, n)
    BY <1>2, <1>5, FoldTable
  <2>2. ASSUME NEW U \in SUBSET (1..n), U # {}
        PROVE  c[U] = Turn(c[U \ {Max(U)}], paths[Max(U)])
    <3>1. PICK V \in SUBSET (1..n) : V = U \ {Max(U)}
      OBVIOUS
    <3>2. PICK i \in 1..n : i = Max(U)
      BY <1>2, <2>2, PrefixFacts
    <3>3. c[U] = step[<<i, c[V]>>] /\ c[V] \in Acc
      BY <2>1, <2>2, <3>1, <3>2 DEF IsTable
    <3>. QED  BY <1>4, <3>1, <3>2, <3>3
  <2>3. c = [U \in SUBSET (1..n) |-> c[U]] /\ c[{}] = catalog
    BY <2>1 DEF IsTable
  <2>4. c = B(c)
    BY <1>2, <2>2, <2>3
  <2>. QED  BY <2>4
<1>7. h = B(h)
  BY <1>6
<1> HIDE DEF h
<1>8. Follows(h, catalog, step, Acc, n)
  <2>1. h[{}] = catalog
    BY <1>7
  <2>2. ASSUME NEW U \in SUBSET (1..n), U # {}, h[U \ {Max(U)}] \in Acc
        PROVE  h[U] = step[<<Max(U), h[U \ {Max(U)}]>>]
    <3>1. PICK a \in Acc : a = h[U \ {Max(U)}]
      BY <2>2
    <3>2. PICK i \in 1..n : i = Max(U)
      BY <1>2, <2>2, PrefixFacts
    <3>3. h[U] = Turn(a, paths[i])
      BY <1>2, <1>7, <2>2, <3>1, <3>2
    <3>. QED  BY <1>4, <3>1, <3>2, <3>3
  <2>. QED  BY <2>1, <2>2 DEF Follows
<1>9. PICK r : Turns(r, catalog, step, Acc, n) /\ r[n] = h[1..n]
  BY <1>2, <1>5, <1>8, FoldTurns
<1>10. r[n] = Indexed
  BY <1>1, <1>2, <1>9
<1>11. r[0] = catalog /\ \A i \in 1..n : r[i - 1] \in Acc /\ r[i] = Turn(r[i - 1], paths[i])
  <2>1. ASSUME NEW i \in 1..n PROVE r[i - 1] \in Acc /\ r[i] = Turn(r[i - 1], paths[i])
    BY <1>4, <1>9 DEF Turns
  <2>. QED  BY <1>9, <2>1 DEF Turns
<1>12. n \in 1..n \/ n = 0
  BY <1>2
<1>13. CASE n = 0
  BY <1>3, <1>10, <1>11, <1>13 DEF Acc
<1>14. CASE n \in 1..n
  <2>1. r[n] \in Acc
    BY <1>9, <1>14 DEF Turns
  <2>. QED  BY <1>10, <2>1 DEF Acc
<1>. QED  BY <1>12, <1>13, <1>14

------------------------------------------------------------------------------

\* The chunks of the documents, one after another.
AllChunks(docs, pinned) == FlattenSeq([i \in DOMAIN docs |-> ScoredChunks(docs[i], pinned)])

\* The chunks of all documents are chunks of files that are among them.
LEMMA AllChunksType ==
  ASSUME disk \in [Files -> Contents \cup {Gone}], NEW docs \in Seq(Document), NEW pinned,
         NEW E, E = {c \in ScoredChunk : \E i \in DOMAIN docs : docs[i].file = c.file}
  PROVE  AllChunks(docs, pinned) \in Seq(E)
<1>1. PICK n \in Nat : n = Len(docs) /\ DOMAIN docs = 1..n
  OBVIOUS
<1>2. PICK seqs : seqs = [i \in DOMAIN docs |-> ScoredChunks(docs[i], pinned)]
  OBVIOUS
<1>3. ASSUME NEW i \in 1..n PROVE seqs[i] \in Seq(E)
  <2>1. PICK s : s = ScoredChunks(docs[i], pinned)
    OBVIOUS
  <2>2. docs[i] \in Document
    BY <1>1
  <2>3. s \in Seq(ScoredChunk) /\ \A k \in DOMAIN s : s[k].file = docs[i].file
    BY <2>1, <2>2, ScoredChunksType
  <2>4. \A k \in 1..Len(s) : s[k] \in E
    BY <1>1, <2>3
  <2>5. s \in Seq(E)
    BY <2>3, <2>4
  <2>. QED  BY <1>1, <1>2, <2>1, <2>5
<1>4. seqs \in Seq(Seq(E))
  <2>1. seqs \in [1..n -> Seq(E)]
    BY <1>1, <1>2, <1>3
  <2>. QED  BY <1>1, <2>1
<1>5. FlattenSeq(seqs) \in Seq(E)
  BY <1>4, FlattenType
<1>. QED  BY <1>2, <1>5, Zenon DEF AllChunks

\* The newest documents first.
LEMMA ReverseFacts ==
  ASSUME NEW listed \in Catalogs
  PROVE  /\ Reverse(listed) \in Seq(Document)
         /\ \A i, j \in DOMAIN Reverse(listed) : Reverse(listed)[i].file = Reverse(listed)[j].file => i = j
<1>1. PICK n \in Nat : n = Len(listed) /\ DOMAIN listed = 1..n
  BY DEF Catalogs
<1>2. PICK back : back = Reverse(listed)
  OBVIOUS
<1>3. back = [i \in 1..n |-> listed[(n - i) + 1]]
  BY <1>1, <1>2, Zenon DEF Reverse
<1>4. listed \in Seq(Document) /\ \A i, j \in 1..n : listed[i].file = listed[j].file => i = j
  BY <1>1 DEF Catalogs
<1>5. ASSUME NEW i \in 1..n PROVE (n - i) + 1 \in 1..n /\ back[i] = listed[(n - i) + 1] /\ back[i] \in Document
  <2>1. PICK k \in 1..n : k = (n - i) + 1
    OBVIOUS
  <2>2. listed[k] \in Document
    BY <1>1, <1>4
  <2>3. back[i] = listed[k]
    BY <1>3, <2>1
  <2>. QED  BY <2>1, <2>2, <2>3
<1>6. back \in Seq(Document) /\ DOMAIN back = 1..n
  <2>1. back \in [1..n -> Document]
    BY <1>3, <1>5
  <2>. QED  BY <1>1, <2>1
<1>7. ASSUME NEW i \in 1..n, NEW j \in 1..n, back[i].file = back[j].file PROVE i = j
  <2>1. PICK k \in 1..n : k = (n - i) + 1 /\ back[i] = listed[k]
    BY <1>5
  <2>2. PICK l \in 1..n : l = (n - j) + 1 /\ back[j] = listed[l]
    BY <1>5
  <2>3. k = l
    BY <1>4, <1>7, <2>1, <2>2
  <2>. QED  BY <1>1, <2>1, <2>2, <2>3
<1>. QED  BY <1>2, <1>6, <1>7

\* What is said of a package, of the record of what it was made from.
Sound(p, b) == Deduplicated(b) /\ FilledUp(p, b) /\ RolledUp(p, b)

\* A package that is generated is sound.
LEMMA GeneratedIsSound ==
  ASSUME disk \in [Files -> Contents \cup {Gone}], catalog \in Catalogs,
         NEW budget \in Budgets, NEW pinned, GenerateContextPackage(budget, pinned)
  PROVE  package'.budget = budget /\ Sound(package', basis')
<1>1. PICK docs : docs = DedupExact(Reverse(catalog))
  OBVIOUS
<1>2. PICK all : all = AllChunks(docs, pinned)
  OBVIOUS
<1>3. PICK ranked : ranked = ByScore(all)
  OBVIOUS
<1>4. PICK kept : kept = DedupNearDuplicates(ranked)
  OBVIOUS
<1>5. PICK fit : fit = FitBudget(kept, budget)
  OBVIOUS
<1>6. PICK inc, used : inc = fit.included /\ used = fit.used
  OBVIOUS
<1>7. PICK sources : sources = BuildSources(docs, kept, inc)
  OBVIOUS
<1>8. /\ package' = [budget |-> budget, token_count |-> used, sources |-> sources]
      /\ basis' = [documents |-> docs, ranked |-> ranked, kept |-> kept, included |-> inc, disk |-> disk]
  BY <1>1, <1>2, <1>3, <1>4, <1>5, <1>6, <1>7, Zenon DEF GenerateContextPackage, AllChunks, ByScore
<1>9. PICK p, b : p = package' /\ b = basis'
  OBVIOUS
<1>10. /\ p.budget = budget /\ p.token_count = used /\ p.sources = sources
       /\ b.documents = docs /\ b.ranked = ranked /\ b.kept = kept /\ b.included = inc
  BY <1>8, <1>9
<1>11. /\ docs \in Seq(Document)
       /\ \A i, j \in DOMAIN docs : docs[i].hash = docs[j].hash => i = j
       /\ \A i, j \in DOMAIN docs : docs[i].file = docs[j].file => i = j
  <2>1. PICK back : back = Reverse(catalog)
    OBVIOUS
  <2>2. back \in Seq(Document) /\ \A i, j \in DOMAIN back : back[i].file = back[j].file => i = j
    BY <2>1, ReverseFacts
  <2>3. docs = DedupExact(back)
    BY <1>1, <2>1
  <2>. QED  BY <2>2, <2>3, DedupExactFacts
<1>12. PICK E : E = {c \in ScoredChunk : \E i \in DOMAIN docs : docs[i].file = c.file}
  OBVIOUS
<1>13. E \subseteq ScoredChunk /\ \A c \in E : \E i \in DOMAIN docs : docs[i].file = c.file
  BY <1>12
<1>14. all \in Seq(E)
  BY <1>2, <1>11, <1>12, AllChunksType
<1>15. PICK n \in Nat : n = Len(all) /\ DOMAIN all = 1..n
  BY <1>14
<1>16. \A i \in 1..n : all[i].score \in Int
  BY <1>13, <1>14, <1>15 DEF ScoredChunk
<1>17. ranked \in Seq(E) /\ DOMAIN ranked = 1..n /\ Descending(ranked, n)
  <2>1. \E out, pos : /\ out \in Seq(E) /\ Arranged(out, all, pos, n) /\ out = ByScore(all)
                     /\ Descending(out, n)
    BY <1>14, <1>15, <1>16, RankedByScore
  <2>2. PICK out, pos : /\ out \in Seq(E) /\ Arranged(out, all, pos, n) /\ out = ByScore(all)
                       /\ Descending(out, n)
    BY <2>1
  <2>3. DOMAIN out = 1..n /\ ranked = out
    BY <1>3, <2>2 DEF Arranged
  <2>. QED  BY <2>2, <2>3
<1>18. /\ kept \in Seq(E)
       /\ \A i \in DOMAIN ranked :
            \E k \in DOMAIN kept : kept[k].score >= ranked[i].score /\
              (kept[k] = ranked[i] \/ NearDuplicate(kept[k].text, ranked[i].text))
       /\ \A i, j \in DOMAIN kept : i < j =>
            kept[i].score >= kept[j].score /\ ~ NearDuplicate(kept[i].text, kept[j].text)
  <2>1. \A i, j \in DOMAIN ranked : i < j => ranked[i].score >= ranked[j].score
    BY <1>17 DEF Descending
  <2>. QED  BY <1>4, <1>13, <1>17, <2>1, DedupNearFacts
<1>19. Deduplicated(b)
  BY <1>10, <1>11, <1>18 DEF Deduplicated
<1>20. budget \in Nat
  BY ContextAssumption
<1>21. /\ TokensOf(kept, inc) = used /\ used <= budget
       /\ \A i \in DOMAIN kept \ inc : TokensOf(kept, {k \in inc : k < i}) + kept[i].tokens > budget
  BY <1>5, <1>6, <1>13, <1>18, <1>20, FitBudgetFacts
<1>22. FilledUp(p, b)
  BY <1>10, <1>21 DEF FilledUp
<1>23. RowsRollUp(sources, kept, inc)
  BY <1>7, <1>11, <1>13, <1>18, RollupFacts
<1>24. RolledUp(p, b)
  <2>1. RowsRollUp(p.sources, b.kept, b.included)
    BY <1>10, <1>23
  <2>. QED  BY <2>1, Zenon DEF RolledUp, RowsRollUp
<1>. QED  BY <1>9, <1>10, <1>19, <1>22, <1>24 DEF Sound

\* The type invariant, and what it has besides the type: a package is sound.
ContextInv ==
  /\ ContextTypeOK
  /\ package # NoPackage => Sound(package, basis)

\* It holds at the start, ...
LEMMA ContextInitially == ContextInit => ContextInv
<1> SUFFICES ASSUME ContextInit PROVE ContextInv
  OBVIOUS
<1>1. disk \in [Files -> Contents \cup {Gone}] /\ catalog = <<>> /\ package = NoPackage
  BY DEF ContextInit
<1>2. catalog \in Seq(Document) /\ \A i, j \in DOMAIN catalog : catalog[i].file = catalog[j].file => i = j
  BY <1>1
<1>. QED  BY <1>1, <1>2 DEF ContextInv, ContextTypeOK

\* ... every step keeps it, ...
LEMMA ContextStep == ContextInv /\ [ContextNext]_contextVars => ContextInv'
<1> SUFFICES ASSUME ContextInv, [ContextNext]_contextVars PROVE ContextInv'
  OBVIOUS
<1>1. /\ disk \in [Files -> Contents \cup {Gone}] /\ catalog \in Catalogs
      /\ package # NoPackage => package.budget \in Budgets /\ Sound(package, basis)
  BY DEF ContextInv, ContextTypeOK, Catalogs
<1>2. SUFFICES /\ disk' \in [Files -> Contents \cup {Gone}] /\ catalog' \in Catalogs
               /\ package' # NoPackage => package'.budget \in Budgets /\ Sound(package', basis')
  BY <1>2 DEF ContextInv, ContextTypeOK, Catalogs
<1>3. CASE IndexDirectory
  <2>1. catalog' = Indexed
    BY <1>3, Zenon DEF IndexDirectory, Indexed
  <2>2. Indexed \in Catalogs
    BY <1>1, IndexedType
  <2>3. disk' = disk /\ package' = package /\ basis' = basis
    BY <1>3 DEF IndexDirectory
  <2>. QED  BY <1>1, <2>1, <2>2, <2>3
<1>4. CASE TimePasses
  <2>1. catalog' = [i \in DOMAIN catalog |-> [catalog[i] EXCEPT !.age = 1]]
    BY <1>4 DEF TimePasses
  <2>2. PICK n \in Nat : n = Len(catalog) /\ DOMAIN catalog = 1..n
    BY <1>1 DEF Catalogs
  <2>3. ASSUME NEW i \in 1..n PROVE catalog'[i] \in Document /\ catalog'[i].file = catalog[i].file
    <3>1. catalog[i] \in Document /\ catalog'[i] = [catalog[i] EXCEPT !.age = 1]
      BY <1>1, <2>1, <2>2 DEF Catalogs
    <3>. QED  BY <3>1 DEF Document
  <2>4. catalog' \in Seq(Document) /\ DOMAIN catalog' = 1..n
    <3>1. catalog' \in [1..n -> Document]
      BY <2>1, <2>2, <2>3
    <3>. QED  BY <2>2, <3>1
  <2>5. catalog' \in Catalogs
    BY <1>1, <2>2, <2>3, <2>4 DEF Catalogs
  <2>6. disk' = disk /\ package' = package /\ basis' = basis
    BY <1>4 DEF TimePasses
  <2>. QED  BY <1>1, <2>5, <2>6
<1>5. CASE AssembleContent
  BY <1>1, <1>5 DEF AssembleContent
<1>6. CASE \E f \in Files : EditFile(f)
  BY <1>1, <1>6 DEF EditFile
<1>7. CASE \E budget \in Budgets : PostContextPackage(budget) \/ PackagePinned(budget)
  <2>1. PICK budget, pinned : budget \in Budgets /\ GenerateContextPackage(budget, pinned)
    BY <1>7 DEF PostContextPackage, PackagePinned
  <2>2. package'.budget = budget /\ Sound(package', basis')
    BY <1>1, <2>1, GeneratedIsSound
  <2>3. disk' = disk /\ catalog' = catalog
    BY <2>1 DEF GenerateContextPackage
  <2>. QED  BY <1>1, <2>1, <2>2, <2>3
<1>8. CASE UNCHANGED contextVars
  BY <1>1, <1>8 DEF contextVars
<1>. QED  BY <1>3, <1>4, <1>5, <1>6, <1>7, <1>8 DEF ContextNext

\* ... so it always holds.
LEMMA ContextInvariant == ContextSpec => []ContextInv
<1>. QED  BY ContextInitially, ContextStep, PTL DEF ContextSpec

\* The catalog is of the files, each at most once, and a package has one of
\* the budgets that are asked for.
THEOREM ContextTypeCorrect == ContextSpec => []ContextTypeOK
<1>1. ContextInv => ContextTypeOK
  BY DEF ContextInv
<1>. QED  BY <1>1, ContextInvariant, PTL

\* A package is what ranking, deduplication and budget promise, whatever is
\* in the files, whatever the chunker is configured with and whatever was
\* edited between indexing and generation.
THEOREM PackagesAreSound == ContextSpec => []PackageIsSound
<1>1. ContextInv => PackageIsSound
  <2> SUFFICES ASSUME ContextInv, package # NoPackage PROVE PackageIsSound
    BY DEF PackageIsSound
  <2>1. Deduplicated(basis) /\ FilledUp(package, basis) /\ RolledUp(package, basis)
    BY DEF ContextInv, Sound
  <2>2. ASSUME NEW f \in Files, disk[f] # Gone PROVE ChunksCover(disk[f])
    <3>1. disk[f] \in Seq(Words)
      BY <2>2, ContentIsText DEF ContextInv, ContextTypeOK
    <3>2. CASE disk[f] = <<>>
      BY <3>2 DEF ChunksCover
    <3>3. CASE disk[f] # <<>>
      BY <3>1, <3>3, ChunkFacts
    <3>. QED  BY <3>2, <3>3
  <2>. QED  BY <2>1, <2>2 DEF PackageIsSound
<1>. QED  BY <1>1, ContextInvariant, PTL

------------------------------------------------------------------------------
(***************************************************************************)
(* The services side by side                                               *)
(***************************************************************************)

\* A behaviour of all services is one of each: the others do not touch its
\* state.
THEOREM ServicesAreSeparate ==
  Spec => /\ GateSpec /\ PromptSpec /\ AccountsSpec /\ ResourcesSpec
          /\ ListingsSpec /\ ContextSpec /\ ProviderSpec /\ MetricsSpec
<1>1. Init => /\ GateInit /\ PromptInit /\ AccountsInit /\ ResourcesInit
              /\ ListingsInit /\ ContextInit /\ ProviderInit /\ MetricsInit
  BY DEF Init
<1>2. [Next]_vars => [GateNext]_gateVars
  BY DEF Next, vars
<1>3. [Next]_vars => [PromptNext]_promptVars
  BY DEF Next, vars
<1>4. [Next]_vars => [AccountsNext]_accountVars
  BY DEF Next, vars
<1>5. [Next]_vars => [ResourcesNext]_resourceVars
  BY DEF Next, vars
<1>6. [Next]_vars => [ListingsNext]_listingVars
  BY DEF Next, vars
<1>7. [Next]_vars => [ContextNext]_contextVars
  BY DEF Next, vars
<1>8. [Next]_vars => [ProviderNext]_providerVars
  BY DEF Next, vars
<1>9. [Next]_vars => [MetricsNext]_metricsVars
  BY DEF Next, vars
<1>. QED  BY <1>1, <1>2, <1>3, <1>4, <1>5, <1>6, <1>7, <1>8, <1>9, PTL
          DEF Spec, GateSpec, PromptSpec, AccountsSpec, ResourcesSpec, ListingsSpec, ContextSpec,
              ProviderSpec, MetricsSpec

\* Every variable keeps its type, whichever service moves.
THEOREM ServicesTypeCorrect == Spec => []ServicesTypeOK
<1>1. /\ GateTypeOK /\ PromptTypeOK /\ AccountsTypeOK /\ ResourcesTypeOK
      /\ ListingsTypeOK /\ ContextTypeOK /\ ProviderTypeOK /\ MetricsTypeOK
      /\ part \in {"gate", "prompts", "accounts", "resources", "listings", "context", "provider", "metrics"}
      => ServicesTypeOK
  BY DEF ServicesTypeOK
<1>2. Spec => [](part \in {"gate", "prompts", "accounts", "resources", "listings", "context", "provider",
                           "metrics"})
  <2> DEFINE Known == part \in {"gate", "prompts", "accounts", "resources", "listings", "context", "provider",
                                "metrics"}
  <2>1. Init => Known
    BY DEF Init
  <2>2. Known /\ [Next]_vars => Known'
    BY DEF Next, vars
  <2> HIDE DEF Known
  <2>3. Spec => []Known
    BY <2>1, <2>2, PTL DEF Spec
  <2>. QED  BY <2>3, PTL DEF Known
<1>. QED  BY <1>1, <1>2, ServicesAreSeparate, GateTypeCorrect, PromptTypeCorrect, AccountsTypeCorrect,
             ResourcesTypeCorrect, ListingsTypeCorrect, ContextTypeCorrect, ProviderTypeCorrect,
             MetricsTypeCorrect, PTL

==============================================================================
