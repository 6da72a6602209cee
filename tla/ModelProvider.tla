---------------------------- MODULE ModelProvider -----------------------------
(***************************************************************************)
(* One call of a model provider: generate, stream or embed of the Provider *)
(* SDK, with their retries, around the hooks of a plugin.  Claude's hooks  *)
(* are modelled from the example plugin; another plugin's may do anything  *)
(* the SDK lets them.                                                      *)
(*                                                                         *)
(* Texts, tokens, costs and the length of a backoff are left out.          *)
(***************************************************************************)
EXTENDS Naturals, Sequences

CONSTANTS
  MaxAttempts,      \* of the ProviderRetryPolicy
  MaxChunks         \* bound: chunks of one attempt, the last one excepted

ASSUME AttemptsArePositive == MaxAttempts \in Nat \ {0}
ASSUME ChunksAreBounded == MaxChunks \in Nat

VARIABLES
  request,      \* the operation and the plugin it is asked of
  at,           \* place in the code
  attempt,
  error,        \* the exception in flight
  block,        \* Claude's stream: the content block that is open
  sent,         \* chunks the plugin has made in this attempt
  given,        \* what the caller was given: chunks, or a response
  told          \* events published

providerVars == <<request, at, attempt, error, block, sent, given, told>>

Operations == {"generate", "stream", "embed"}
Plugins == {"claude", "other"}

Retryable == {"retryable", "rate_limit"}
Terminal == {"terminal", "authentication", "model_not_found", "content_filter"}
\* What is no ProviderError: a publisher's failure, arguments that are not JSON.
Foreign == {"publisher", "value_error"}

\* Exceptions of Anthropic's client, the most specific class first.
AnthropicErrors == {"RateLimitError", "AuthenticationError", "NotFoundError",
                    "APIConnectionError", "InternalServerError", "APIStatusError"}

MapAnthropicError(exc) ==
  CASE exc = "RateLimitError"      -> "rate_limit"
    [] exc = "AuthenticationError" -> "authentication"
    [] exc = "NotFoundError"       -> "model_not_found"
    [] exc \in {"APIConnectionError", "InternalServerError"} -> "retryable"
    [] OTHER -> "terminal"

IsRetryable(e) == e \in Retryable

\* Faulty variants, as in TaskStates.
ShouldRetryAlways(e, n) == IsRetryable(e)

ShouldRetry(e, n) == IsRetryable(e) /\ n < MaxAttempts

Chunk(type) == [attempt |-> attempt, n |-> sent + 1, type |-> type]

------------------------------------------------------------------------------

ProviderInit ==
  /\ request \in [op : Operations, plugin : Plugins]
  /\ at = "attempting"
  /\ attempt = 1
  /\ error = "none"
  /\ block = "none"
  /\ sent = 0
  /\ given = <<>>
  /\ told = <<>>

\* _publish, with whatever publisher the provider was given.  The event is
\* out, or its failure is raised at the same place.
Publishes(event, next, onFailure) ==
  \/ told' = Append(told, [type |-> event, attempt |-> attempt]) /\ at' = next /\ error' = error
  \/ told' = told /\ at' = onFailure /\ error' = "publisher"

Attempting ==
  /\ at = "attempting"
  /\ Publishes("attempting", IF request.op = "stream" THEN "streaming" ELSE "calling", "except")
  /\ block' = "none"
  /\ sent' = 0
  /\ UNCHANGED <<request, attempt, given>>

\* The except clause: retry, or tell and raise.
Except ==
  /\ at = "except"
  /\ IF ShouldRetry(error, attempt)
     THEN at' = "sleeping" /\ UNCHANGED <<told, error>>
     ELSE Publishes("failed", "raised", "raised")
  /\ UNCHANGED <<request, attempt, block, sent, given>>

RetryAfterSleep ==
  /\ at = "sleeping"
  /\ at' = "attempting"
  /\ attempt' = attempt + 1
  /\ error' = "none"
  /\ UNCHANGED <<request, block, sent, given, told>>

------------------------------------------------------------------------------
(***************************************************************************)
(* generate and embed                                                      *)
(***************************************************************************)

Raises(e, next) == at' = next /\ error' = e /\ UNCHANGED <<block, sent, given>>

\* Claude's generate_once: a response, or its client's exception, mapped.
ClaudeGenerates ==
  \/ at' = "answering" /\ UNCHANGED <<error, block, sent, given>>
  \/ \E exc \in AnthropicErrors : Raises(MapAnthropicError(exc), "except")

ClaudeEmbeds == Raises("terminal", "except")

OtherAnswers ==
  \/ at' = "answering" /\ UNCHANGED <<error, block, sent, given>>
  \/ \E e \in Retryable \cup Terminal \cup {"value_error"} : Raises(e, "except")

CallOnce ==
  /\ at = "calling"
  /\ IF request.plugin = "other" THEN OtherAnswers
     ELSE IF request.op = "generate" THEN ClaudeGenerates ELSE ClaudeEmbeds
  /\ UNCHANGED <<request, attempt, told>>

\* The response is returned once its success has been told: a publisher
\* that fails there takes the response with it.
Answering ==
  /\ at = "answering"
  /\ Publishes("succeeded", "returned", "except")
  /\ given' = IF at' = "returned" THEN <<Chunk("response")>> ELSE given
  /\ UNCHANGED <<request, attempt, block, sent>>

------------------------------------------------------------------------------
(***************************************************************************)
(* stream.  A chunk is yielded as soon as the plugin makes it.             *)
(***************************************************************************)

\* A faulty variant.
StreamRaisesToRetry(e) == Raises(e, "except")

\* Where an exception of the plugin leads: to the retry before the first
\* chunk, to the caller after it.
StreamRaises(e) == Raises(e, IF sent = 0 THEN "except" ELSE "raised")

Yields(type) ==
  /\ given' = Append(given, Chunk(type))
  /\ sent' = sent + 1
  /\ at' = IF type = "finish" THEN "finishing" ELSE "streaming"
  /\ UNCHANGED error

Streaming(plugin) == at = "streaming" /\ request.plugin = plugin /\ UNCHANGED <<request, attempt, told>>

BlockStart(kind) ==
  /\ Streaming("claude")
  /\ block = "none"
  /\ sent < MaxChunks
  /\ block' = kind
  /\ UNCHANGED <<at, error, sent, given>>

\* Text goes out as it comes, a tool's arguments are collected.
BlockDelta ==
  /\ Streaming("claude")
  /\ \/ block = "text" /\ sent < MaxChunks /\ Yields("text_delta") /\ UNCHANGED block
     \/ block \in {"tool", "broken"} /\ block' \in {"tool", "broken"}
        /\ UNCHANGED <<at, error, sent, given>>

\* The arguments collected so far are parsed when the block ends.
BlockStop ==
  /\ Streaming("claude")
  /\ \/ block = "text" /\ block' = "none" /\ UNCHANGED <<at, error, sent, given>>
     \/ block = "tool" /\ block' = "none" /\ Yields("tool_call_delta")
     \/ block = "broken" /\ StreamRaises("value_error")

StreamEnds == Streaming("claude") /\ block = "none" /\ Yields("finish") /\ UNCHANGED block

StreamBreaks ==
  /\ Streaming("claude")
  /\ \E exc \in AnthropicErrors : StreamRaises(MapAnthropicError(exc))

OtherStreams ==
  /\ Streaming("other")
  /\ \/ \E type \in {"text_delta", "tool_call_delta", "finish"} :
          sent < MaxChunks /\ Yields(type) /\ UNCHANGED block
     \/ \E e \in Retryable \cup Terminal : StreamRaises(e)
     \/ at' = "returned" /\ UNCHANGED <<error, block, sent, given>>

\* A FINISH chunk has been yielded; as the first one it ends the stream.
Finishing ==
  /\ at = "finishing"
  /\ Publishes("succeeded",
       IF request.plugin = "other" /\ sent > 1 THEN "streaming" ELSE "returned", "raised")
  /\ UNCHANGED <<request, attempt, block, sent, given>>

\* The caller closes the generator where it last yielded.
CallerLeaves ==
  /\ at \in {"streaming", "finishing"}
  /\ sent > 0
  /\ at' = "left"
  /\ UNCHANGED <<request, attempt, error, block, sent, given, told>>

ProviderNext ==
  \/ Attempting \/ Except \/ RetryAfterSleep \/ CallOnce \/ Answering
  \/ \E kind \in {"text", "tool"} : BlockStart(kind)
  \/ BlockDelta \/ BlockStop \/ StreamEnds \/ StreamBreaks
  \/ OtherStreams \/ Finishing \/ CallerLeaves

ProviderSpec == ProviderInit /\ [][ProviderNext]_providerVars

------------------------------------------------------------------------------
(***************************************************************************)
(* Properties                                                              *)
(***************************************************************************)

ProviderTypeOK ==
  /\ attempt \in 1..MaxAttempts
  /\ error \in {"none"} \cup Retryable \cup Terminal \cup Foreign
  /\ block \in {"none", "text", "tool", "broken"}
  /\ sent \in 0..(MaxChunks + 1)
  /\ \A i \in DOMAIN given : given[i].type \in {"text_delta", "tool_call_delta", "finish", "response"}

Tells(type) == \E i \in DOMAIN told : told[i].type = type

\* However attempts fail, what the caller is given comes from one attempt,
\* without a gap, a repetition or, from Claude, anything after FINISH.  An
\* error reaches a caller who has nothing yet only when it cannot be retried
\* or the attempts are used up, and is then the last one.  What is told
\* agrees: one attempting for each attempt begun, success only for an answer
\* that is complete, failure only to a caller who has nothing.
CallerGetsOneAnswer ==
  /\ \A i \in DOMAIN given :
       /\ given[i].n = i /\ given[i].attempt = attempt
       /\ request.plugin = "claude" /\ given[i].type = "finish" => i = Len(given)
  /\ at = "raised" /\ given = <<>> => ~ IsRetryable(error) \/ attempt = MaxAttempts
  /\ at = "returned" /\ request.plugin = "claude" =>
       /\ given # <<>>
       /\ given[Len(given)].type \in {"finish", "response"}
  /\ \A i, j \in DOMAIN told :
       told[i].type = "attempting" /\ told[j].type = "attempting" /\ told[i].attempt = told[j].attempt
         => i = j
  /\ Tells("succeeded") => given # <<>>
  /\ Tells("failed") => given = <<>> /\ at = "raised" /\ ~ Tells("succeeded")

==============================================================================
