---------------------------- MODULE AiProviders ----------------------------
(***************************************************************************)
(* What a call of a language model comes to, for each of the three         *)
(* providers: how its SDK's errors and its answers are classified, what    *)
(* the worker does with each class, and what a call costs.                 *)
(***************************************************************************)
EXTENDS Integers

Providers == {"openai", "anthropic", "deepseek"}

\* AiProviderErrorCode, each with its class.
ErrorCodes == {"rate_limit", "transient", "content_blocked", "auth", "invalid_request"}
Retryable(code) == code \in {"rate_limit", "transient"}

\* handleProviderError gives an error back to BullMQ when it is retryable, or
\* when it is of no AiProviderError class ("unknown").
Rethrown(code) == code = "unknown" \/ Retryable(code)

----------------------------------------------------------------------------
(* Errors *)

\* What an SDK throws: the status of a response (0: none), a connection that
\* failed, or something else; "policy": its text matches the mapper's pattern
\* for content policies.
SdkErrors ==
  {e \in [class : {"response", "connection", "other"}, status : {0} \cup 100..599,
          policy : BOOLEAN] : e.class # "response" => e.status = 0}

\* In both SDKs APIConnectionError and APIConnectionTimeoutError extend APIError.
IsApiError(e) == e.class \in {"response", "connection"}

FromStatus(s) ==
  CASE s \in {401, 403} -> "auth"
    [] s = 429 -> "rate_limit"
    [] s \in 500..599 -> "transient"
    [] OTHER -> "invalid_request"

FromError(e, blocked) ==
  IF IsApiError(e)
  THEN IF e.status = 400 /\ blocked THEN "content_blocked" ELSE FromStatus(e.status)
  ELSE IF e.class = "connection" THEN "transient" ELSE "invalid_request"

MapOpenAiError(e) == FromError(e, e.policy)
MapAnthropicError(e) == FromError(e, e.policy)
MapDeepSeekError(e) == FromError(e, FALSE)

----------------------------------------------------------------------------
(* Answers *)

\* What an SDK returns: a first choice (or content block) if any, whether it is
\* marked as filtered or refused, its text ("none": null, or no text block), the
\* usage block if any, and the tokens used.
SdkAnswers ==
  [choice : BOOLEAN, filtered : BOOLEAN, text : {"none", "blank", "words"},
   usage : BOOLEAN, input : Nat, output : Nat]

OpenAiAnswer(a) ==
  CASE ~a.choice \/ a.filtered -> "content_blocked"
    [] a.choice /\ ~a.filtered /\ (a.text # "words" \/ ~a.usage) -> "transient"
    [] OTHER -> "ok"

\* Reads the usage unchecked: without one it throws a TypeError.
AnthropicAnswer(a) ==
  CASE a.filtered \/ ~a.choice \/ a.text # "words" -> "content_blocked"
    [] ~a.filtered /\ a.choice /\ a.text = "words" /\ ~a.usage -> "unknown"
    [] OTHER -> "ok"

DeepSeekAnswer(a) ==
  CASE ~a.choice -> "transient"
    [] a.choice /\ (a.filtered \/ a.text # "words") -> "content_blocked"
    [] a.choice /\ ~a.filtered /\ a.text = "words" /\ ~a.usage -> "transient"
    [] OTHER -> "ok"

\* selectActiveProvider
MapError(provider, e) ==
  CASE provider = "openai" -> MapOpenAiError(e)
    [] provider = "anthropic" -> MapAnthropicError(e)
    [] provider = "deepseek" -> MapDeepSeekError(e)

MapAnswer(provider, a) ==
  CASE provider = "openai" -> OpenAiAnswer(a)
    [] provider = "anthropic" -> AnthropicAnswer(a)
    [] provider = "deepseek" -> DeepSeekAnswer(a)

----------------------------------------------------------------------------
(* Cost *)

Models(provider) ==
  CASE provider = "openai" -> {"gpt-4.1", "gpt-4.1-mini", "gpt-4.1-nano"}
    [] provider = "anthropic" -> {"claude-opus-4-7", "claude-sonnet-4-6", "claude-haiku-4-5"}
    [] provider = "deepseek" -> {"deepseek-v4-flash", "deepseek-v4-pro"}

\* AI_MAX_TOKENS
TokenLimits == 1..4096

\* Microcents per token.  The table has them per million tokens, each a whole
\* number of millions, so that the division of the code is exact.
Rate(in, out) == [input |-> in, output |-> out]
TokenRate(model) ==
  CASE model = "gpt-4.1" -> Rate(500, 1500)
    [] model = "gpt-4.1-mini" -> Rate(40, 160)
    [] model = "gpt-4.1-nano" -> Rate(10, 40)
    [] model = "claude-opus-4-7" -> Rate(500, 2500)
    [] model = "claude-sonnet-4-6" -> Rate(300, 1500)
    [] model = "claude-haiku-4-5" -> Rate(100, 500)
    [] model = "deepseek-v4-flash" -> Rate(14, 28)
    [] model = "deepseek-v4-pro" -> Rate(174, 348)

\* estimateCostMicrocents
CostMicrocents(model, input, output) ==
  input * TokenRate(model).input + output * TokenRate(model).output

\* ESTIMATED_INPUT_TOKENS_FOR_CEILING_CHECK
CeilingInput == 500
WorstCase(model, maxTokens) == CostMicrocents(model, CeilingInput, maxTokens)
=============================================================================
