------------------------- MODULE AiGenerationProofs -------------------------
(* Theorems about AiGeneration for every value of its constants. *)
EXTENDS AiGeneration, FiniteSetTheorems, TLAPS

----------------------------------------------------------------------------
(* What a call comes to *)

\* The price of a token is a number, and a call's cost with it.
LEMMA RateTypes ==
  ASSUME NEW provider \in Providers, NEW model \in Models(provider)
  PROVE  TokenRate(model).input \in Nat /\ TokenRate(model).output \in Nat
<1>1. model \in {"gpt-4.1", "gpt-4.1-mini", "gpt-4.1-nano", "claude-opus-4-7",
                "claude-sonnet-4-6", "claude-haiku-4-5", "deepseek-v4-flash",
                "deepseek-v4-pro"}
  BY DEF Providers, Models
<1> QED
  BY <1>1 DEF TokenRate, Rate

LEMMA CostTypes ==
  ASSUME NEW provider \in Providers, NEW model \in Models(provider),
         NEW input \in Nat, NEW output \in Nat
  PROVE  CostMicrocents(model, input, output) \in Nat
<1> DEFINE r == TokenRate(model)
<1>1. r.input \in Nat /\ r.output \in Nat
  BY RateTypes
<1>2. input * r.input \in Nat /\ output * r.output \in Nat
  BY <1>1
<1> QED
  BY <1>2 DEF CostMicrocents

\* A larger factor makes a larger product.
LEMMA ProductGrows ==
  ASSUME NEW a \in Nat, NEW b \in Nat, NEW k \in Nat, a <= b
  PROVE  a * k <= b * k
<1>1. b - a \in Nat /\ (b - a) * k \in Nat
  OBVIOUS
<1>2. b * k = a * k + (b - a) * k
  OBVIOUS
<1> QED
  BY <1>1, <1>2

\* The ceiling check's estimate (customer-state-changed.ts, step 5) is an upper
\* bound for every provider and model: a call of at most 500 input tokens that
\* keeps to AI_MAX_TOKENS costs no more.
THEOREM EstimateBoundsCost ==
  ASSUME NEW provider \in Providers, NEW model \in Models(provider), NEW limit \in TokenLimits,
         NEW a \in SdkAnswers, a.input <= CeilingInput, a.output <= limit
  PROVE  CostMicrocents(model, a.input, a.output) <= WorstCase(model, limit)
<1> DEFINE r == TokenRate(model)
<1>1. /\ r.input \in Nat /\ r.output \in Nat
      /\ a.input \in Nat /\ a.output \in Nat /\ limit \in Nat /\ CeilingInput \in Nat
  BY RateTypes DEF SdkAnswers, TokenLimits, CeilingInput
<1>2. a.input * r.input <= CeilingInput * r.input
  BY <1>1, ProductGrows
<1>3. a.output * r.output <= limit * r.output
  BY <1>1, ProductGrows
<1>4. /\ a.input * r.input \in Nat /\ CeilingInput * r.input \in Nat
      /\ a.output * r.output \in Nat /\ limit * r.output \in Nat
  BY <1>1
<1>5. a.input * r.input + a.output * r.output <= CeilingInput * r.input + limit * r.output
  BY <1>2, <1>3, <1>4
<1> QED
  BY <1>5 DEF CostMicrocents, WorstCase

\* Whatever the provider, an SDK error gets one of the five codes, and the job
\* is retried exactly for a response with status 429 or 5xx: each of the three
\* mappers tests the class APIError first, which the classes of a failed
\* connection extend, and what has no status is an invalid request there.
THEOREM RetriedErrors ==
  ASSUME NEW provider \in Providers, NEW e \in SdkErrors
  PROVE  /\ MapError(provider, e) \in ErrorCodes
         /\ Rethrown(MapError(provider, e)) <=>
              e.class = "response" /\ (e.status = 429 \/ e.status \in 500..599)
         /\ e.class = "connection" => MapError(provider, e) = "invalid_request"
<1>1. \E blocked \in BOOLEAN : MapError(provider, e) = FromError(e, blocked)
  BY DEF Providers, MapError, MapOpenAiError, MapAnthropicError, MapDeepSeekError, SdkErrors
<1>2. PICK blocked \in BOOLEAN : MapError(provider, e) = FromError(e, blocked)
  BY <1>1
<1>3. /\ e.class \in {"response", "connection", "other"} /\ e.status \in {0} \cup 100..599
      /\ e.class # "response" => e.status = 0
  BY DEF SdkErrors
<1>4. CASE e.class = "response"
  BY <1>2, <1>3, <1>4
     DEF FromError, IsApiError, FromStatus, Rethrown, Retryable, ErrorCodes
<1>5. CASE e.class = "connection"
  BY <1>2, <1>3, <1>5
     DEF FromError, IsApiError, FromStatus, Rethrown, Retryable, ErrorCodes
<1>6. CASE e.class = "other"
  BY <1>2, <1>3, <1>6
     DEF FromError, IsApiError, FromStatus, Rethrown, Retryable, ErrorCodes
<1> QED
  BY <1>3, <1>4, <1>5, <1>6

\* An answer is taken only with a text to send and the tokens to account for,
\* and what a provider's filter marked is never taken nor asked for again.
THEOREM AcceptedAnswers ==
  ASSUME NEW provider \in Providers, NEW a \in SdkAnswers
  PROVE  /\ MapAnswer(provider, a) = "ok" =>
              a.choice /\ ~a.filtered /\ a.text = "words" /\ a.usage
         /\ MapAnswer(provider, a) \in ErrorCodes \cup {"ok", "unknown"}
         /\ a.choice /\ a.filtered => MapAnswer(provider, a) = "content_blocked"
<1>1. /\ a.choice \in BOOLEAN /\ a.filtered \in BOOLEAN /\ a.usage \in BOOLEAN
      /\ a.text \in {"none", "blank", "words"}
  BY DEF SdkAnswers
<1>2. CASE provider = "openai"
  BY <1>1, <1>2 DEF MapAnswer, OpenAiAnswer, ErrorCodes
<1>3. CASE provider = "anthropic"
  BY <1>1, <1>3 DEF MapAnswer, AnthropicAnswer, ErrorCodes
<1>4. CASE provider = "deepseek"
  BY <1>1, <1>4 DEF MapAnswer, DeepSeekAnswer, ErrorCodes
<1> QED
  BY <1>2, <1>3, <1>4 DEF Providers

----------------------------------------------------------------------------
(* What the handler and worker helpers do *)

LEMMA CostsAreNumbers == Costs \subseteq Nat
<1> SUFFICES ASSUME NEW a \in Answers
             PROVE  CostMicrocents(Model, a.input, a.output) \in Nat
  BY DEF Costs
<1>1. a.input \in Nat /\ a.output \in Nat
  BY AiGenerationAssumption DEF SdkAnswers
<1> QED
  BY <1>1, CostTypes, AiGenerationAssumption

LEMMA ConstantTypes ==
  /\ AnyEvent \in Events /\ 0 \in Hours
  /\ 0 \in Months /\ \A h \in Hours : MonthOf(h) \in Months
  /\ MaxGens \in Nat /\ MaxMishaps \in Nat /\ MaxFlips \in Nat /\ MaxHour \in Nat
  /\ MaxTries \in Nat \ {0} /\ Costs \subseteq Nat
BY AiGenerationAssumption, CostsAreNumbers DEF AnyEvent, Hours, Months, MonthOf

LEMMA NoPass == NoHandler \in HandlerPass /\ NoWorker \in WorkerPass
BY ConstantTypes DEF NoHandler, HandlerPass, NoWorker, WorkerPass

\* A handler's next step.
LEMMA HandlerGoto ==
  ASSUME HandlerTypeOK, NEW p \in Processes,
         NEW step \in {"gates", "rate", "spend", "customer", "create", "enqueue", "done"},
         HGoto(p, step)
  PROVE  HandlerTypeOK'
BY DEF HGoto, HandlerTypeOK, HandlerPass

\* The end of a handler.
LEMMA HandlerEnds ==
  ASSUME HandlerTypeOK, NEW p \in Processes, HEnd(p)
  PROVE  HandlerTypeOK'
BY NoPass DEF HEnd, HandlerTypeOK

\* A worker's next step.
LEMMA WorkerGoto ==
  ASSUME WorkerTypeOK, NEW p \in Processes,
         NEW step \in {"pickup", "giveup", "call", "refused", "mint", "complete"},
         WGoto(p, step)
  PROVE  WorkerTypeOK'
BY DEF WGoto, WorkerTypeOK, WorkerPass

\* The end of a worker's pass.
LEMMA WorkerEnds ==
  ASSUME WorkerTypeOK, NEW p \in Processes, WEnd(p)
  PROVE  WorkerTypeOK'
BY NoPass DEF WEnd, WorkerTypeOK

\* A worker gives its job back: done, waiting for another try, or failed.
LEMMA JobGivenBack ==
  ASSUME TypeOK, NEW p \in Processes, JobReturns(p) \/ JobThrows(p)
  PROVE  JobTypeOK' /\ WorkerTypeOK'
<1>1. WorkerTypeOK'
  BY WorkerEnds DEF JobReturns, JobThrows, TypeOK
<1>2. CASE JobReturns(p)
  BY <1>1, <1>2 DEF JobReturns, TypeOK, JobTypeOK
<1>3. CASE JobThrows(p)
  <2>1. CASE try[GenOf(p)] >= MaxTries
    BY <1>1, <1>3, <2>1 DEF JobThrows, TypeOK, JobTypeOK
  <2>2. CASE ~(try[GenOf(p)] >= MaxTries)
    BY <1>1, <1>3, <2>2, ConstantTypes DEF JobThrows, TypeOK, JobTypeOK
  <2> QED
    BY <2>1, <2>2
<1> QED
  BY <1>2, <1>3

\* markFailed keeps the types of a generation.
LEMMA StatusFailed ==
  ASSUME GenTypeOK, NEW g, MarkFailed(g),
         UNCHANGED <<made, source, createdOn, ratedOn, intent, text>>
  PROVE  GenTypeOK'
BY DEF MarkFailed, GenTypeOK

\* So does the completion transaction, and it keeps those of the money.
LEMMA CompletionTypes ==
  ASSUME TypeOK, NEW g, NEW cost \in Costs,
         \/ MarkCompleted(g, cost)
         \/ UNCHANGED <<status, text, spent, paid, paidIn>>,
         UNCHANGED <<made, source, createdOn, ratedOn, intent>>
  PROVE  /\ GenTypeOK'
         /\ spent' \in [Months -> Nat] /\ paid' \in [Gens -> Nat] /\ paidIn' \in [Gens -> Months]
<1>1. CASE UNCHANGED <<status, text, spent, paid, paidIn>>
  BY <1>1 DEF TypeOK, GenTypeOK, MoneyTypeOK
<1>2. CASE status[g] = "pending" /\ WriteCompletion(g, cost)
  <2>1. MonthOf(hour) \in Months /\ cost \in Nat
    BY ConstantTypes DEF TypeOK, SettingTypeOK
  <2>2. GenTypeOK'
    BY <1>2 DEF WriteCompletion, TypeOK, GenTypeOK
  <2>3. spent' \in [Months -> Nat]
    BY <1>2, <2>1 DEF WriteCompletion, TypeOK, MoneyTypeOK
  <2>4. paid' \in [Gens -> Nat] /\ paidIn' \in [Gens -> Months]
    BY <1>2, <2>1 DEF WriteCompletion, TypeOK, MoneyTypeOK
  <2> QED
    BY <1>2, <2>1, <2>2, <2>3, <2>4 DEF WriteCompletion
<1> QED
  BY <1>1, <1>2 DEF MarkCompleted

\* How many handlers are past their read of a customer is a number.
LEMMA CountIsNat ==
  \A c \in Customers :
    Cardinality({p \in Processes : HAt(p, "create") /\ Customer[EventOf(p)] = c}) \in Nat
BY AiGenerationAssumption, FS_Subset, FS_CardinalityType

----------------------------------------------------------------------------
(* Types *)

\* Every step keeps the types.
LEMMA TypesStep == TypeOK /\ [Next]_vars => TypeOK'
<1> SUFFICES ASSUME TypeOK, [Next]_vars PROVE TypeOK'
  OBVIOUS
<1> USE ConstantTypes DEF TypeOK
<1>1. ASSUME NEW p \in Processes, NEW e \in Events, Deliver(p, e) PROVE TypeOK'
  <2>1. EventTypeOK'
    BY <1>1 DEF Deliver, EventTypeOK
  <2>2. HandlerTypeOK'
    <3>1. [NoHandler EXCEPT !.pc = "gates", !.event = e, !.holds = TRUE] \in HandlerPass
      BY NoPass DEF HandlerPass
    <3> QED
      BY <1>1, <3>1 DEF Deliver, HandlerTypeOK
  <2>3. SettingTypeOK' /\ GenTypeOK' /\ MoneyTypeOK' /\ JobTypeOK' /\ WorkerTypeOK'
    BY <1>1 DEF Deliver, SettingTypeOK, GenTypeOK, MoneyTypeOK, JobTypeOK, WorkerTypeOK,
        settingVars, genVars, moneyVars, jobVars
  <2>4. mishaps' \in 0..MaxMishaps /\ flips' \in 0..MaxFlips
    BY <1>1 DEF Deliver, boundVars
  <2> QED
    BY <2>1, <2>2, <2>3, <2>4
<1>2. ASSUME NEW p \in Processes, Gates(p) PROVE TypeOK'
  <2>1. HandlerTypeOK'
    <3>1. [handler[p] EXCEPT !.pc = "rate", !.wants = offering] \in HandlerPass
      BY DEF HandlerTypeOK, HandlerPass, SettingTypeOK
    <3>2. CASE HGoto(p, "done")
      BY <3>2, HandlerGoto
    <3>3. CASE handler' = [handler EXCEPT ![p] = [@ EXCEPT !.pc = "rate", !.wants = offering]]
      BY <3>1, <3>3 DEF HandlerTypeOK
    <3> QED
      BY <1>2, <3>2, <3>3 DEF Gates
  <2>2. SettingTypeOK' /\ EventTypeOK' /\ GenTypeOK' /\ MoneyTypeOK' /\ JobTypeOK'
        /\ WorkerTypeOK'
    BY <1>2 DEF Gates, SettingTypeOK, EventTypeOK, GenTypeOK, MoneyTypeOK, JobTypeOK,
        WorkerTypeOK, settingVars, eventVars, genVars, moneyVars, jobVars
  <2>3. mishaps' \in 0..MaxMishaps /\ flips' \in 0..MaxFlips
    BY <1>2 DEF Gates, boundVars
  <2> QED
    BY <2>1, <2>2, <2>3
<1>3. ASSUME NEW p \in Processes, RateLimit(p) PROVE TypeOK'
  <2>1. EventTypeOK'
    <3>1. hour \in Hours /\ calls[hour] + 1 \in Nat
      BY DEF SettingTypeOK, EventTypeOK
    <3> QED
      BY <1>3, <3>1 DEF RateLimit, EventTypeOK, eventVars
  <2>2. HandlerTypeOK'
    <3>1. handler[p] \in HandlerPass /\ hour \in Hours
      BY DEF HandlerTypeOK, SettingTypeOK
    <3>2. PICK after \in {"spend", "done"} :
            handler' = [handler EXCEPT ![p] = [@ EXCEPT !.pc = after, !.rated = hour]]
      BY <1>3 DEF RateLimit
    <3>3. [handler[p] EXCEPT !.pc = after, !.rated = hour] \in HandlerPass
      BY <3>1 DEF HandlerPass
    <3> QED
      BY <3>2, <3>3 DEF HandlerTypeOK
  <2>3. SettingTypeOK' /\ GenTypeOK' /\ MoneyTypeOK' /\ JobTypeOK' /\ WorkerTypeOK'
    <3>1. SettingTypeOK' /\ GenTypeOK'
      BY <1>3 DEF RateLimit, SettingTypeOK, GenTypeOK, settingVars, genVars
    <3>2. MoneyTypeOK' /\ JobTypeOK' /\ WorkerTypeOK'
      BY <1>3 DEF RateLimit, MoneyTypeOK, JobTypeOK, WorkerTypeOK, moneyVars, jobVars
    <3> QED
      BY <3>1, <3>2
  <2>4. mishaps' \in 0..MaxMishaps /\ flips' \in 0..MaxFlips
    BY <1>3 DEF RateLimit, boundVars
  <2> QED
    BY <2>1, <2>2, <2>3, <2>4
<1>4. ASSUME NEW p \in Processes, SpendCheck(p) PROVE TypeOK'
  <2>1. HandlerTypeOK'
    BY <1>4, HandlerGoto DEF SpendCheck, HandlerTypeOK
  <2>2. SettingTypeOK' /\ EventTypeOK' /\ GenTypeOK' /\ MoneyTypeOK' /\ JobTypeOK'
        /\ WorkerTypeOK'
    BY <1>4 DEF SpendCheck, SettingTypeOK, EventTypeOK, GenTypeOK, MoneyTypeOK, JobTypeOK,
        WorkerTypeOK, settingVars, eventVars, genVars, moneyVars, jobVars
  <2>3. mishaps' \in 0..MaxMishaps /\ flips' \in 0..MaxFlips
    BY <1>4 DEF SpendCheck, boundVars
  <2> QED
    BY <2>1, <2>2, <2>3
<1>5. ASSUME NEW p \in Processes, LoadCustomer(p) PROVE TypeOK'
  <2>1. HandlerTypeOK'
    BY <1>5, HandlerGoto DEF LoadCustomer, HandlerTypeOK
  <2>2. SettingTypeOK' /\ EventTypeOK' /\ GenTypeOK' /\ MoneyTypeOK' /\ JobTypeOK'
        /\ WorkerTypeOK'
    BY <1>5 DEF LoadCustomer, SettingTypeOK, EventTypeOK, GenTypeOK, MoneyTypeOK, JobTypeOK,
        WorkerTypeOK, settingVars, eventVars, genVars, moneyVars, jobVars
  <2>3. mishaps' \in 0..MaxMishaps /\ flips' \in 0..MaxFlips
    BY <1>5 DEF LoadCustomer, boundVars
  <2> QED
    BY <2>1, <2>2, <2>3
<1>6. ASSUME NEW p \in Processes, CreatePending(p) PROVE TypeOK'
  <2>1. GenTypeOK'
    BY <1>6 DEF CreatePending, Offered, GenTypeOK, HandlerTypeOK, HandlerPass, SettingTypeOK, EventOf, Gens
  <2>2. HandlerTypeOK'
    <3>1. made + 1 \in 0..MaxGens
      BY <1>6 DEF CreatePending, GenTypeOK
    <3>2. [handler[p] EXCEPT !.pc = "enqueue", !.created = made + 1] \in HandlerPass
      BY <3>1 DEF HandlerTypeOK, HandlerPass
    <3> QED
      BY <1>6, <3>2 DEF CreatePending, HandlerTypeOK
  <2>3. SettingTypeOK' /\ EventTypeOK' /\ MoneyTypeOK' /\ JobTypeOK' /\ WorkerTypeOK'
    BY <1>6 DEF CreatePending, SettingTypeOK, EventTypeOK, MoneyTypeOK, JobTypeOK,
        WorkerTypeOK, settingVars, eventVars, moneyVars, jobVars
  <2>4. mishaps' \in 0..MaxMishaps /\ flips' \in 0..MaxFlips
    BY <1>6 DEF CreatePending, boundVars
  <2> QED
    BY <2>1, <2>2, <2>3, <2>4
<1>7. ASSUME NEW p \in Processes, EnqueueJob(p) PROVE TypeOK'
  <2>1. JobTypeOK'
    BY <1>7 DEF EnqueueJob, JobTypeOK
  <2>2. HandlerTypeOK'
    BY <1>7, HandlerGoto DEF EnqueueJob, HandlerTypeOK
  <2>3. SettingTypeOK' /\ EventTypeOK' /\ GenTypeOK' /\ MoneyTypeOK' /\ WorkerTypeOK'
    BY <1>7 DEF EnqueueJob, SettingTypeOK, EventTypeOK, GenTypeOK, MoneyTypeOK, WorkerTypeOK,
        settingVars, eventVars, genVars, moneyVars
  <2>4. mishaps' \in 0..MaxMishaps /\ flips' \in 0..MaxFlips
    BY <1>7 DEF EnqueueJob, boundVars
  <2> QED
    BY <2>1, <2>2, <2>3, <2>4
<1>8. ASSUME NEW p \in Processes, Settle(p) PROVE TypeOK'
  <2>1. EventTypeOK'
    BY <1>8 DEF Settle, EventTypeOK, Returned
  <2>2. HandlerTypeOK'
    BY <1>8, HandlerEnds DEF Settle, HandlerTypeOK
  <2>3. SettingTypeOK' /\ GenTypeOK' /\ MoneyTypeOK' /\ JobTypeOK' /\ WorkerTypeOK'
    BY <1>8 DEF Settle, SettingTypeOK, GenTypeOK, MoneyTypeOK, JobTypeOK, WorkerTypeOK,
        settingVars, genVars, moneyVars, jobVars
  <2>4. mishaps' \in 0..MaxMishaps /\ flips' \in 0..MaxFlips
    BY <1>8 DEF Settle, boundVars
  <2> QED
    BY <2>1, <2>2, <2>3, <2>4
<1>9. ASSUME NEW p \in Processes, HandlerThrows(p) PROVE TypeOK'
  <2>1. EventTypeOK'
    BY <1>9 DEF HandlerThrows, EventTypeOK, Redeliver, eventVars
  <2>2. HandlerTypeOK'
    BY <1>9, HandlerEnds DEF HandlerThrows, HandlerTypeOK
  <2>3. SettingTypeOK' /\ GenTypeOK' /\ MoneyTypeOK' /\ JobTypeOK' /\ WorkerTypeOK'
    BY <1>9 DEF HandlerThrows, SettingTypeOK, GenTypeOK, MoneyTypeOK, JobTypeOK,
        WorkerTypeOK, settingVars, genVars, moneyVars, jobVars
  <2>4. mishaps' \in 0..MaxMishaps /\ flips' \in 0..MaxFlips
    BY <1>9 DEF HandlerThrows, boundVars
  <2> QED
    BY <2>1, <2>2, <2>3, <2>4
<1>10. ASSUME NEW p \in Processes, TickExpires(p) PROVE TypeOK'
  <2>1. EventTypeOK'
    <3>1. Redeliver(EventOf(p)) /\ UNCHANGED <<attempts, calls>>
      BY <1>10 DEF TickExpires
    <3>2. EventOf(p) \in Events
      BY DEF EventOf, HandlerTypeOK, HandlerPass
    <3> QED
      BY <3>1, <3>2 DEF EventTypeOK, Redeliver
  <2>2. HandlerTypeOK'
    BY <1>10 DEF TickExpires, HandlerTypeOK, HandlerPass
  <2>3. SettingTypeOK' /\ GenTypeOK' /\ MoneyTypeOK' /\ JobTypeOK' /\ WorkerTypeOK'
    BY <1>10 DEF TickExpires, SettingTypeOK, GenTypeOK, MoneyTypeOK, JobTypeOK, WorkerTypeOK,
        settingVars, genVars, moneyVars, jobVars
  <2>4. mishaps' \in 0..MaxMishaps /\ flips' \in 0..MaxFlips
    BY <1>10 DEF TickExpires, boundVars
  <2> QED
    BY <2>1, <2>2, <2>3, <2>4
<1>11. ASSUME NEW p \in Processes, NEW g \in Gens, TakeJob(p, g) PROVE TypeOK'
  <2>1. JobTypeOK'
    BY <1>11 DEF TakeJob, JobTypeOK
  <2>2. WorkerTypeOK'
    <3>1. g \in 0..MaxGens
      BY DEF Gens
    <3>2. [NoWorker EXCEPT !.pc = "pickup", !.gen = g, !.owns = TRUE] \in WorkerPass
      BY <3>1, NoPass DEF WorkerPass
    <3> QED
      BY <1>11, <3>2 DEF TakeJob, WorkerTypeOK
  <2>3. SettingTypeOK' /\ EventTypeOK' /\ GenTypeOK' /\ MoneyTypeOK' /\ HandlerTypeOK'
    BY <1>11 DEF TakeJob, SettingTypeOK, EventTypeOK, GenTypeOK, MoneyTypeOK, HandlerTypeOK,
        settingVars, eventVars, genVars, moneyVars
  <2>4. mishaps' \in 0..MaxMishaps /\ flips' \in 0..MaxFlips
    BY <1>11 DEF TakeJob, boundVars
  <2> QED
    BY <2>1, <2>2, <2>3, <2>4
<1>12. ASSUME NEW p \in Processes, PickupReplay(p) PROVE TypeOK'
  <2>1. JobTypeOK'
    BY <1>12, JobGivenBack DEF PickupReplay, JobTypeOK
  <2>2. WorkerTypeOK'
    BY <1>12, JobGivenBack DEF PickupReplay, WorkerTypeOK
  <2>3. SettingTypeOK' /\ EventTypeOK' /\ GenTypeOK' /\ MoneyTypeOK' /\ HandlerTypeOK'
    <3>1. SettingTypeOK' /\ EventTypeOK' /\ GenTypeOK'
      BY <1>12 DEF PickupReplay, SettingTypeOK, EventTypeOK, GenTypeOK, settingVars, eventVars,
          genVars
    <3>2. MoneyTypeOK' /\ HandlerTypeOK'
      BY <1>12 DEF PickupReplay, MoneyTypeOK, HandlerTypeOK, moneyVars
    <3> QED
      BY <3>1, <3>2
  <2>4. mishaps' \in 0..MaxMishaps /\ flips' \in 0..MaxFlips
    BY <1>12 DEF PickupReplay, boundVars
  <2> QED
    BY <2>1, <2>2, <2>3, <2>4
<1>13. ASSUME NEW p \in Processes, Pickup(p) PROVE TypeOK'
  <2>1. WorkerTypeOK'
    <3>1. worker[p] \in WorkerPass /\ WorkerTypeOK
      BY DEF WorkerTypeOK
    <3>2. PICK after \in {"giveup", "call"}, gone \in BOOLEAN :
            worker' = [worker EXCEPT ![p] = [@ EXCEPT !.pc = after, !.gone = gone]]
      BY <1>13 DEF Pickup
    <3>3. [worker[p] EXCEPT !.pc = after, !.gone = gone] \in WorkerPass
      BY <3>1 DEF WorkerPass
    <3> QED
      BY <3>1, <3>2, <3>3 DEF WorkerTypeOK
  <2>2. SettingTypeOK' /\ EventTypeOK' /\ GenTypeOK' /\ MoneyTypeOK' /\ JobTypeOK'
        /\ HandlerTypeOK'
    BY <1>13 DEF Pickup, SettingTypeOK, EventTypeOK, GenTypeOK, MoneyTypeOK, JobTypeOK,
        HandlerTypeOK, settingVars, eventVars, genVars, moneyVars, jobVars
  <2>3. mishaps' \in 0..MaxMishaps /\ flips' \in 0..MaxFlips
    BY <1>13 DEF Pickup, boundVars
  <2> QED
    BY <2>1, <2>2, <2>3
<1>14. ASSUME NEW p \in Processes, GiveUp(p) PROVE TypeOK'
  <2>1. GenTypeOK'
    BY <1>14, StatusFailed DEF GiveUp, GenTypeOK
  <2>2. JobTypeOK'
    BY <1>14, JobGivenBack DEF GiveUp, JobTypeOK
  <2>3. WorkerTypeOK'
    BY <1>14, JobGivenBack DEF GiveUp, WorkerTypeOK
  <2>4. SettingTypeOK' /\ EventTypeOK' /\ MoneyTypeOK' /\ HandlerTypeOK'
    BY <1>14 DEF GiveUp, SettingTypeOK, EventTypeOK, MoneyTypeOK, HandlerTypeOK, settingVars,
        eventVars, moneyVars
  <2>5. mishaps' \in 0..MaxMishaps /\ flips' \in 0..MaxFlips
    BY <1>14 DEF GiveUp, boundVars
  <2> QED
    BY <2>1, <2>2, <2>3, <2>4, <2>5
<1>15. ASSUME NEW p \in Processes, CallOk(p) PROVE TypeOK'
  <2>1. WorkerTypeOK'
    BY <1>15, WorkerGoto DEF CallOk, WorkerTypeOK
  <2>2. SettingTypeOK' /\ EventTypeOK' /\ GenTypeOK' /\ MoneyTypeOK' /\ JobTypeOK'
        /\ HandlerTypeOK'
    BY <1>15 DEF CallOk, SettingTypeOK, EventTypeOK, GenTypeOK, MoneyTypeOK, JobTypeOK,
        HandlerTypeOK, settingVars, eventVars, genVars, moneyVars, jobVars
  <2>3. mishaps' \in 0..MaxMishaps /\ flips' \in 0..MaxFlips
    BY <1>15 DEF CallOk, boundVars
  <2> QED
    BY <2>1, <2>2, <2>3
<1>16. ASSUME NEW p \in Processes, CallRefused(p) PROVE TypeOK'
  <2>1. WorkerTypeOK'
    BY <1>16, WorkerGoto DEF CallRefused, WorkerTypeOK
  <2>2. SettingTypeOK' /\ EventTypeOK' /\ GenTypeOK' /\ MoneyTypeOK' /\ JobTypeOK'
        /\ HandlerTypeOK'
    BY <1>16 DEF CallRefused, SettingTypeOK, EventTypeOK, GenTypeOK, MoneyTypeOK, JobTypeOK,
        HandlerTypeOK, settingVars, eventVars, genVars, moneyVars, jobVars
  <2>3. mishaps' \in 0..MaxMishaps /\ flips' \in 0..MaxFlips
    BY <1>16 DEF CallRefused, boundVars
  <2> QED
    BY <2>1, <2>2, <2>3
<1>17. ASSUME NEW p \in Processes, Mint(p) PROVE TypeOK'
  <2>1. MoneyTypeOK'
    BY <1>17 DEF Mint, MintCode, MoneyTypeOK
  <2>2. WorkerTypeOK'
    BY <1>17, WorkerGoto DEF Mint, WorkerTypeOK
  <2>3. SettingTypeOK' /\ EventTypeOK' /\ GenTypeOK' /\ JobTypeOK' /\ HandlerTypeOK'
    BY <1>17 DEF Mint, SettingTypeOK, EventTypeOK, GenTypeOK, JobTypeOK, HandlerTypeOK,
        settingVars, eventVars, genVars, jobVars
  <2>4. mishaps' \in 0..MaxMishaps /\ flips' \in 0..MaxFlips
    BY <1>17 DEF Mint, boundVars
  <2> QED
    BY <2>1, <2>2, <2>3, <2>4
<1>18. ASSUME NEW p \in Processes, NEW cost \in Costs, Complete(p, cost) PROVE TypeOK'
  <2>1. GenTypeOK'
    BY <1>18, CompletionTypes DEF Complete, GenTypeOK
  <2>2. MoneyTypeOK'
    BY <1>18, CompletionTypes DEF Complete, MoneyTypeOK
  <2>3. JobTypeOK'
    BY <1>18, JobGivenBack DEF Complete, JobTypeOK
  <2>4. WorkerTypeOK'
    BY <1>18, JobGivenBack DEF Complete, WorkerTypeOK
  <2>5. SettingTypeOK' /\ EventTypeOK' /\ HandlerTypeOK'
    BY <1>18 DEF Complete, SettingTypeOK, EventTypeOK, HandlerTypeOK, settingVars, eventVars
  <2>6. mishaps' \in 0..MaxMishaps /\ flips' \in 0..MaxFlips
    BY <1>18 DEF Complete, boundVars
  <2> QED
    BY <2>1, <2>2, <2>3, <2>4, <2>5, <2>6
<1>19. ASSUME NEW p \in Processes, WorkerThrows(p) PROVE TypeOK'
  <2>1. JobTypeOK'
    BY <1>19, JobGivenBack DEF WorkerThrows, JobTypeOK
  <2>2. WorkerTypeOK'
    BY <1>19, JobGivenBack DEF WorkerThrows, WorkerTypeOK
  <2>3. SettingTypeOK' /\ EventTypeOK' /\ GenTypeOK' /\ MoneyTypeOK' /\ HandlerTypeOK'
    BY <1>19 DEF WorkerThrows, SettingTypeOK, EventTypeOK, GenTypeOK, MoneyTypeOK,
        HandlerTypeOK, settingVars, eventVars, genVars, moneyVars
  <2>4. mishaps' \in 0..MaxMishaps /\ flips' \in 0..MaxFlips
    BY <1>19 DEF WorkerThrows, boundVars
  <2> QED
    BY <2>1, <2>2, <2>3, <2>4
<1>20. ASSUME NEW p \in Processes, NEW cost \in Costs, ThrowsTooLate(p, cost) PROVE TypeOK'
  <2>1. GenTypeOK'
    BY <1>20, CompletionTypes DEF ThrowsTooLate, GenTypeOK
  <2>2. MoneyTypeOK'
    BY <1>20, CompletionTypes DEF ThrowsTooLate, MintCode, MoneyTypeOK
  <2>3. JobTypeOK'
    BY <1>20, JobGivenBack DEF ThrowsTooLate, JobTypeOK
  <2>4. WorkerTypeOK'
    BY <1>20, JobGivenBack DEF ThrowsTooLate, WorkerTypeOK
  <2>5. SettingTypeOK' /\ EventTypeOK' /\ HandlerTypeOK'
    BY <1>20 DEF ThrowsTooLate, SettingTypeOK, EventTypeOK, HandlerTypeOK, settingVars,
        eventVars
  <2>6. mishaps' \in 0..MaxMishaps /\ flips' \in 0..MaxFlips
    BY <1>20 DEF ThrowsTooLate, boundVars
  <2> QED
    BY <2>1, <2>2, <2>3, <2>4, <2>5, <2>6
<1>21. ASSUME NEW p \in Processes, Crash(p) PROVE TypeOK'
  <2>1. EventTypeOK'
    BY <1>21 DEF Crash, EventTypeOK, Redeliver
  <2>2. JobTypeOK'
    BY <1>21 DEF Crash, JobTypeOK, Recovered
  <2>3. HandlerTypeOK'
    BY <1>21, HandlerEnds DEF Crash, HandlerTypeOK
  <2>4. WorkerTypeOK'
    BY <1>21, WorkerEnds DEF Crash, WorkerTypeOK
  <2>5. SettingTypeOK' /\ GenTypeOK' /\ MoneyTypeOK'
    BY <1>21 DEF Crash, SettingTypeOK, GenTypeOK, MoneyTypeOK, settingVars, genVars, moneyVars
  <2>6. mishaps' \in 0..MaxMishaps /\ flips' \in 0..MaxFlips
    BY <1>21 DEF Crash, boundVars
  <2> QED
    BY <2>1, <2>2, <2>3, <2>4, <2>5, <2>6
<1>22. ASSUME NEW p \in Processes, LockLost(p) PROVE TypeOK'
  <2>1. JobTypeOK'
    BY <1>22 DEF LockLost, JobTypeOK, Recovered
  <2>2. WorkerTypeOK'
    BY <1>22 DEF LockLost, WorkerTypeOK, WorkerPass
  <2>3. SettingTypeOK' /\ EventTypeOK' /\ GenTypeOK' /\ MoneyTypeOK' /\ HandlerTypeOK'
    BY <1>22 DEF LockLost, SettingTypeOK, EventTypeOK, GenTypeOK, MoneyTypeOK, HandlerTypeOK,
        settingVars, eventVars, genVars, moneyVars
  <2>4. mishaps' \in 0..MaxMishaps /\ flips' \in 0..MaxFlips
    BY <1>22 DEF LockLost, boundVars
  <2> QED
    BY <2>1, <2>2, <2>3, <2>4
<1>23. ASSUME NextHour PROVE TypeOK'
  <2>1. SettingTypeOK'
    BY <1>23 DEF NextHour, SettingTypeOK, Hours
  <2>2. EventTypeOK' /\ GenTypeOK' /\ MoneyTypeOK' /\ JobTypeOK' /\ HandlerTypeOK'
        /\ WorkerTypeOK'
    BY <1>23 DEF NextHour, EventTypeOK, GenTypeOK, MoneyTypeOK, JobTypeOK, HandlerTypeOK,
        WorkerTypeOK, eventVars, genVars, moneyVars, jobVars
  <2>3. mishaps' \in 0..MaxMishaps /\ flips' \in 0..MaxFlips
    BY <1>23 DEF NextHour, boundVars
  <2> QED
    BY <2>1, <2>2, <2>3
<1>24. ASSUME SettingFlip PROVE TypeOK'
  <2>1. SettingTypeOK'
    BY <1>24 DEF SettingFlip, SettingTypeOK
  <2>2. EventTypeOK' /\ GenTypeOK' /\ MoneyTypeOK' /\ JobTypeOK' /\ HandlerTypeOK'
        /\ WorkerTypeOK'
    BY <1>24 DEF SettingFlip, EventTypeOK, GenTypeOK, MoneyTypeOK, JobTypeOK, HandlerTypeOK,
        WorkerTypeOK, eventVars, genVars, moneyVars, jobVars
  <2>3. mishaps' \in 0..MaxMishaps /\ flips' \in 0..MaxFlips
    BY <1>24 DEF SettingFlip, boundVars
  <2> QED
    BY <2>1, <2>2, <2>3
<1>25. ASSUME NEW c \in Customers, CustomerDeleted(c) PROVE TypeOK'
  <2>1. SettingTypeOK'
    BY <1>25 DEF CustomerDeleted, SettingTypeOK
  <2>2. EventTypeOK' /\ GenTypeOK' /\ MoneyTypeOK' /\ JobTypeOK' /\ HandlerTypeOK'
        /\ WorkerTypeOK'
    BY <1>25 DEF CustomerDeleted, EventTypeOK, GenTypeOK, MoneyTypeOK, JobTypeOK,
        HandlerTypeOK, WorkerTypeOK, eventVars, genVars, moneyVars, jobVars
  <2>3. mishaps' \in 0..MaxMishaps /\ flips' \in 0..MaxFlips
    BY <1>25 DEF CustomerDeleted, boundVars
  <2> QED
    BY <2>1, <2>2, <2>3
<1>26. ASSUME NEW c \in Customers, CustomerRedact(c) PROVE TypeOK'
  <2>1. SettingTypeOK'
    BY <1>26, CountIsNat DEF CustomerRedact, SettingTypeOK
  <2>2. GenTypeOK'
    BY <1>26 DEF CustomerRedact, GenTypeOK, GensOf
  <2>3. EventTypeOK' /\ MoneyTypeOK' /\ JobTypeOK' /\ HandlerTypeOK' /\ WorkerTypeOK'
    BY <1>26 DEF CustomerRedact, EventTypeOK, MoneyTypeOK, JobTypeOK, HandlerTypeOK,
        WorkerTypeOK, eventVars, moneyVars, jobVars
  <2>4. mishaps' \in 0..MaxMishaps /\ flips' \in 0..MaxFlips
    BY <1>26 DEF CustomerRedact, boundVars
  <2> QED
    BY <2>1, <2>2, <2>3, <2>4
<1>27. CASE UNCHANGED vars
  BY <1>27 DEF vars, settingVars, eventVars, genVars, moneyVars, jobVars, boundVars, SettingTypeOK,
     EventTypeOK, GenTypeOK, MoneyTypeOK, JobTypeOK, HandlerTypeOK, WorkerTypeOK
<1> HIDE DEF TypeOK
<1> QED
  BY <1>1, <1>2, <1>3, <1>4, <1>5, <1>6, <1>7, <1>8, <1>9, <1>10, <1>11, <1>12, <1>13, <1>14,
     <1>15, <1>16, <1>17, <1>18, <1>19, <1>20, <1>21, <1>22, <1>23, <1>24, <1>25, <1>26, <1>27
  DEF Next, World, Handle, Generate, Fault

LEMMA TypesInit == Init => TypeOK
<1> SUFFICES ASSUME Init PROVE TypeOK
  OBVIOUS
<1> USE ConstantTypes
<1>1. SettingTypeOK /\ EventTypeOK
  BY DEF Init, SettingTypeOK, EventTypeOK
<1>2. GenTypeOK /\ JobTypeOK
  BY DEF Init, GenTypeOK, JobTypeOK, Gens
<1>3. MoneyTypeOK
  BY DEF Init, MoneyTypeOK
<1>4. HandlerTypeOK /\ WorkerTypeOK
  BY DEF Init, HandlerTypeOK, WorkerTypeOK, HandlerPass, WorkerPass, NoHandler, NoWorker
<1>5. mishaps \in 0..MaxMishaps /\ flips \in 0..MaxFlips
  BY DEF Init
<1> QED
  BY <1>1, <1>2, <1>3, <1>4, <1>5 DEF TypeOK

\* Type correctness: the first fact the other proofs lean on.
THEOREM GenerationTypes == Spec => []TypeOK
BY TypesInit, TypesStep, PTL DEF Spec

----------------------------------------------------------------------------
(* A completed generation is whole *)

\* Why it is: a code is minted only where one was promised, a worker that may
\* complete has minted it, and nobody holds a generation still to be created.
MintedPromised == \A g \in Gens : minted[g] => intent[g] /\ status[g] # "none"

JobsCreated == \A g \in Gens : job[g] # "none" => status[g] # "none"

HandlersCreated ==
  \A p \in Processes :
    HAt(p, "enqueue") => handler[p].created \in Gens /\ status[handler[p].created] # "none"

Working(p) == ~WAt(p, "idle") \/ worker[p].owns

WorkersCreated ==
  \A p \in Processes : Working(p) => GenOf(p) \in Gens /\ status[GenOf(p)] # "none"

MintersPromised == \A p \in Processes : WAt(p, "mint") => intent[GenOf(p)]

CompletersMinted ==
  \A p \in Processes : WAt(p, "complete") /\ intent[GenOf(p)] => minted[GenOf(p)]

WholeInv ==
  /\ TypeOK /\ CompletedIsWhole
  /\ MintedPromised /\ JobsCreated /\ HandlersCreated
  /\ WorkersCreated /\ MintersPromised /\ CompletersMinted

\* Which steps write a generation or its code.
LEMMA GenSteps ==
  ASSUME [Next]_vars
  PROVE  \/ UNCHANGED <<status, intent, text, minted>>
         \/ \E p \in Processes : CreatePending(p) \/ GiveUp(p) \/ Mint(p)
         \/ \E p \in Processes, cost \in Costs : Complete(p, cost) \/ ThrowsTooLate(p, cost)
         \/ \E c \in Customers : CustomerRedact(c)
<1>1. CASE World
  BY <1>1 DEF World, NextHour, SettingFlip, CustomerDeleted, genVars, moneyVars
<1>2. ASSUME NEW p \in Processes, Handle(p)
      PROVE  CreatePending(p) \/ UNCHANGED <<status, intent, text, minted>>
  BY <1>2 DEF Handle, Deliver, Gates, RateLimit, SpendCheck, LoadCustomer, EnqueueJob, Settle,
     genVars, moneyVars
<1>3. ASSUME NEW p \in Processes, Generate(p)
      PROVE  \/ GiveUp(p) \/ Mint(p) \/ \E cost \in Costs : Complete(p, cost)
             \/ UNCHANGED <<status, intent, text, minted>>
  BY <1>3 DEF Generate, TakeJob, PickupReplay, Pickup, CallOk, CallRefused, genVars, moneyVars
<1>4. ASSUME NEW p \in Processes, Fault(p)
      PROVE  \/ \E cost \in Costs : ThrowsTooLate(p, cost)
             \/ UNCHANGED <<status, intent, text, minted>>
  BY <1>4 DEF Fault, HandlerThrows, TickExpires, WorkerThrows, Crash, LockLost, genVars, moneyVars
<1>5. CASE UNCHANGED vars
  BY <1>5 DEF vars, genVars, moneyVars
<1> QED
  BY <1>1, <1>2, <1>3, <1>4, <1>5 DEF Next

\* A generation that was created stays so, with its promise and its code.
LEMMA CreatedStays ==
  ASSUME TypeOK, [Next]_vars, NEW g \in Gens, status[g] # "none"
  PROVE  status'[g] # "none" /\ intent'[g] = intent[g] /\ (minted[g] => minted'[g])
<1> USE DEF TypeOK, GenTypeOK, MoneyTypeOK
<1>1. CASE UNCHANGED <<status, intent, text, minted>>
  BY <1>1
<1>2. ASSUME NEW p \in Processes, CreatePending(p)
      PROVE  status'[g] # "none" /\ intent'[g] = intent[g] /\ (minted[g] => minted'[g])
  <2>1. g # made + 1
    BY DEF Gens
  <2> QED
    BY <1>2, <2>1 DEF CreatePending, moneyVars
<1>3. ASSUME NEW p \in Processes, GiveUp(p)
      PROVE  status'[g] # "none" /\ intent'[g] = intent[g] /\ (minted[g] => minted'[g])
  BY <1>3 DEF GiveUp, MarkFailed, moneyVars
<1>4. ASSUME NEW p \in Processes, Mint(p)
      PROVE  status'[g] # "none" /\ intent'[g] = intent[g] /\ (minted[g] => minted'[g])
  BY <1>4 DEF Mint, MintCode, genVars
<1>5. ASSUME NEW p \in Processes, NEW cost \in Costs,
             Complete(p, cost) \/ ThrowsTooLate(p, cost)
      PROVE  status'[g] # "none" /\ intent'[g] = intent[g] /\ (minted[g] => minted'[g])
  BY <1>5 DEF Complete, ThrowsTooLate, MintCode, MarkCompleted, WriteCompletion
<1>6. ASSUME NEW c \in Customers, CustomerRedact(c)
      PROVE  status'[g] # "none" /\ intent'[g] = intent[g] /\ (minted[g] => minted'[g])
  BY <1>6 DEF CustomerRedact, moneyVars
<1> HIDE DEF TypeOK, GenTypeOK, MoneyTypeOK
<1> QED
  BY <1>1, <1>2, <1>3, <1>4, <1>5, <1>6, GenSteps

\* Which steps touch the queue of jobs.
LEMMA JobSteps ==
  ASSUME [Next]_vars
  PROVE  \/ UNCHANGED job
         \/ \E p \in Processes : EnqueueJob(p)
         \/ \E p \in Processes, g \in Gens : TakeJob(p, g)
         \/ \E p \in Processes : Working(p) /\ \E x : job' = [job EXCEPT ![GenOf(p)] = x]
<1>1. CASE World
  BY <1>1 DEF World, NextHour, SettingFlip, CustomerDeleted, CustomerRedact, jobVars
<1>2. ASSUME NEW p \in Processes, Handle(p) PROVE EnqueueJob(p) \/ UNCHANGED job
  BY <1>2 DEF Handle, Deliver, Gates, RateLimit, SpendCheck, LoadCustomer, CreatePending, Settle,
     jobVars
<1>3. ASSUME NEW p \in Processes, JobReturns(p) \/ JobThrows(p) \/ Recovered(p)
      PROVE  \/ UNCHANGED job
             \/ Working(p) /\ \E x : job' = [job EXCEPT ![GenOf(p)] = x]
  BY <1>3 DEF JobReturns, JobThrows, Recovered, Working
<1>4. ASSUME NEW p \in Processes, Generate(p)
      PROVE  \/ \E g \in Gens : TakeJob(p, g)
             \/ JobReturns(p) \/ UNCHANGED job
  BY <1>4 DEF Generate, PickupReplay, Pickup, GiveUp, CallOk, CallRefused, Mint, Complete, jobVars
<1>5. ASSUME NEW p \in Processes, Fault(p)
      PROVE  JobThrows(p) \/ Recovered(p) \/ UNCHANGED job
  BY <1>5 DEF Fault, HandlerThrows, TickExpires, WorkerThrows, ThrowsTooLate, Crash, LockLost, jobVars
<1>6. CASE UNCHANGED vars
  BY <1>6 DEF vars, jobVars
<1> QED
  BY <1>1, <1>2, <1>3, <1>4, <1>5, <1>6 DEF Next

\* A handler reaches the enqueue by creating its generation.
LEMMA HandlerSteps ==
  ASSUME TypeOK, [Next]_vars, NEW q \in Processes, HAt(q, "enqueue")'
  PROVE  \/ HAt(q, "enqueue") /\ handler'[q] = handler[q]
         \/ HAt(q, "enqueue") /\ handler'[q].created = handler[q].created
         \/ CreatePending(q)
<1> USE DEF TypeOK, HandlerTypeOK, HandlerPass, HAt
<1>1. CASE World
  BY <1>1 DEF World, NextHour, SettingFlip, CustomerDeleted, CustomerRedact
<1>2. ASSUME NEW p \in Processes, Handle(p), p # q PROVE handler'[q] = handler[q]
  BY <1>2 DEF Handle, Deliver, Gates, RateLimit, SpendCheck, LoadCustomer, CreatePending,
     EnqueueJob, Settle, HGoto, HEnd
<1>3. ASSUME Handle(q) PROVE CreatePending(q)
  <2>1. ASSUME NEW e \in Events, Deliver(q, e) PROVE FALSE
    BY <2>1 DEF Deliver, NoHandler
  <2>2. CASE Gates(q)
    BY <2>2 DEF Gates, HGoto
  <2>3. CASE RateLimit(q)
    <3>1. handler'[q].pc \in {"spend", "done"}
      BY <2>3 DEF RateLimit
    <3> QED
      BY <3>1
  <2>4. CASE SpendCheck(q) \/ LoadCustomer(q)
    BY <2>4 DEF SpendCheck, LoadCustomer, HGoto
  <2>5. CASE EnqueueJob(q) \/ Settle(q)
    BY <2>5 DEF EnqueueJob, Settle, HGoto, HEnd, NoHandler
  <2> QED
    BY <1>3, <2>1, <2>2, <2>3, <2>4, <2>5 DEF Handle
<1>4. ASSUME NEW p \in Processes, Generate(p) PROVE handler' = handler
  BY <1>4 DEF Generate, TakeJob, PickupReplay, Pickup, GiveUp, CallOk, CallRefused, Mint, Complete
<1>5. ASSUME NEW p \in Processes, Fault(p)
      PROVE  HAt(q, "enqueue") /\ handler'[q].created = handler[q].created
  BY <1>5 DEF Fault, HandlerThrows, TickExpires, WorkerThrows, ThrowsTooLate, Crash, LockLost,
     HEnd, NoHandler
<1>6. CASE UNCHANGED vars
  BY <1>6 DEF vars
<1> QED
  BY <1>1, <1>2, <1>3, <1>4, <1>5, <1>6 DEF Next

\* A worker gets its generation with a job, and reaches the mint from the call
\* and the completion from either.
LEMMA WorkerSteps ==
  ASSUME TypeOK, [Next]_vars, NEW q \in Processes
  PROVE  \/ /\ Working(q)' => Working(q) /\ GenOf(q)' = GenOf(q)
            /\ WAt(q, "mint")' => WAt(q, "mint")
            /\ WAt(q, "complete")' => WAt(q, "complete")
         \/ \E g \in Gens : TakeJob(q, g)
         \/ CallOk(q) \/ Mint(q)
<1> DEFINE Kept == /\ Working(q)' => Working(q) /\ GenOf(q)' = GenOf(q)
                   /\ WAt(q, "mint")' => WAt(q, "mint")
                   /\ WAt(q, "complete")' => WAt(q, "complete")
<1> USE DEF TypeOK, WorkerTypeOK, WorkerPass, WAt, GenOf, Working
<1>1. ASSUME worker'[q] = worker[q] PROVE Kept
  BY <1>1
<1>2. ASSUME worker'[q] = NoWorker PROVE Kept
  BY <1>2 DEF NoWorker
<1>3. CASE World
  BY <1>1, <1>3 DEF World, NextHour, SettingFlip, CustomerDeleted, CustomerRedact
<1>4. ASSUME NEW p \in Processes, Handle(p) PROVE worker'[q] = worker[q]
  BY <1>4 DEF Handle, Deliver, Gates, RateLimit, SpendCheck, LoadCustomer, CreatePending,
     EnqueueJob, Settle
<1>5. ASSUME NEW p \in Processes, Generate(p), p # q PROVE worker'[q] = worker[q]
  BY <1>5 DEF Generate, TakeJob, PickupReplay, Pickup, GiveUp, CallOk, CallRefused, Mint,
     Complete, JobReturns, WGoto, WEnd
<1>6. ASSUME Generate(q)
      PROVE  \/ Kept \/ \E g \in Gens : TakeJob(q, g)
             \/ CallOk(q) \/ Mint(q)
  <2>1. ASSUME JobReturns(q) PROVE Kept
    BY <2>1, <1>2 DEF JobReturns, WEnd
  <2>2. CASE PickupReplay(q) \/ GiveUp(q) \/ \E cost \in Costs : Complete(q, cost)
    BY <2>1, <2>2 DEF PickupReplay, GiveUp, Complete
  <2>3. CASE Pickup(q)
    <3>1. worker'[q].pc \in {"giveup", "call"} /\ worker'[q].gen = worker[q].gen
      BY <2>3 DEF Pickup
    <3> QED
      BY <2>3, <3>1 DEF Pickup
  <2>4. CASE CallRefused(q)
    BY <2>4 DEF CallRefused, WGoto
  <2> QED
    BY <1>6, <2>2, <2>3, <2>4 DEF Generate
<1>7. ASSUME NEW p \in Processes, Fault(p) PROVE Kept
  <2>1. CASE HandlerThrows(p) \/ TickExpires(p)
    BY <1>1, <2>1 DEF HandlerThrows, TickExpires
  <2>2. CASE WEnd(p)
    BY <1>1, <1>2, <2>2 DEF WEnd
  <2>3. CASE LockLost(p)
    BY <2>3 DEF LockLost
  <2> QED
    BY <1>7, <2>1, <2>2, <2>3 DEF Fault, WorkerThrows, ThrowsTooLate, Crash, JobThrows
<1>8. CASE UNCHANGED vars
  BY <1>1, <1>8 DEF vars
<1> HIDE DEF TypeOK, WorkerTypeOK, WorkerPass, WAt, GenOf, Working
<1> QED
  BY <1>1, <1>3, <1>4, <1>5, <1>6, <1>7, <1>8 DEF Next

\* Where the worker goes after the call and the mint.
LEMMA CallEffect ==
  ASSUME TypeOK, NEW p \in Processes, CallOk(p) \/ Mint(p)
  PROVE  /\ GenOf(p)' = GenOf(p) /\ Working(p)
         /\ WAt(p, "mint")' => CallOk(p) /\ intent[GenOf(p)]
         /\ WAt(p, "complete")' => Mint(p) \/ ~intent[GenOf(p)]
<1> USE DEF TypeOK, WorkerTypeOK, WorkerPass, WAt, GenOf, Working, WGoto
<1>1. CASE CallOk(p)
  BY <1>1 DEF CallOk, Minting
<1>2. CASE Mint(p)
  BY <1>2 DEF Mint
<1> QED
  BY <1>1, <1>2

\* Nobody ever holds a generation that is still to be created.
LEMMA CreatedStep ==
  ASSUME WholeInv, [Next]_vars
  PROVE  JobsCreated' /\ HandlersCreated' /\ WorkersCreated'
<1> USE DEF WholeInv
<1>0. \A g \in Gens : status[g] # "none" => status'[g] # "none"
  BY CreatedStays
<1>1. JobsCreated'
  <2>1. CASE UNCHANGED job
    BY <1>0, <2>1 DEF JobsCreated
  <2>2. ASSUME NEW p \in Processes, EnqueueJob(p) PROVE JobsCreated'
    BY <1>0, <2>2 DEF JobsCreated, EnqueueJob, HandlersCreated, TypeOK, JobTypeOK
  <2>3. ASSUME NEW p \in Processes, NEW g \in Gens, TakeJob(p, g) PROVE JobsCreated'
    BY <1>0, <2>3 DEF JobsCreated, TakeJob, TypeOK, JobTypeOK
  <2>4. ASSUME NEW p \in Processes, Working(p), NEW x, job' = [job EXCEPT ![GenOf(p)] = x]
        PROVE  JobsCreated'
    BY <1>0, <2>4 DEF JobsCreated, WorkersCreated, TypeOK, JobTypeOK
  <2> QED
    BY <2>1, <2>2, <2>3, <2>4, JobSteps
<1>2. HandlersCreated'
  <2>1. ASSUME NEW q \in Processes, HAt(q, "enqueue")'
        PROVE  handler'[q].created \in Gens /\ status'[handler'[q].created] # "none"
    <3>1. CASE CreatePending(q)
      <4>1. handler'[q].created = made + 1
        BY <3>1 DEF CreatePending, TypeOK, HandlerTypeOK, HandlerPass
      <4>2. made + 1 \in Gens /\ status'[made + 1] = "pending"
        BY <3>1, ConstantTypes DEF CreatePending, TypeOK, GenTypeOK, Gens
      <4> QED
        BY <4>1, <4>2
    <3>2. CASE HAt(q, "enqueue") /\ handler'[q].created = handler[q].created
      BY <1>0, <3>2 DEF HandlersCreated
    <3> QED
      BY <2>1, <3>1, <3>2, HandlerSteps
  <2> QED
    BY <2>1 DEF HandlersCreated
<1>3. WorkersCreated'
  <2>1. ASSUME NEW q \in Processes, Working(q)'
        PROVE  GenOf(q)' \in Gens /\ status'[GenOf(q)'] # "none"
    <3>1. CASE Working(q) /\ GenOf(q)' = GenOf(q)
      BY <1>0, <3>1 DEF WorkersCreated
    <3>2. ASSUME NEW g \in Gens, TakeJob(q, g) PROVE GenOf(q)' = g /\ status[g] # "none"
      BY <3>2 DEF TakeJob, JobsCreated, GenOf, NoWorker, TypeOK, WorkerTypeOK
    <3>3. CASE CallOk(q) \/ Mint(q)
      BY <3>1, <3>3, CallEffect
    <3> QED
      BY <1>0, <2>1, <3>1, <3>2, <3>3, WorkerSteps
  <2> QED
    BY <2>1 DEF WorkersCreated
<1> QED
  BY <1>1, <1>2, <1>3

\* A worker mints what was promised, and completes what it minted.
LEMMA PromiseStep ==
  ASSUME WholeInv, [Next]_vars
  PROVE  MintersPromised' /\ CompletersMinted'
<1> SUFFICES ASSUME NEW q \in Processes
             PROVE  /\ WAt(q, "mint")' => intent'[GenOf(q)']
                    /\ WAt(q, "complete")' /\ intent'[GenOf(q)'] => minted'[GenOf(q)']
  BY DEF MintersPromised, CompletersMinted
<1> USE DEF WholeInv
<1>1. ASSUME Working(q) PROVE GenOf(q) \in Gens /\ intent'[GenOf(q)] = intent[GenOf(q)]
                              /\ (minted[GenOf(q)] => minted'[GenOf(q)])
  BY <1>1, CreatedStays DEF WorkersCreated
<1>2. ASSUME WAt(q, "mint")' \/ WAt(q, "complete")' PROVE Working(q)'
  BY <1>2 DEF WAt, Working
<1>3. CASE /\ Working(q)' => Working(q) /\ GenOf(q)' = GenOf(q)
           /\ WAt(q, "mint")' => WAt(q, "mint")
           /\ WAt(q, "complete")' => WAt(q, "complete")
  BY <1>1, <1>2, <1>3 DEF MintersPromised, CompletersMinted
<1>4. ASSUME NEW g \in Gens, TakeJob(q, g) PROVE ~WAt(q, "mint")' /\ ~WAt(q, "complete")'
  BY <1>4 DEF TakeJob, WAt, NoWorker, TypeOK, WorkerTypeOK
<1>5. CASE CallOk(q) \/ Mint(q)
  <2>1. ASSUME Mint(q) PROVE minted'[GenOf(q)]
    BY <1>1, <1>5, <2>1, CallEffect DEF Mint, MintCode, TypeOK, MoneyTypeOK
  <2> QED
    BY <1>1, <1>5, <2>1, CallEffect
<1> QED
  BY <1>3, <1>4, <1>5, WorkerSteps

\* Codes exist where they were promised.
LEMMA MintedStep ==
  ASSUME WholeInv, [Next]_vars
  PROVE  MintedPromised'
<1> USE DEF WholeInv
<1>1. ASSUME NEW g \in Gens, minted'[g], ~minted[g] PROVE intent[g] /\ status[g] # "none"
  <2>1. ASSUME NEW p \in Processes, WAt(p, "mint"), minted' = [minted EXCEPT ![GenOf(p)] = TRUE]
        PROVE  intent[g] /\ status[g] # "none"
    <3>1. g = GenOf(p)
      BY <1>1, <2>1 DEF TypeOK, MoneyTypeOK
    <3> QED
      BY <2>1, <3>1 DEF MintersPromised, WorkersCreated, Working, WAt
  <2>2. \/ UNCHANGED minted
        \/ \E p \in Processes : WAt(p, "mint") /\ minted' = [minted EXCEPT ![GenOf(p)] = TRUE]
    BY GenSteps DEF CreatePending, GiveUp, Mint, Complete, ThrowsTooLate, MintCode, CustomerRedact, moneyVars
  <2> QED
    BY <1>1, <2>1, <2>2
<1>2. ASSUME NEW g \in Gens, minted'[g] PROVE intent'[g] /\ status'[g] # "none"
  <2>1. intent[g] /\ status[g] # "none"
    BY <1>1, <1>2 DEF MintedPromised
  <2> QED
    BY <2>1, CreatedStays
<1> QED
  BY <1>2 DEF MintedPromised

\* The completion transaction makes a generation whole or leaves it alone.
LEMMA CompletionStep ==
  ASSUME WholeInv, NEW p \in Processes, WAt(p, "complete"), NEW cost,
         MarkCompleted(GenOf(p), cost), UNCHANGED <<intent, minted>>
  PROVE  CompletedIsWhole'
<1> USE DEF WholeInv
<1>1. GenOf(p) \in Gens
  BY DEF WorkersCreated, Working, WAt
<1>2. minted[GenOf(p)] <=> intent[GenOf(p)]
  BY <1>1 DEF CompletersMinted, MintedPromised, TypeOK, MoneyTypeOK, GenTypeOK
<1>3. CASE status[GenOf(p)] = "pending" /\ WriteCompletion(GenOf(p), cost)
  BY <1>1, <1>2, <1>3 DEF WriteCompletion, CompletedIsWhole, TypeOK, GenTypeOK
<1>4. CASE UNCHANGED <<status, text, spent, paid, paidIn>>
  BY <1>4 DEF CompletedIsWhole
<1> QED
  BY <1>3, <1>4 DEF MarkCompleted

\* Steps that complete nothing leave every generation as whole as it was.
LEMMA WholeStep ==
  ASSUME WholeInv, [Next]_vars
  PROVE  CompletedIsWhole'
<1> USE DEF WholeInv
<1>1. CASE UNCHANGED <<status, intent, text, minted>>
  BY <1>1 DEF CompletedIsWhole
<1>2. ASSUME NEW p \in Processes, CreatePending(p) PROVE CompletedIsWhole'
  <2>1. made + 1 \in Gens => status[made + 1] = "none" /\ ~text[made + 1]
    BY DEF CompletedIsWhole, TypeOK, GenTypeOK
  <2> QED
    BY <1>2, <2>1 DEF CreatePending, CompletedIsWhole, TypeOK, GenTypeOK, moneyVars
<1>3. ASSUME NEW p \in Processes, GiveUp(p) PROVE CompletedIsWhole'
  BY <1>3 DEF GiveUp, MarkFailed, CompletedIsWhole, TypeOK, GenTypeOK, moneyVars
<1>4. ASSUME NEW p \in Processes, WAt(p, "mint"), minted' = [minted EXCEPT ![GenOf(p)] = TRUE],
             UNCHANGED <<status, text, intent>>
      PROVE  CompletedIsWhole'
  BY <1>4 DEF MintersPromised, CompletedIsWhole, TypeOK, GenTypeOK, MoneyTypeOK
<1>5. ASSUME NEW p \in Processes, Mint(p) PROVE CompletedIsWhole'
  BY <1>4, <1>5 DEF Mint, MintCode, genVars
<1>6. ASSUME NEW p \in Processes, NEW cost \in Costs, Complete(p, cost) PROVE CompletedIsWhole'
  BY <1>6, CompletionStep DEF Complete
<1>7. ASSUME NEW p \in Processes, NEW cost \in Costs, ThrowsTooLate(p, cost)
      PROVE  CompletedIsWhole'
  BY <1>4, <1>7, CompletionStep DEF ThrowsTooLate, MintCode
<1>8. ASSUME NEW c \in Customers, CustomerRedact(c) PROVE CompletedIsWhole'
  BY <1>8 DEF CustomerRedact, CompletedIsWhole, TypeOK, GenTypeOK, moneyVars
<1> QED
  BY <1>1, <1>2, <1>3, <1>5, <1>6, <1>7, <1>8, GenSteps

LEMMA WholeInit == Init => WholeInv
<1>1. Init => TypeOK
  BY TypesInit
<1>2. Init => CompletedIsWhole /\ MintedPromised /\ JobsCreated
  BY DEF Init, CompletedIsWhole, MintedPromised, JobsCreated
<1>3. Init => HandlersCreated /\ WorkersCreated /\ MintersPromised /\ CompletersMinted
  BY DEF Init, HandlersCreated, WorkersCreated, MintersPromised, CompletersMinted, Working,
     HAt, WAt, NoHandler, NoWorker
<1> QED
  BY <1>1, <1>2, <1>3 DEF WholeInv

LEMMA WholeInvStep == WholeInv /\ [Next]_vars => WholeInv'
<1> SUFFICES ASSUME WholeInv, [Next]_vars PROVE WholeInv'
  OBVIOUS
<1>1. TypeOK'
  BY TypesStep DEF WholeInv
<1> QED
  BY <1>1, WholeStep, MintedStep, CreatedStep, PromiseStep DEF WholeInv

\* A draft has its text exactly when its generation is completed, and a code
\* exactly when its prompt promised one: whatever workers share a job, lose its
\* lock, retry or die, whatever the merchant changes and whoever is erased.
THEOREM GenerationsWhole == Spec => []CompletedIsWhole
<1>1. WholeInv => CompletedIsWhole
  BY DEF WholeInv
<1> QED
  BY <1>1, WholeInit, WholeInvStep, PTL DEF Spec

----------------------------------------------------------------------------
(***************************************************************************)
(* The counting properties.  They have one argument: a generation is       *)
(* preceded by a handler on its way to it, so the generations of an hour,  *)
(* an event or a customer and the handlers on their way to one are bounded *)
(* together.                                                               *)
(***************************************************************************)

(* Cardinalities *)

\* A part counts no more than the whole.
LEMMA PartCounts ==
  ASSUME NEW S, IsFiniteSet(S), NEW T \in SUBSET S
  PROVE  /\ IsFiniteSet(T) /\ Cardinality(S) \in Nat /\ Cardinality(T) \in Nat
         /\ Cardinality(T) <= Cardinality(S)
BY FS_Subset, FS_CardinalityType

\* One more member counts one more at most.
LEMMA OneMore ==
  ASSUME NEW S, IsFiniteSet(S), NEW x, NEW T \in SUBSET (S \cup {x})
  PROVE  /\ Cardinality(S) \in Nat /\ Cardinality(T) \in Nat
         /\ Cardinality(T) <= Cardinality(S) + 1
<1>1. Cardinality(S) \in Nat
  BY FS_CardinalityType
<1>2. /\ IsFiniteSet(S \cup {x})
      /\ Cardinality(S \cup {x}) = IF x \in S THEN Cardinality(S) ELSE Cardinality(S) + 1
  BY FS_AddElement
<1> QED
  BY <1>1, <1>2, PartCounts

\* One member less counts one less at least.
LEMMA OneLess ==
  ASSUME NEW S, IsFiniteSet(S), NEW x \in S, NEW T \in SUBSET (S \ {x})
  PROVE  /\ Cardinality(S) \in Nat /\ Cardinality(T) \in Nat
         /\ Cardinality(T) + 1 <= Cardinality(S)
<1>1. /\ IsFiniteSet(S \ {x}) /\ Cardinality(S) \in Nat
      /\ Cardinality(S \ {x}) = Cardinality(S) - 1
  BY FS_RemoveElement, FS_CardinalityType
<1> QED
  BY <1>1, PartCounts

\* Sets of generations and of processes are finite.
LEMMA Countable ==
  /\ \A T \in SUBSET Gens : IsFiniteSet(T) /\ Cardinality(T) \in Nat
  /\ \A T \in SUBSET Processes : IsFiniteSet(T) /\ Cardinality(T) \in Nat
<1>1. IsFiniteSet(Gens) /\ IsFiniteSet(Processes)
  BY AiGenerationAssumption, FS_Interval DEF Gens
<1> QED
  BY <1>1, PartCounts

\* Rows and handlers on their way, together: nothing added.
LEMMA NothingAdded ==
  ASSUME NEW G \in SUBSET Gens, NEW P \in SUBSET Processes,
         NEW H \in SUBSET G, NEW Q \in SUBSET P
  PROVE  /\ Cardinality(G) + Cardinality(P) \in Nat /\ Cardinality(H) + Cardinality(Q) \in Nat
         /\ Cardinality(H) + Cardinality(Q) <= Cardinality(G) + Cardinality(P)
<1>1. /\ Cardinality(G) \in Nat /\ Cardinality(H) \in Nat /\ Cardinality(H) <= Cardinality(G)
  BY Countable, PartCounts
<1>2. /\ Cardinality(P) \in Nat /\ Cardinality(Q) \in Nat /\ Cardinality(Q) <= Cardinality(P)
  BY Countable, PartCounts
<1> QED
  BY <1>1, <1>2

\* One handler sets out.
LEMMA OneSetsOut ==
  ASSUME NEW G \in SUBSET Gens, NEW P \in SUBSET Processes, NEW p \in Processes,
         NEW H \in SUBSET G, NEW Q \in SUBSET (P \cup {p})
  PROVE  /\ Cardinality(G) + Cardinality(P) \in Nat /\ Cardinality(H) + Cardinality(Q) \in Nat
         /\ Cardinality(H) + Cardinality(Q) <= Cardinality(G) + Cardinality(P) + 1
<1>1. /\ Cardinality(G) \in Nat /\ Cardinality(H) \in Nat /\ Cardinality(H) <= Cardinality(G)
  BY Countable, PartCounts
<1>2. /\ Cardinality(P) \in Nat /\ Cardinality(Q) \in Nat
      /\ Cardinality(Q) <= Cardinality(P) + 1
  BY Countable, OneMore
<1> QED
  BY <1>1, <1>2

\* One handler arrives: its row takes its place.
LEMMA OneArrives ==
  ASSUME NEW G \in SUBSET Gens, NEW P \in SUBSET Processes, NEW g \in Gens, NEW p \in P,
         NEW H \in SUBSET (G \cup {g}), NEW Q \in SUBSET (P \ {p})
  PROVE  /\ Cardinality(G) + Cardinality(P) \in Nat /\ Cardinality(H) + Cardinality(Q) \in Nat
         /\ Cardinality(H) + Cardinality(Q) <= Cardinality(G) + Cardinality(P)
<1>1. /\ Cardinality(G) \in Nat /\ Cardinality(H) \in Nat
      /\ Cardinality(H) <= Cardinality(G) + 1
  BY Countable, OneMore
<1>2. /\ Cardinality(P) \in Nat /\ Cardinality(Q) \in Nat
      /\ Cardinality(Q) + 1 <= Cardinality(P)
  BY Countable, OneLess
<1> QED
  BY <1>1, <1>2

----------------------------------------------------------------------------
(* What a step does to rows, handlers and deliveries *)

\* The part of a handler that the counts are about.
SamePlace(old, new) == new.pc = old.pc /\ new.event = old.event /\ new.rated = old.rated
OnTo(old, new, from, to) ==
  old.pc = from /\ new.pc = to /\ new.event = old.event /\ new.rated = old.rated

\* Where a handler goes.
LEMMA HandlerMoves ==
  ASSUME TypeOK, [Next]_vars, NEW q \in Processes
  PROVE  \/ SamePlace(handler[q], handler'[q])
         \/ handler'[q].pc \in {"idle", "enqueue", "done"}
         \/ OnTo(handler[q], handler'[q], "gates", "rate")
         \/ OnTo(handler[q], handler'[q], "spend", "customer")
         \/ LoadCustomer(q) /\ OnTo(handler[q], handler'[q], "customer", "create")
         \/ RateLimit(q)
         \/ \E e \in Events : Deliver(q, e)
<1> USE DEF TypeOK, HandlerTypeOK, HandlerPass, HAt, SamePlace, OnTo
<1>1. CASE World
  BY <1>1 DEF World, NextHour, SettingFlip, CustomerDeleted, CustomerRedact
<1>2. ASSUME NEW p \in Processes, Handle(p), p # q PROVE handler'[q] = handler[q]
  BY <1>2 DEF Handle, Deliver, Gates, RateLimit, SpendCheck, LoadCustomer, CreatePending,
     EnqueueJob, Settle, HGoto, HEnd
<1>3. CASE Handle(q)
  <2>1. CASE Gates(q)
    BY <2>1 DEF Gates, HGoto
  <2>2. CASE SpendCheck(q)
    BY <2>2 DEF SpendCheck, HGoto
  <2>3. CASE LoadCustomer(q)
    BY <2>3 DEF LoadCustomer, HGoto
  <2>4. CASE CreatePending(q)
    BY <2>4 DEF CreatePending
  <2>5. CASE EnqueueJob(q) \/ Settle(q)
    BY <2>5 DEF EnqueueJob, Settle, HGoto, HEnd, NoHandler
  <2> QED
    BY <1>3, <2>1, <2>2, <2>3, <2>4, <2>5 DEF Handle
<1>4. ASSUME NEW p \in Processes, Generate(p) PROVE handler' = handler
  BY <1>4 DEF Generate, TakeJob, PickupReplay, Pickup, GiveUp, CallOk, CallRefused, Mint, Complete
<1>5. ASSUME NEW p \in Processes, Fault(p)
      PROVE  SamePlace(handler[q], handler'[q]) \/ handler'[q].pc = "idle"
  BY <1>5 DEF Fault, HandlerThrows, TickExpires, WorkerThrows, ThrowsTooLate, Crash, LockLost,
     HEnd, NoHandler
<1>6. CASE UNCHANGED vars
  BY <1>6 DEF vars
<1> QED
  BY <1>1, <1>2, <1>3, <1>4, <1>5, <1>6 DEF Next

\* Rows come only from CreatePending, which is about one generation; otherwise
\* none comes, or comes back, and its key stays.
NoRowAdded ==
  /\ source' = source /\ ratedOn' = ratedOn
  /\ \A g \in Gens : /\ status'[g] # "none" => status[g] # "none"
                     /\ status'[g] = "erased" \/ status'[g] \in {status[g], "completed", "failed"}
                     /\ status'[g] \in {"completed", "failed"} /\ status'[g] # status[g]
                          => status[g] = "pending"
LEMMA RowsComeByCreating ==
  ASSUME TypeOK, [Next]_vars
  PROVE  NoRowAdded \/ \E p \in Processes : CreatePending(p)
<1> USE DEF TypeOK, GenTypeOK
<1>1. CASE World
  <2>1. CASE NextHour \/ SettingFlip \/ \E c \in Customers : CustomerDeleted(c)
    BY <2>1 DEF NextHour, SettingFlip, CustomerDeleted, genVars, NoRowAdded
  <2>2. ASSUME NEW c \in Customers, CustomerRedact(c) PROVE NoRowAdded
    BY <2>2 DEF CustomerRedact, GensOf, NoRowAdded
  <2> QED
    BY <1>1, <2>1, <2>2 DEF World
<1>2. ASSUME NEW p \in Processes, Handle(p) PROVE NoRowAdded \/ CreatePending(p)
  BY <1>2 DEF Handle, Deliver, Gates, RateLimit, SpendCheck, LoadCustomer, EnqueueJob, Settle,
     genVars, NoRowAdded
<1>3. ASSUME NEW p \in Processes, NEW cost \in Costs,
             Complete(p, cost) \/ ThrowsTooLate(p, cost)
      PROVE  NoRowAdded
  BY <1>3 DEF Complete, ThrowsTooLate, MarkCompleted, WriteCompletion, NoRowAdded
<1>4. ASSUME NEW p \in Processes, GiveUp(p) PROVE NoRowAdded
  BY <1>4 DEF GiveUp, MarkFailed, NoRowAdded
<1>5. ASSUME NEW p \in Processes, Generate(p) PROVE NoRowAdded
  BY <1>3, <1>4, <1>5
     DEF Generate, TakeJob, PickupReplay, Pickup, CallOk, CallRefused, Mint, genVars, NoRowAdded
<1>6. ASSUME NEW p \in Processes, Fault(p) PROVE NoRowAdded
  BY <1>3, <1>6
     DEF Fault, HandlerThrows, TickExpires, WorkerThrows, Crash, LockLost, genVars, NoRowAdded
<1>7. CASE UNCHANGED vars
  BY <1>7 DEF vars, genVars, NoRowAdded
<1> QED
  BY <1>1, <1>2, <1>5, <1>6, <1>7 DEF Next

\* A step changes the counter of an hour only by counting a call in it.
LEMMA CallsGrow ==
  ASSUME TypeOK, [Next]_vars
  PROVE  calls' = calls \/ \E p \in Processes : RateLimit(p)
<1>1. CASE World
  BY <1>1 DEF World, NextHour, SettingFlip, CustomerDeleted, CustomerRedact
<1>2. ASSUME NEW p \in Processes, Handle(p) PROVE RateLimit(p) \/ calls' = calls
  BY <1>2 DEF Handle, Deliver, Gates, SpendCheck, LoadCustomer, CreatePending, EnqueueJob, Settle
<1>3. ASSUME NEW p \in Processes, Generate(p) PROVE calls' = calls
  BY <1>3 DEF Generate, TakeJob, PickupReplay, Pickup, GiveUp, CallOk, CallRefused, Mint, Complete
<1>4. ASSUME NEW p \in Processes, Fault(p) PROVE calls' = calls
  BY <1>4 DEF Fault, HandlerThrows, TickExpires, WorkerThrows, ThrowsTooLate, Crash, LockLost
<1>5. CASE UNCHANGED vars
  BY <1>5 DEF vars
<1> QED
  BY <1>1, <1>2, <1>3, <1>4, <1>5 DEF Next

\* An event's delivery: it stays, goes back and is counted, ends, or starts.
GoesBack(e) == delivery'[e] = "waiting" /\ redelivered'[e] = redelivered[e] + 1
Ends(e) == delivery'[e] \in {"settled", "dead"} /\ redelivered'[e] = redelivered[e]
LEMMA DeliveryMoves ==
  ASSUME TypeOK, [Next]_vars, NEW e \in Events
  PROVE  \/ delivery'[e] = delivery[e] /\ redelivered'[e] = redelivered[e]
         \/ GoesBack(e) \/ Ends(e)
         \/ \E p \in Processes : Deliver(p, e)
<1> DEFINE Stays == delivery'[e] = delivery[e] /\ redelivered'[e] = redelivered[e]
<1> USE DEF TypeOK, EventTypeOK
<1>1. CASE World
  BY <1>1 DEF World, NextHour, SettingFlip, CustomerDeleted, CustomerRedact, eventVars
<1>2. ASSUME NEW p \in Processes, Redeliver(EventOf(p)) PROVE Stays \/ GoesBack(e)
  BY <1>2 DEF Redeliver, GoesBack
<1>3. ASSUME NEW p \in Processes, Handle(p) PROVE Stays \/ Ends(e) \/ Deliver(p, e)
  <2>1. ASSUME NEW d \in Events, Deliver(p, d) PROVE Stays \/ Deliver(p, e)
    BY <2>1 DEF Deliver
  <2>2. CASE Settle(p)
    BY <2>2 DEF Settle, Returned, Ends
  <2> QED
    BY <1>3, <2>1, <2>2
       DEF Handle, Gates, RateLimit, SpendCheck, LoadCustomer, CreatePending, EnqueueJob, eventVars
<1>4. ASSUME NEW p \in Processes, Generate(p) PROVE Stays
  BY <1>4 DEF Generate, TakeJob, PickupReplay, Pickup, GiveUp, CallOk, CallRefused, Mint, Complete,
     eventVars
<1>5. ASSUME NEW p \in Processes, Fault(p) PROVE Stays \/ GoesBack(e) \/ Ends(e)
  <2>1. CASE HandlerThrows(p)
    BY <1>2, <2>1 DEF HandlerThrows, Ends, eventVars
  <2>2. CASE TickExpires(p) \/ Crash(p)
    BY <1>2, <2>2 DEF TickExpires, Crash
  <2> QED
    BY <1>5, <2>1, <2>2 DEF Fault, WorkerThrows, ThrowsTooLate, LockLost, eventVars
<1>6. CASE UNCHANGED vars
  BY <1>6 DEF vars, eventVars
<1> QED
  BY <1>1, <1>3, <1>4, <1>5, <1>6 DEF Next

\* A handler of one process moves alone.
LEMMA HandlersMoveAlone ==
  ASSUME TypeOK, NEW p \in Processes,
         \/ RateLimit(p) \/ CreatePending(p) \/ \E e \in Events : Deliver(p, e)
  PROVE  \A q \in Processes : q # p => handler'[q] = handler[q]
BY DEF RateLimit, CreatePending, Deliver, TypeOK, HandlerTypeOK

----------------------------------------------------------------------------
(* The hourly cap *)

\* Generations of the hour's counter, and handlers it let through.
RatedGens(st, key, h) == {g \in Gens : st[g] # "none" /\ key[g] = h}
RatedHandlers(hd, h) ==
  {p \in Processes : hd[p].pc \in {"spend", "customer", "create"} /\ hd[p].rated = h}
RatedCount(st, key, hd, h) ==
  Cardinality(RatedGens(st, key, h)) + Cardinality(RatedHandlers(hd, h))

\* Each of them was one of the calls counted, up to the cap.
HourInv ==
  \A h \in Hours : /\ RatedCount(status, ratedOn, handler, h) <= calls[h]
                   /\ RatedCount(status, ratedOn, handler, h) <= HourlyCap

LEMMA HourStep ==
  ASSUME TypeOK, HourInv, [Next]_vars
  PROVE  HourInv'
<1> SUFFICES ASSUME NEW h \in Hours
             PROVE  /\ RatedCount(status', ratedOn', handler', h) <= calls'[h]
                    /\ RatedCount(status', ratedOn', handler', h) <= HourlyCap
  BY DEF HourInv
<1> DEFINE G == RatedGens(status, ratedOn, h)   H == RatedGens(status', ratedOn', h)
           P == RatedHandlers(handler, h)       Q == RatedHandlers(handler', h)
<1>0. /\ G \in SUBSET Gens /\ H \in SUBSET Gens
      /\ P \in SUBSET Processes /\ Q \in SUBSET Processes
  BY DEF RatedGens, RatedHandlers
<1>t. /\ calls[h] \in Nat /\ HourlyCap \in Nat
      /\ Cardinality(G) + Cardinality(P) <= calls[h]
      /\ Cardinality(G) + Cardinality(P) <= HourlyCap
  BY AiGenerationAssumption DEF TypeOK, EventTypeOK, HourInv, RatedCount
<1>g. NoRowAdded => H \in SUBSET G
  BY DEF NoRowAdded, RatedGens
<1>1. CASE NoRowAdded /\ calls' = calls /\ Q \in SUBSET P
  <2>1. Cardinality(H) + Cardinality(Q) <= Cardinality(G) + Cardinality(P)
    BY <1>0, <1>1, <1>g, NothingAdded
  <2> QED
    BY <1>0, <1>1, <1>g, <1>t, <2>1, NothingAdded DEF RatedCount
<1>2. ASSUME NEW p \in Processes, RateLimit(p)
      PROVE  /\ RatedCount(status', ratedOn', handler', h) <= calls'[h]
             /\ RatedCount(status', ratedOn', handler', h) <= HourlyCap
  <2>1. /\ \A q \in Processes : q # p => handler'[q] = handler[q]
        /\ handler'[p].rated = hour
        /\ handler'[p].pc = IF Allowed(calls[hour] + 1) THEN "spend" ELSE "done"
        /\ handler[p].pc = "rate"
    BY <1>2, HandlersMoveAlone DEF RateLimit, HAt, TypeOK, HandlerTypeOK, HandlerPass
  <2>2. H = G
    BY <1>2 DEF RateLimit, genVars, RatedGens
  <2>3. hour \in Hours /\ calls[hour] \in Nat /\ calls' = [calls EXCEPT ![hour] = @ + 1]
    BY <1>2 DEF RateLimit, TypeOK, SettingTypeOK, EventTypeOK
  <2>4. CASE hour = h /\ Allowed(calls[hour] + 1)
    <3>1. Q \in SUBSET (P \cup {p})
      BY <2>1 DEF RatedHandlers
    <3>2. Cardinality(H) + Cardinality(Q) <= Cardinality(G) + Cardinality(P) + 1
      BY <1>0, <2>2, <3>1, OneSetsOut
    <3>3. calls'[h] = calls[h] + 1 /\ calls[h] + 1 <= HourlyCap
      BY <2>3, <2>4 DEF Allowed, TypeOK, EventTypeOK
    <3>4. Cardinality(G) + Cardinality(P) \in Nat /\ Cardinality(H) + Cardinality(Q) \in Nat
      BY <1>0, <2>2, <3>1, OneSetsOut
    <3> QED
      BY <1>t, <3>2, <3>3, <3>4 DEF RatedCount
  <2>5. CASE ~(hour = h /\ Allowed(calls[hour] + 1))
    <3>1. Q \in SUBSET P
      BY <2>1, <2>5 DEF RatedHandlers
    <3>2. /\ Cardinality(H) + Cardinality(Q) <= Cardinality(G) + Cardinality(P)
          /\ Cardinality(G) + Cardinality(P) \in Nat /\ Cardinality(H) + Cardinality(Q) \in Nat
      BY <1>0, <2>2, <3>1, NothingAdded
    <3>3. calls'[h] \in Nat /\ calls[h] <= calls'[h]
      BY <1>t, <2>3 DEF TypeOK, EventTypeOK
    <3> QED
      BY <1>t, <3>2, <3>3 DEF RatedCount
  <2> QED
    BY <2>4, <2>5
<1>3. ASSUME NEW p \in Processes, CreatePending(p)
      PROVE  /\ RatedCount(status', ratedOn', handler', h) <= calls'[h]
             /\ RatedCount(status', ratedOn', handler', h) <= HourlyCap
  <2>1. /\ \A q \in Processes : q # p => handler'[q] = handler[q]
        /\ handler'[p].pc = "enqueue" /\ handler[p].pc = "create"
    BY <1>3, HandlersMoveAlone DEF CreatePending, HAt, TypeOK, HandlerTypeOK, HandlerPass
  <2>2. /\ made + 1 \in Gens /\ calls' = calls
        /\ \A g \in Gens : g # made + 1 => status'[g] = status[g] /\ ratedOn'[g] = ratedOn[g]
        /\ ratedOn'[made + 1] = handler[p].rated
    BY <1>3, ConstantTypes DEF CreatePending, Gens, TypeOK, GenTypeOK
  <2>3. CASE handler[p].rated = h
    <3>1. p \in P /\ Q \in SUBSET (P \ {p})
      BY <2>1, <2>3 DEF RatedHandlers
    <3>2. H \in SUBSET (G \cup {made + 1})
      BY <2>2 DEF RatedGens
    <3> QED
      BY <1>0, <1>t, <2>2, <3>1, <3>2, OneArrives DEF RatedCount
  <2>4. CASE handler[p].rated # h
    <3>1. Q \in SUBSET P
      BY <2>1 DEF RatedHandlers
    <3>2. H \in SUBSET G
      BY <2>2, <2>4 DEF RatedGens
    <3> QED
      BY <1>0, <1>t, <2>2, <3>1, <3>2, NothingAdded DEF RatedCount
  <2> QED
    BY <2>3, <2>4
<1>4. CASE ~\E p \in Processes : RateLimit(p) \/ CreatePending(p)
  <2>1. ASSUME NEW q \in Q PROVE q \in P
    <3>1. q \in Processes /\ handler'[q].pc \in {"spend", "customer", "create"} /\ handler'[q].rated = h
      BY DEF RatedHandlers
    <3>2. ASSUME NEW e \in Events, Deliver(q, e) PROVE FALSE
      BY <3>1, <3>2 DEF Deliver, NoHandler, TypeOK, HandlerTypeOK
    <3>3. handler[q].pc \in {"spend", "customer", "create"} /\ handler[q].rated = h
      BY <1>4, <3>1, <3>2, HandlerMoves DEF SamePlace, OnTo
    <3> QED
      BY <3>1, <3>3 DEF RatedHandlers
  <2> QED
    BY <1>1, <1>4, <2>1, CallsGrow, RowsComeByCreating
<1> QED
  BY <1>2, <1>3, <1>4

\* However many handlers count at once, no more generations come from an hour's
\* counter than the cap allows (rate-limiter.ts).
THEOREM HourlyCapKept == Spec => []HourlyCapHolds
<1>1. Init => HourInv
  <2> SUFFICES ASSUME Init, NEW h \in Hours
               PROVE  /\ RatedCount(status, ratedOn, handler, h) <= calls[h]
                      /\ RatedCount(status, ratedOn, handler, h) <= HourlyCap
    BY DEF HourInv
  <2>1. RatedGens(status, ratedOn, h) = {} /\ RatedHandlers(handler, h) = {} /\ calls[h] = 0
    BY DEF Init, RatedGens, RatedHandlers, NoHandler
  <2> QED
    BY <2>1, FS_EmptySet, AiGenerationAssumption DEF RatedCount
<1>2. TypeOK /\ HourInv => HourlyCapHolds
  <2> SUFFICES ASSUME TypeOK, HourInv, NEW h \in Hours
               PROVE  Cardinality(RatedGens(status, ratedOn, h)) <= HourlyCap
    BY DEF HourlyCapHolds, RatedGens
  <2>1. /\ RatedGens(status, ratedOn, h) \in SUBSET Gens
        /\ RatedHandlers(handler, h) \in SUBSET Processes
    BY DEF RatedGens, RatedHandlers
  <2>2. /\ Cardinality(RatedGens(status, ratedOn, h)) \in Nat
        /\ Cardinality(RatedHandlers(handler, h)) \in Nat
    BY <2>1, Countable
  <2> QED
    BY <2>2, AiGenerationAssumption DEF HourInv, RatedCount
<1> QED
  BY <1>1, <1>2, HourStep, GenerationTypes, PTL DEF Spec

----------------------------------------------------------------------------
(* Duplicates *)

\* Generations of an event, handlers that may still make one, and whether the
\* event is up for a delivery.
EventGens(st, src, e) == {g \in Gens : st[g] # "none" /\ src[g] = e}
EventHandlers(hd, e) ==
  {p \in Processes : /\ hd[p].pc \in {"gates", "rate", "spend", "customer", "create"}
                    /\ hd[p].event = e}
Up(dl, e) == IF dl[e] = "waiting" THEN 1 ELSE 0
EventCount(st, src, hd, e) ==
  Cardinality(EventGens(st, src, e)) + Cardinality(EventHandlers(hd, e))

\* All of them go back to the first delivery or to a repeated one.
DeliveryInv ==
  \A e \in Events :
    EventCount(status, source, handler, e) + Up(delivery, e) <= 1 + redelivered[e]

LEMMA DeliveryStep ==
  ASSUME TypeOK, DeliveryInv, [Next]_vars
  PROVE  DeliveryInv'
<1> SUFFICES ASSUME NEW e \in Events
             PROVE  EventCount(status', source', handler', e) + Up(delivery', e)
                      <= 1 + redelivered'[e]
  BY DEF DeliveryInv
<1> DEFINE G == EventGens(status, source, e)    H == EventGens(status', source', e)
           P == EventHandlers(handler, e)       Q == EventHandlers(handler', e)
           Before == Cardinality(G) + Cardinality(P)
           After == Cardinality(H) + Cardinality(Q)
<1>0. /\ G \in SUBSET Gens /\ H \in SUBSET Gens
      /\ P \in SUBSET Processes /\ Q \in SUBSET Processes
  BY DEF EventGens, EventHandlers
<1>n. Before \in Nat /\ After \in Nat
  BY <1>0, Countable
<1>t. /\ redelivered[e] \in Nat /\ Up(delivery, e) \in {0, 1} /\ Up(delivery', e) \in {0, 1}
      /\ Before + Up(delivery, e) <= 1 + redelivered[e]
  BY DEF TypeOK, EventTypeOK, DeliveryInv, EventCount, Up
<1>s. SUFFICES After + Up(delivery', e) <= 1 + redelivered'[e]
  BY DEF EventCount
<1> HIDE DEF Before, After
<1>g. NoRowAdded => H \in SUBSET G
  BY DEF NoRowAdded, EventGens
<1>1. ASSUME NEW p \in Processes, Deliver(p, e) PROVE After + Up(delivery', e) <= 1 + redelivered'[e]
  <2>1. /\ delivery[e] = "waiting" /\ delivery'[e] = "held" /\ redelivered' = redelivered
        /\ \A q \in Processes : q # p => handler'[q] = handler[q]
    BY <1>1, HandlersMoveAlone DEF Deliver, TypeOK, EventTypeOK
  <2>2. H \in SUBSET G
    BY <1>1 DEF Deliver, genVars, EventGens
  <2>3. Q \in SUBSET (P \cup {p})
    BY <2>1 DEF EventHandlers
  <2>4. After <= Before + 1
    BY <1>0, <2>2, <2>3, OneSetsOut DEF Before, After
  <2>5. Up(delivery, e) = 1 /\ Up(delivery', e) = 0
    BY <2>1 DEF Up
  <2> QED
    BY <1>n, <1>t, <2>1, <2>4, <2>5
<1>2. CASE ~\E p \in Processes : Deliver(p, e)
  <2>1. Up(delivery', e) - redelivered'[e] <= Up(delivery, e) - redelivered[e]
        /\ redelivered'[e] \in Nat
    BY <1>2, <1>t, DeliveryMoves DEF GoesBack, Ends, Up
  <2>2. SUFFICES After <= Before
    BY <1>n, <1>t, <2>1, <2>2
  <2>3. ASSUME NEW p \in Processes, CreatePending(p) PROVE After <= Before
    <3>1. /\ \A q \in Processes : q # p => handler'[q] = handler[q]
          /\ handler'[p].pc = "enqueue" /\ handler[p].pc = "create"
      BY <2>3, HandlersMoveAlone DEF CreatePending, HAt, TypeOK, HandlerTypeOK, HandlerPass
    <3>2. /\ made + 1 \in Gens
          /\ \A g \in Gens : g # made + 1 => status'[g] = status[g] /\ source'[g] = source[g]
          /\ source'[made + 1] = handler[p].event
      BY <2>3, ConstantTypes DEF CreatePending, EventOf, Gens, TypeOK, GenTypeOK
    <3>3. CASE handler[p].event = e
      <4>1. p \in P /\ Q \in SUBSET (P \ {p})
        BY <3>1, <3>3 DEF EventHandlers
      <4>2. H \in SUBSET (G \cup {made + 1})
        BY <3>2 DEF EventGens
      <4> QED
        BY <1>0, <3>2, <4>1, <4>2, OneArrives DEF Before, After
    <3>4. CASE handler[p].event # e
      <4>1. Q \in SUBSET P
        BY <3>1 DEF EventHandlers
      <4>2. H \in SUBSET G
        BY <3>2, <3>4 DEF EventGens
      <4> QED
        BY <1>0, <4>1, <4>2, NothingAdded DEF Before, After
    <3> QED
      BY <3>3, <3>4
  <2>4. CASE NoRowAdded
    <3>1. ASSUME NEW q \in Q PROVE q \in P
      <4>1. /\ q \in Processes /\ handler'[q].event = e
            /\ handler'[q].pc \in {"gates", "rate", "spend", "customer", "create"}
        BY DEF EventHandlers
      <4>2. ASSUME NEW d \in Events, Deliver(q, d) PROVE FALSE
        BY <1>2, <4>1, <4>2 DEF Deliver, TypeOK, HandlerTypeOK, NoHandler
      <4>3. RateLimit(q) => handler[q].pc = "rate" /\ handler'[q].event = handler[q].event
        BY DEF RateLimit, HAt, TypeOK, HandlerTypeOK, HandlerPass
      <4>4. /\ handler[q].pc \in {"gates", "rate", "spend", "customer", "create"}
            /\ handler[q].event = e
        BY <4>1, <4>2, <4>3, HandlerMoves DEF SamePlace, OnTo
      <4> QED
        BY <4>1, <4>4 DEF EventHandlers
    <3> QED
      BY <1>0, <1>g, <2>4, <3>1, NothingAdded DEF Before, After
  <2> QED
    BY <2>3, <2>4, RowsComeByCreating
<1> QED
  BY <1>1, <1>2

\* An event gets a second generation only when it was delivered again
\* (customer-state-changed.ts:500).
THEOREM DuplicatesArePaidFor == Spec => []DuplicatesOnlyFromRedelivery
<1>1. Init => DeliveryInv
  <2> SUFFICES ASSUME Init, NEW e \in Events
               PROVE  EventCount(status, source, handler, e) + Up(delivery, e) <= 1 + redelivered[e]
    BY DEF DeliveryInv
  <2>1. /\ EventGens(status, source, e) = {} /\ EventHandlers(handler, e) = {}
        /\ redelivered[e] = 0 /\ Up(delivery, e) = 1
    BY DEF Init, EventGens, EventHandlers, NoHandler, Up
  <2> QED
    BY <2>1, FS_EmptySet DEF EventCount
<1>2. TypeOK /\ DeliveryInv => DuplicatesOnlyFromRedelivery
  <2> SUFFICES ASSUME TypeOK, DeliveryInv, NEW e \in Events
               PROVE  Cardinality(EventGens(status, source, e)) <= 1 + redelivered[e]
    BY DEF DuplicatesOnlyFromRedelivery, EventGens
  <2>1. /\ EventGens(status, source, e) \in SUBSET Gens
        /\ EventHandlers(handler, e) \in SUBSET Processes
    BY DEF EventGens, EventHandlers
  <2>2. /\ Cardinality(EventGens(status, source, e)) \in Nat
        /\ Cardinality(EventHandlers(handler, e)) \in Nat
        /\ Up(delivery, e) \in {0, 1} /\ redelivered[e] \in Nat
    BY <2>1, Countable DEF Up, TypeOK, EventTypeOK
  <2> QED
    BY <2>2 DEF DeliveryInv, EventCount
<1> QED
  BY <1>1, <1>2, DeliveryStep, GenerationTypes, PTL DEF Spec

----------------------------------------------------------------------------
(* Late generations *)

\* Rows of a customer, and handlers that hold its name for another one.
CustomerGens(st, src, c) == {g \in Gens : st[g] \notin {"none", "erased"} /\ Customer[src[g]] = c}
CustomerHandlers(hd, c) == {p \in Processes : hd[p].pc = "create" /\ Customer[hd[p].event] = c}
CustomerCount(st, src, hd, c) ==
  Cardinality(CustomerGens(st, src, c)) + Cardinality(CustomerHandlers(hd, c))

LateInv ==
  \A c \in Customers :
    customer[c] = "redacted" => CustomerCount(status, source, handler, c) <= underway[c]

\* A redacted customer stays so, and its count of handlers with it.
LEMMA RedactionStays ==
  ASSUME TypeOK, [Next]_vars, NEW c \in Customers, customer'[c] = "redacted"
  PROVE  \/ customer[c] = "redacted" /\ underway'[c] = underway[c]
         \/ CustomerRedact(c)
<1>1. CASE World
  <2>1. ASSUME NEW d \in Customers, CustomerDeleted(d)
        PROVE  customer[c] = "redacted" /\ underway'[c] = underway[c]
    BY <2>1 DEF CustomerDeleted, TypeOK, SettingTypeOK
  <2>2. ASSUME NEW d \in Customers, CustomerRedact(d), d # c
        PROVE  customer[c] = "redacted" /\ underway'[c] = underway[c]
    BY <2>2 DEF CustomerRedact, TypeOK, SettingTypeOK
  <2> QED
    BY <1>1, <2>1, <2>2 DEF World, NextHour, SettingFlip
<1>2. ASSUME NEW p \in Processes, Handle(p) \/ Generate(p) \/ Fault(p)
      PROVE  UNCHANGED settingVars
  BY <1>2 DEF Handle, Generate, Fault, Deliver, Gates, RateLimit, SpendCheck, LoadCustomer,
     CreatePending, EnqueueJob, Settle, TakeJob, PickupReplay, Pickup, GiveUp, CallOk, CallRefused,
     Mint, Complete, HandlerThrows, TickExpires, WorkerThrows, ThrowsTooLate, Crash, LockLost
<1>3. CASE UNCHANGED vars
  BY <1>3 DEF vars, settingVars
<1> QED
  BY <1>1, <1>2, <1>3 DEF Next, settingVars

LEMMA LateStep ==
  ASSUME TypeOK, LateInv, [Next]_vars
  PROVE  LateInv'
<1> SUFFICES ASSUME NEW c \in Customers, customer'[c] = "redacted"
             PROVE  CustomerCount(status', source', handler', c) <= underway'[c]
  BY DEF LateInv
<1> DEFINE G == CustomerGens(status, source, c)    H == CustomerGens(status', source', c)
           P == CustomerHandlers(handler, c)       Q == CustomerHandlers(handler', c)
           Before == Cardinality(G) + Cardinality(P)
           After == Cardinality(H) + Cardinality(Q)
<1>0. /\ G \in SUBSET Gens /\ H \in SUBSET Gens
      /\ P \in SUBSET Processes /\ Q \in SUBSET Processes
  BY DEF CustomerGens, CustomerHandlers
<1>n. Before \in Nat /\ After \in Nat
  BY <1>0, Countable
<1>s. SUFFICES After <= underway'[c]
  BY DEF CustomerCount
<1> HIDE DEF Before, After
<1>1. CASE CustomerRedact(c)
  <2>1. H = {}
    BY <1>1 DEF CustomerRedact, GensOf, CustomerGens
  <2>2. Q = {p \in Processes : HAt(p, "create") /\ Customer[EventOf(p)] = c}
    BY <1>1 DEF CustomerRedact, CustomerHandlers, HAt, EventOf
  <2>3. underway'[c] = Cardinality(Q)
    BY <1>1, <2>2 DEF CustomerRedact, TypeOK, SettingTypeOK
  <2>4. Cardinality(H) = 0 /\ Cardinality(Q) \in Nat
    BY <1>0, <2>1, FS_EmptySet, Countable
  <2> QED
    BY <2>3, <2>4 DEF After
<1>2. CASE customer[c] = "redacted" /\ underway'[c] = underway[c]
  <2>1. underway[c] \in Nat /\ Before <= underway[c]
    BY <1>2 DEF TypeOK, SettingTypeOK, LateInv, CustomerCount, Before
  <2>2. SUFFICES After <= Before
    BY <1>2, <1>n, <2>1, <2>2
  <2>3. ASSUME NEW p \in Processes, CreatePending(p) PROVE After <= Before
    <3>1. /\ \A q \in Processes : q # p => handler'[q] = handler[q]
          /\ handler'[p].pc = "enqueue" /\ handler[p].pc = "create"
      BY <2>3, HandlersMoveAlone DEF CreatePending, HAt, TypeOK, HandlerTypeOK, HandlerPass
    <3>2. /\ made + 1 \in Gens
          /\ \A g \in Gens : g # made + 1 => status'[g] = status[g] /\ source'[g] = source[g]
          /\ source'[made + 1] = handler[p].event
      BY <2>3, ConstantTypes DEF CreatePending, EventOf, Gens, TypeOK, GenTypeOK
    <3>3. CASE Customer[handler[p].event] = c
      <4>1. p \in P /\ Q \in SUBSET (P \ {p})
        BY <3>1, <3>3 DEF CustomerHandlers
      <4>2. H \in SUBSET (G \cup {made + 1})
        BY <3>2 DEF CustomerGens
      <4> QED
        BY <1>0, <3>2, <4>1, <4>2, OneArrives DEF Before, After
    <3>4. CASE Customer[handler[p].event] # c
      <4>1. Q \in SUBSET P
        BY <3>1 DEF CustomerHandlers
      <4>2. H \in SUBSET G
        BY <3>2, <3>4 DEF CustomerGens
      <4> QED
        BY <1>0, <4>1, <4>2, NothingAdded DEF Before, After
    <3> QED
      BY <3>3, <3>4
  <2>4. CASE NoRowAdded
    <3>1. H \in SUBSET G
      BY <2>4 DEF NoRowAdded, CustomerGens
    <3>2. ASSUME NEW q \in Q PROVE q \in P
      <4>1. /\ q \in Processes /\ handler'[q].pc = "create"
            /\ Customer[handler'[q].event] = c
        BY DEF CustomerHandlers
      <4>2. ~LoadCustomer(q) \/ Customer[handler[q].event] # c
        BY <1>2, <4>1 DEF LoadCustomer, Visible, HGoto, EventOf, TypeOK, HandlerTypeOK, HandlerPass
      <4>3. ASSUME RateLimit(q) PROVE FALSE
        <5>1. handler'[q].pc = IF Allowed(calls[hour] + 1) THEN "spend" ELSE "done"
          BY <4>1, <4>3 DEF RateLimit, TypeOK, HandlerTypeOK, HandlerPass
        <5> QED
          BY <4>1, <5>1
      <4>d. ASSUME NEW e \in Events, Deliver(q, e) PROVE FALSE
        BY <4>1, <4>d DEF Deliver, TypeOK, HandlerTypeOK, NoHandler
      <4>4. handler[q].pc = "create" /\ Customer[handler[q].event] = c
        BY <4>1, <4>2, <4>3, <4>d, HandlerMoves DEF SamePlace, OnTo
      <4> QED
        BY <4>1, <4>4 DEF CustomerHandlers
    <3> QED
      BY <1>0, <3>1, <3>2, NothingAdded DEF Before, After
  <2> QED
    BY <2>3, <2>4, RowsComeByCreating
<1> QED
  BY <1>1, <1>2, RedactionStays

\* Only handlers that had loaded the customer before its redaction can still
\* create a generation with its name, one each (customer-state-changed.ts:341).
THEOREM LateGenerationsCounted == Spec => []LateGenerationsBounded
<1>1. Init => LateInv
  BY DEF Init, LateInv
<1>2. TypeOK /\ LateInv => LateGenerationsBounded
  <2> SUFFICES ASSUME TypeOK, LateInv, NEW c \in Customers, customer[c] = "redacted"
               PROVE  Cardinality(CustomerGens(status, source, c)) <= underway[c]
    BY DEF LateGenerationsBounded, GensOf, CustomerGens
  <2>1. /\ CustomerGens(status, source, c) \in SUBSET Gens
        /\ CustomerHandlers(handler, c) \in SUBSET Processes
    BY DEF CustomerGens, CustomerHandlers
  <2>2. /\ Cardinality(CustomerGens(status, source, c)) \in Nat
        /\ Cardinality(CustomerHandlers(handler, c)) \in Nat /\ underway[c] \in Nat
    BY <2>1, Countable DEF TypeOK, SettingTypeOK
  <2> QED
    BY <2>2 DEF LateInv, CustomerCount
<1> QED
  BY <1>1, <1>2, LateStep, GenerationTypes, PTL DEF Spec

----------------------------------------------------------------------------
(***************************************************************************)
(* Sums.  MapThenSumSet is a recursive function over the subsets of its    *)
(* set, given by CHOOSE.  What follows about it is shown for a smallest    *)
(* subset that would contradict it, which exists because the subsets of a  *)
(* finite set are well founded.                                            *)
(***************************************************************************)

\* The element the fold takes first, and the fold over the subsets of S.
Taken(s) == CHOOSE x \in s : TRUE
Partial(f, S) ==
  CHOOSE F : F = [s \in SUBSET S |-> IF s = {} THEN 0 ELSE f[Taken(s)] + F[s \ {Taken(s)}]]
Unfolds(f, S) ==
  Partial(f, S) =
    [s \in SUBSET S |-> IF s = {} THEN 0 ELSE f[Taken(s)] + Partial(f, S)[s \ {Taken(s)}]]
Total(f, S) == Partial(f, S)[S]

LEMMA TotalIsSum ==
  ASSUME NEW f, NEW S
  PROVE  MapThenSumSet(LAMBDA g : f[g], S) = Total(f, S)
BY DEF MapThenSumSet, MapThenFoldSet, Total, Partial, Taken

LEMMA TakenIsMember == \A s : s # {} => Taken(s) \in s
BY DEF Taken

\* Among some subsets of a finite set one has no other below it.
LEMMA MinimalSubset ==
  ASSUME NEW S, IsFiniteSet(S), NEW C, C \subseteq SUBSET S, C # {}
  PROVE  \E T \in C : \A U \in C : U \subseteq T => U = T
<1>1. C \subseteq FiniteSubsetsOf(S)
  BY FS_Subset, FS_FiniteSubsetsOfFinite
<1>2. IsWellFoundedOn(StrictSubsetOrdering(S), FiniteSubsetsOf(S))
  BY FS_StrictSubsetOrderingWellFounded
<1>3. \E T \in C : \A U \in C : ~ (<<U, T>> \in StrictSubsetOrdering(S))
  BY <1>1, <1>2, WFMin, Zenon
<1> QED
  BY <1>3 DEF StrictSubsetOrdering

\* Two partial sums agree on the subsets they share.
LEMMA PartialsAgree ==
  ASSUME NEW f, NEW U, IsFiniteSet(U), NEW V \in SUBSET U, Unfolds(f, U), Unfolds(f, V)
  PROVE  \A s \in SUBSET V : Partial(f, U)[s] = Partial(f, V)[s]
<1> DEFINE C == {s \in SUBSET V : Partial(f, U)[s] # Partial(f, V)[s]}
<1> SUFFICES ASSUME C # {} PROVE FALSE
  OBVIOUS
<1>1. IsFiniteSet(V)
  BY FS_Subset
<1>2. PICK T \in C : \A W \in C : W \subseteq T => W = T
  <2> HIDE DEF C
  <2>1. C \subseteq SUBSET V
    BY DEF C
  <2> QED
    BY <1>1, <2>1, MinimalSubset
<1>3. CASE T = {}
  BY <1>3 DEF Unfolds
<1>4. CASE T # {}
  <2> DEFINE r == T \ {Taken(T)}
  <2>1. r \in SUBSET V /\ r # T /\ r \notin C
    BY <1>2, <1>4, TakenIsMember
  <2>2. Partial(f, U)[r] = Partial(f, V)[r]
    BY <2>1
  <2>3. Partial(f, U)[T] = f[Taken(T)] + Partial(f, U)[r]
    BY <1>4 DEF Unfolds
  <2>4. Partial(f, V)[T] = f[Taken(T)] + Partial(f, V)[r]
    BY <1>4 DEF Unfolds
  <2> QED
    BY <2>2, <2>3, <2>4
<1> QED
  BY <1>3, <1>4

\* The partial sums of a finite set are what their recursion says.
LEMMA PartialUnfolds ==
  ASSUME NEW f, NEW S, IsFiniteSet(S)
  PROVE  \A T \in SUBSET S : Unfolds(f, T)
<1> DEFINE C == {T \in SUBSET S : ~Unfolds(f, T)}
<1> SUFFICES ASSUME C # {} PROVE FALSE
  OBVIOUS
<1>1. PICK T \in C : \A W \in C : W \subseteq T => W = T
  <2> HIDE DEF C
  <2>1. C \subseteq SUBSET S
    BY DEF C
  <2> QED
    BY <2>1, MinimalSubset
<1>2. \A W \in SUBSET T : W # T => Unfolds(f, W) /\ IsFiniteSet(W)
  BY <1>1, FS_Subset
<1> DEFINE F == [s \in SUBSET T |-> IF s = {} THEN 0
                                   ELSE f[Taken(s)] + Total(f, s \ {Taken(s)})]
<1>3. ASSUME NEW s \in SUBSET T, s # {}
      PROVE  F[s \ {Taken(s)}] = Total(f, s \ {Taken(s)})
  <2> DEFINE r == s \ {Taken(s)}
  <2>1. r \in SUBSET T /\ r # T
    BY <1>3, TakenIsMember
  <2>2. Unfolds(f, r) /\ IsFiniteSet(r)
    BY <1>2, <2>1
  <2>3. CASE r = {}
    BY <2>1, <2>2, <2>3 DEF Unfolds, Total
  <2>4. CASE r # {}
    <3> DEFINE q == r \ {Taken(r)}
    <3>1. q \in SUBSET r /\ q # T /\ q \in SUBSET T
      BY <2>1, <2>4, TakenIsMember
    <3>2. Unfolds(f, q)
      BY <1>2, <3>1
    <3>3. Partial(f, r)[q] = Partial(f, q)[q]
      BY <2>2, <3>1, <3>2, PartialsAgree
    <3>4. Partial(f, r)[r] = f[Taken(r)] + Partial(f, r)[q]
      BY <2>2, <2>4 DEF Unfolds
    <3>5. F[r] = f[Taken(r)] + Total(f, q)
      BY <2>1, <2>4
    <3> QED
      BY <3>3, <3>4, <3>5 DEF Total
  <2> QED
    BY <2>3, <2>4
<1>4. F = [s \in SUBSET T |-> IF s = {} THEN 0 ELSE f[Taken(s)] + F[s \ {Taken(s)}]]
  <2>1. ASSUME NEW s \in SUBSET T
        PROVE  F[s] = IF s = {} THEN 0 ELSE f[Taken(s)] + F[s \ {Taken(s)}]
    BY <1>3
  <2> DEFINE H == [s \in SUBSET T |-> IF s = {} THEN 0 ELSE f[Taken(s)] + F[s \ {Taken(s)}]]
  <2>2. F = H
    BY <2>1
  <2> QED
    BY <2>2
<1>5. Unfolds(f, T)
  <2> HIDE DEF F
  <2> QED
    BY <1>4 DEF Unfolds, Partial
<1> QED
  BY <1>1, <1>5

\* The sum of nothing, and the sum with the element that is taken first.
LEMMA TotalStep ==
  ASSUME NEW f, NEW S, IsFiniteSet(S)
  PROVE  Total(f, S) = IF S = {} THEN 0 ELSE f[Taken(S)] + Total(f, S \ {Taken(S)})
<1>1. Unfolds(f, S)
  BY PartialUnfolds
<1>2. CASE S = {}
  BY <1>1, <1>2 DEF Unfolds, Total
<1>3. CASE S # {}
  <2> DEFINE r == S \ {Taken(S)}
  <2>1. Unfolds(f, r)
    BY PartialUnfolds
  <2>2. Partial(f, S)[r] = Partial(f, r)[r]
    BY <1>1, <2>1, PartialsAgree
  <2> QED
    BY <1>1, <1>3, <2>2 DEF Unfolds, Total
<1> QED
  BY <1>2, <1>3

\* A sum of numbers is a number.
LEMMA TotalIsNat ==
  ASSUME NEW f, NEW S, IsFiniteSet(S), \A x \in S : f[x] \in Nat
  PROVE  Total(f, S) \in Nat
<1> DEFINE C == {T \in SUBSET S : Total(f, T) \notin Nat}
<1> SUFFICES ASSUME C # {} PROVE FALSE
  OBVIOUS
<1>1. PICK T \in C : \A W \in C : W \subseteq T => W = T
  <2> HIDE DEF C
  <2>1. C \subseteq SUBSET S
    BY DEF C
  <2> QED
    BY <2>1, MinimalSubset
<1>2. IsFiniteSet(T)
  BY FS_Subset
<1>3. CASE T = {}
  <2>1. Total(f, T) = 0
    BY <1>2, <1>3, TotalStep
  <2> QED
    BY <2>1
<1>4. CASE T # {}
  <2>1. Taken(T) \in T
    BY <1>4, TakenIsMember
  <2>2. Total(f, T \ {Taken(T)}) \in Nat
    BY <1>1, <2>1
  <2>3. f[Taken(T)] \in Nat
    BY <2>1
  <2>4. Total(f, T) = f[Taken(T)] + Total(f, T \ {Taken(T)})
    BY <1>2, <1>4, TotalStep
  <2>5. Total(f, T) \in Nat
    BY <2>2, <2>3, <2>4
  <2> QED
    BY <2>5
<1> QED
  BY <1>3, <1>4

\* Any element may be taken out of a sum.
LEMMA TotalTakesAny ==
  ASSUME NEW f, NEW S, IsFiniteSet(S), \A x \in S : f[x] \in Nat
  PROVE  \A x \in S : Total(f, S) = f[x] + Total(f, S \ {x})
<1> DEFINE C == {T \in SUBSET S : \E x \in T : Total(f, T) # f[x] + Total(f, T \ {x})}
<1> SUFFICES ASSUME C # {} PROVE FALSE
  OBVIOUS
<1>1. PICK T \in C : \A W \in C : W \subseteq T => W = T
  <2> HIDE DEF C
  <2>1. C \subseteq SUBSET S
    BY DEF C
  <2> QED
    BY <2>1, MinimalSubset
<1>2. PICK x \in T : Total(f, T) # f[x] + Total(f, T \ {x})
  OBVIOUS
<1> DEFINE c == Taken(T)
<1>3. IsFiniteSet(T) /\ c \in T
  BY FS_Subset, TakenIsMember
<1>4. Total(f, T) = f[c] + Total(f, T \ {c})
  BY <1>3, TotalStep
<1>5. x # c
  BY <1>2, <1>4
<1>6. \A W \in SUBSET T : W # T => \A y \in W : Total(f, W) = f[y] + Total(f, W \ {y})
  BY <1>1
<1> HIDE DEF C, c
<1> DEFINE R == (T \ {c}) \ {x}
<1>7. Total(f, T \ {c}) = f[x] + Total(f, R)
  <2>1. T \ {c} \in SUBSET T /\ T \ {c} # T /\ x \in T \ {c}
    BY <1>3, <1>5
  <2> QED
    BY <1>6, <2>1
<1>8. Total(f, T \ {x}) = f[c] + Total(f, R)
  <2>1. T \ {x} \in SUBSET T /\ T \ {x} # T /\ c \in T \ {x}
    BY <1>3, <1>5
  <2>2. (T \ {x}) \ {c} = R
    OBVIOUS
  <2> QED
    BY <1>6, <2>1, <2>2
<1>9. f[x] \in Nat /\ f[c] \in Nat /\ Total(f, R) \in Nat
  <2>1. T \in SUBSET S
    BY DEF C
  <2>2. R \in SUBSET S /\ IsFiniteSet(R)
    BY <1>3, <2>1, FS_Subset
  <2>3. Total(f, R) \in Nat
    <3> HIDE DEF R
    <3>1. \A y \in R : f[y] \in Nat
      BY <2>2
    <3> QED
      BY <2>2, <3>1, TotalIsNat
  <2> QED
    BY <1>3, <2>1, <2>3
<1> HIDE DEF R
<1> QED
  BY <1>2, <1>4, <1>7, <1>8, <1>9

\* Equal summands have equal sums.
LEMMA TotalOfEqual ==
  ASSUME NEW f, NEW g, NEW S, IsFiniteSet(S), \A x \in S : f[x] = g[x]
  PROVE  Total(f, S) = Total(g, S)
<1> DEFINE C == {T \in SUBSET S : Total(f, T) # Total(g, T)}
<1> SUFFICES ASSUME C # {} PROVE FALSE
  OBVIOUS
<1>1. PICK T \in C : \A W \in C : W \subseteq T => W = T
  <2> HIDE DEF C
  <2>1. C \subseteq SUBSET S
    BY DEF C
  <2> QED
    BY <2>1, MinimalSubset
<1>2. IsFiniteSet(T)
  BY FS_Subset
<1>3. CASE T = {}
  BY <1>2, <1>3, TotalStep
<1>4. CASE T # {}
  <2>1. Taken(T) \in T
    BY <1>4, TakenIsMember
  <2>2. Total(f, T \ {Taken(T)}) = Total(g, T \ {Taken(T)})
    BY <1>1, <2>1
  <2> QED
    BY <1>2, <1>4, <2>1, <2>2, TotalStep
<1> QED
  BY <1>3, <1>4

\* The sum of nothing but zeros.
LEMMA TotalOfZeros ==
  ASSUME NEW f, NEW S, IsFiniteSet(S), \A x \in S : f[x] = 0
  PROVE  Total(f, S) = 0
<1> DEFINE C == {T \in SUBSET S : Total(f, T) # 0}
<1> SUFFICES ASSUME C # {} PROVE FALSE
  OBVIOUS
<1>1. PICK T \in C : \A W \in C : W \subseteq T => W = T
  <2> HIDE DEF C
  <2>1. C \subseteq SUBSET S
    BY DEF C
  <2> QED
    BY <2>1, MinimalSubset
<1>2. IsFiniteSet(T)
  BY FS_Subset
<1>3. CASE T = {}
  BY <1>2, <1>3, TotalStep
<1>4. CASE T # {}
  <2>1. Taken(T) \in T
    BY <1>4, TakenIsMember
  <2>2. Total(f, T \ {Taken(T)}) = 0
    BY <1>1, <2>1
  <2> QED
    BY <1>2, <1>4, <2>1, <2>2, TotalStep
<1> QED
  BY <1>3, <1>4

----------------------------------------------------------------------------
(* The spend *)

GensPaidIn(k, m) == {g \in Gens : k[g] = m}

LEMMA GensAreFinite == IsFiniteSet(Gens) /\ \A k, m : IsFiniteSet(GensPaidIn(k, m))
<1>1. IsFiniteSet(Gens)
  BY ConstantTypes, FS_Interval DEF Gens
<1> QED
  BY <1>1, FS_Subset DEF GensPaidIn

\* A summand that is zero may be left out.
LEMMA TotalWithoutZero ==
  ASSUME NEW f, NEW S, IsFiniteSet(S), \A x \in S : f[x] \in Nat, NEW g, f[g] = 0
  PROVE  Total(f, S \ {g}) = Total(f, S)
<1>1. CASE g \in S
  <2> DEFINE R == S \ {g}
  <2>1. Total(f, S) = f[g] + Total(f, R)
    BY <1>1, TotalTakesAny
  <2>2. IsFiniteSet(R) /\ \A x \in R : f[x] \in Nat
    BY FS_Subset
  <2> HIDE DEF R
  <2>3. Total(f, R) \in Nat
    BY <2>2, TotalIsNat
  <2> QED
    BY <2>1, <2>3 DEF R
<1>2. CASE g \notin S
  <2>1. S \ {g} = S
    BY <1>2
  <2> QED
    BY <2>1
<1> QED
  BY <1>1, <1>2

\* Why a generation is counted once: one that is not completed has cost nothing,
\* and the completion finds it pending.
NothingPaidYet ==
  \A g \in Gens : status[g] \in {"none", "pending", "failed"} => paid[g] = 0

SpentIsTotal == \A m \in Months : spent[m] = Total(paid, GensPaidIn(paidIn, m))

SpendInv == WholeInv /\ NothingPaidYet /\ SpentIsTotal

\* Which steps write the bucket, and what the others do to a generation.
LEMMA MoneySteps ==
  ASSUME WholeInv, [Next]_vars
  PROVE  \/ \E g \in Gens, cost \in Costs : status[g] = "pending" /\ WriteCompletion(g, cost)
         \/ /\ UNCHANGED <<spent, paid, paidIn>>
            /\ \A g \in Gens : status'[g] \in {"none", "pending", "failed"} =>
                              status[g] \in {"none", "pending", "failed"}
<1> DEFINE Kept == /\ UNCHANGED <<spent, paid, paidIn>>
                  /\ \A g \in Gens : status'[g] \in {"none", "pending", "failed"} =>
                                    status[g] \in {"none", "pending", "failed"}
<1> USE DEF WholeInv
<1>1. ASSUME NEW p \in Processes, WAt(p, "complete") PROVE GenOf(p) \in Gens
  BY <1>1 DEF WorkersCreated, Working, WAt
<1>2. CASE World
  <2>1. ASSUME NextHour \/ SettingFlip PROVE Kept
    BY <2>1 DEF NextHour, SettingFlip, genVars, moneyVars
  <2>2. ASSUME NEW c \in Customers, CustomerDeleted(c) PROVE Kept
    BY <2>2 DEF CustomerDeleted, genVars, moneyVars
  <2>3. ASSUME NEW c \in Customers, CustomerRedact(c) PROVE Kept
    <3>1. \A g \in Gens : status'[g] \in {"erased", status[g]}
      BY <2>3 DEF CustomerRedact
    <3>2. UNCHANGED <<spent, paid, paidIn>>
      BY <2>3 DEF CustomerRedact, moneyVars
    <3> QED
      BY <3>1, <3>2
  <2> QED
    BY <1>2, <2>1, <2>2, <2>3 DEF World
<1>3. ASSUME NEW p \in Processes, Handle(p) PROVE Kept
  <2>1. ASSUME CreatePending(p) PROVE Kept
    <3>1. made + 1 \in Gens => status[made + 1] = "none"
      BY DEF TypeOK, GenTypeOK
    <3> QED
      BY <2>1, <3>1 DEF CreatePending, moneyVars, TypeOK, GenTypeOK
  <2> QED
    BY <1>3, <2>1 DEF Handle, Deliver, Gates, RateLimit, SpendCheck, LoadCustomer, EnqueueJob,
       Settle, genVars, moneyVars
<1>4. ASSUME NEW p \in Processes, Generate(p)
      PROVE  \/ Kept
             \/ \E g \in Gens, cost \in Costs : status[g] = "pending" /\ WriteCompletion(g, cost)
  <2>1. ASSUME GiveUp(p) PROVE Kept
    BY <2>1 DEF GiveUp, MarkFailed, moneyVars, TypeOK, GenTypeOK
  <2>2. ASSUME NEW cost \in Costs, Complete(p, cost)
        PROVE  Kept \/ (status[GenOf(p)] = "pending" /\ WriteCompletion(GenOf(p), cost))
    BY <2>2 DEF Complete, MarkCompleted
  <2>3. ASSUME Mint(p) PROVE Kept
    BY <2>3 DEF Mint, genVars
  <2> QED
    BY <1>1, <1>4, <2>1, <2>2, <2>3 DEF Generate, TakeJob, PickupReplay, Pickup, CallOk,
       CallRefused, Complete, genVars, moneyVars
<1>5. ASSUME NEW p \in Processes, Fault(p)
      PROVE  \/ Kept
             \/ \E g \in Gens, cost \in Costs : status[g] = "pending" /\ WriteCompletion(g, cost)
  <2>1. ASSUME NEW cost \in Costs, ThrowsTooLate(p, cost)
        PROVE  \/ Kept
               \/ /\ GenOf(p) \in Gens
                  /\ status[GenOf(p)] = "pending" /\ WriteCompletion(GenOf(p), cost)
    BY <1>1, <2>1 DEF ThrowsTooLate, MarkCompleted
  <2> QED
    BY <1>5, <2>1 DEF Fault, HandlerThrows, TickExpires, WorkerThrows, Crash, LockLost, genVars,
       moneyVars
<1>6. CASE UNCHANGED vars
  BY <1>6 DEF vars, genVars, moneyVars
<1> QED
  BY <1>2, <1>3, <1>4, <1>5, <1>6 DEF Next

\* Every step keeps the bucket the sum of what was paid.
LEMMA SpendStep == SpendInv /\ [Next]_vars => SpendInv'
<1> SUFFICES ASSUME SpendInv, [Next]_vars PROVE SpendInv'
  OBVIOUS
<1>1. WholeInv /\ WholeInv'
  BY WholeInvStep DEF SpendInv
<1>2. CASE /\ UNCHANGED <<spent, paid, paidIn>>
           /\ \A g \in Gens : status'[g] \in {"none", "pending", "failed"} =>
                             status[g] \in {"none", "pending", "failed"}
  BY <1>1, <1>2 DEF SpendInv, NothingPaidYet, SpentIsTotal
<1>3. ASSUME NEW g \in Gens, NEW cost \in Costs, status[g] = "pending", WriteCompletion(g, cost)
      PROVE  SpendInv'
  <2>1. /\ status \in [Gens -> {"none", "pending", "completed", "failed", "erased"}]
        /\ paid \in [Gens -> Nat] /\ paidIn \in [Gens -> Months] /\ spent \in [Months -> Nat]
        /\ hour \in Hours
    BY <1>1 DEF WholeInv, TypeOK, GenTypeOK, MoneyTypeOK, SettingTypeOK
  <2>2. MonthOf(hour) \in Months /\ cost \in Nat
    BY <2>1, ConstantTypes
  <2>3. paid[g] = 0
    BY <1>3 DEF SpendInv, NothingPaidYet
  <2>4. SpentIsTotal'
    <3>1. ASSUME NEW m \in Months
          PROVE  /\ m = MonthOf(hour) => Total(paid', GensPaidIn(paidIn', m)) =
                                         Total(paid, GensPaidIn(paidIn, m)) + cost
                 /\ m # MonthOf(hour) => Total(paid', GensPaidIn(paidIn', m)) =
                                         Total(paid, GensPaidIn(paidIn, m))
      <4> DEFINE S == GensPaidIn(paidIn, m)  T == GensPaidIn(paidIn', m)  R == S \ {g}
      <4>1. IsFiniteSet(S) /\ IsFiniteSet(T) /\ IsFiniteSet(R) /\ S \subseteq Gens
        BY GensAreFinite, FS_Subset DEF GensPaidIn
      <4>2. T \ {g} = R /\ (g \in T <=> m = MonthOf(hour))
        BY <1>3, <2>1, <2>2 DEF WriteCompletion, GensPaidIn
      <4>3. paid'[g] = cost /\ (\A x \in R : paid'[x] = paid[x]) /\ (\A x \in T : paid'[x] \in Nat)
        BY <1>1, <1>3, <2>1, <4>1 DEF WriteCompletion, GensPaidIn, WholeInv, TypeOK, MoneyTypeOK
      <4>4. Total(paid, R) = Total(paid, S)
        <5>1. \A x \in S : paid[x] \in Nat
          BY <2>1, <4>1
        <5> HIDE DEF S
        <5> QED
          BY <2>3, <4>1, <5>1, TotalWithoutZero
      <4> HIDE DEF S, T, R
      <4>5. Total(paid', R) = Total(paid, R)
        BY <4>1, <4>3, TotalOfEqual
      <4>6. CASE m = MonthOf(hour)
        <5>1. \A x \in T : Total(paid', T) = paid'[x] + Total(paid', T \ {x})
          BY <4>1, <4>3, TotalTakesAny
        <5>2. Total(paid', T) = cost + Total(paid, S)
          BY <4>2, <4>3, <4>4, <4>5, <4>6, <5>1
        <5>3. Total(paid, S) \in Nat
          BY <2>1, <4>1, TotalIsNat
        <5> QED
          BY <2>2, <4>6, <5>2, <5>3 DEF S, T
      <4>7. CASE m # MonthOf(hour)
        <5>1. T = R
          BY <4>2, <4>7
        <5> QED
          BY <4>4, <4>5, <4>7, <5>1 DEF S, T
      <4> QED
        BY <4>6, <4>7
    <3>2. ASSUME NEW m \in Months
          PROVE  /\ m = MonthOf(hour) => spent'[m] = spent[m] + cost
                 /\ m # MonthOf(hour) => spent'[m] = spent[m]
      BY <1>3, <2>1, <2>2 DEF WriteCompletion
    <3> QED
      BY <3>1, <3>2 DEF SpendInv, SpentIsTotal
  <2>5. NothingPaidYet'
    BY <1>3, <2>1 DEF SpendInv, NothingPaidYet, WriteCompletion
  <2> QED
    BY <1>1, <2>4, <2>5 DEF SpendInv
<1> QED
  BY <1>1, <1>2, <1>3, MoneySteps

\* The month's spend is the cost of its completed generations, each counted
\* once: whatever workers race for a job, throw after their transaction has
\* committed, retry or die, and whoever is erased afterwards.
THEOREM SpendCounted == Spec => []SpendCountedOnce
<1>1. Init => SpendInv
  <2> SUFFICES ASSUME Init PROVE SpendInv
    OBVIOUS
  <2>1. ASSUME NEW m \in Months PROVE Total(paid, GensPaidIn(paidIn, m)) = 0
    <3>1. \A g \in GensPaidIn(paidIn, m) : paid[g] = 0
      BY DEF Init, GensPaidIn
    <3> QED
      BY <3>1, GensAreFinite, TotalOfZeros
  <2> QED
    BY <2>1, WholeInit DEF SpendInv, NothingPaidYet, SpentIsTotal, Init
<1>2. SpendInv => SpendCountedOnce
  <2> SUFFICES ASSUME SpendInv, NEW m \in Months
               PROVE  spent[m] = MapThenSumSet(LAMBDA g : paid[g], {g \in Gens : paidIn[g] = m})
    BY DEF SpendCountedOnce
  <2>1. spent[m] = Total(paid, {g \in Gens : paidIn[g] = m})
    BY DEF SpendInv, SpentIsTotal, GensPaidIn
  <2>2. MapThenSumSet(LAMBDA g : paid[g], {g \in Gens : paidIn[g] = m})
          = Total(paid, {g \in Gens : paidIn[g] = m})
    BY DEF MapThenSumSet, MapThenFoldSet, Total, Partial, Taken
  <2> QED
    BY <2>1, <2>2
<1> QED
  BY <1>1, <1>2, SpendStep, PTL DEF Spec
=============================================================================
