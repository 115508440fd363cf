-------------------------------- MODULE HttpApi --------------------------------
(***************************************************************************)
(* Requests through the middleware, dependencies, handlers and exception   *)
(* handlers of the application, outermost first: the handler for           *)
(* exceptions, metrics, API key, CORS, logging, correlation, and the       *)
(* router.  Overlapping requests share the request metrics.                *)
(***************************************************************************)
EXTENDS Naturals, FiniteSets, FiniteSetsExt, ErrorClasses

CONSTANTS
  Calls,       \* requests that overlap
  MayAsk,      \* the endpoints that each of them may ask
  MaxRequests, \* bound: requests that arrive
  None

\* "drift action" is check, reset or update-baseline, "kpis" one of the five endpoints,
\* "openapi" the schema and, with debug, the pages of the documentation.
BatchEndpoints == {"batch submit", "batch status", "batch results", "batch cancel", "batch queue"}
Endpoints ==
  BatchEndpoints \union
  {"predict", "batch metrics", "model info", "feedback", "health", "health details", "ready",
   "metrics", "metrics json", "kafka metrics", "async batch metrics", "drift", "drift action",
   "drift report", "kpis", "models", "production", "versions", "explain", "explain html",
   "monitoring health", "root", "openapi", "unknown", "preflight"}

TakesInput ==
  {"predict", "batch submit", "batch results", "feedback", "kpis", "models", "explain", "explain html"}

\* What the process runs with: without debug its routes are under /api/v1; model is that
\* of the requested backend; optional is the
\* state of every optional component, of which each endpoint asks one.
Worlds ==
  [debug : BOOLEAN, api_key : BOOLEAN,
   model : {"ready", "not ready", "unsupported", "broken"},
   optional : {"running", "off", "absent"}]

VARIABLES
  world,     \* one of Worlds
  pc,        \* of each request: idle, resolving, handling, leaving, answered
  request,   \* [endpoint, key, valid]: the key is right, the parameters are valid; or None
  outcome,   \* of each request, an answer or an exception, or None
  active,    \* sentiment_active_requests
  recorded,  \* sentiment_requests_total, by status
  arrivals,  \* requests so far
  \* history
  answered,  \* answers to requests that the metrics see, by status
  dropped,   \* requests that were cancelled
  handled    \* requests whose handler did its work

vars == <<world, pc, request, outcome, active, recorded, arrivals, answered, dropped, handled>>

Statuses == {200, 201, 400, 401, 404, 422, 500, 503}

Answer(status) == [kind |-> "answer", what |-> status]
Raise(class) == [kind |-> "exception", what |-> class]

Requests == [endpoint : Endpoints, key : BOOLEAN, valid : BOOLEAN]
Endings == {Answer(s) : s \in Statuses} \union {Raise(c) : c \in Class \union {"Exception"}}

ApiAssumption ==
  /\ IsFiniteSet(Calls) /\ MayAsk \in [Calls -> SUBSET Endpoints] /\ MaxRequests \in Nat
  /\ None \notin Requests \union Endings

TypeOK ==
  /\ world \in Worlds
  /\ pc \in [Calls -> {"idle", "resolving", "handling", "leaving", "answered"}]
  /\ request \in [Calls -> Requests \union {None}]
  /\ \A c \in Calls :
       /\ request[c] = None <=> pc[c] = "idle"
       /\ outcome[c] # None <=> pc[c] \in {"leaving", "answered"}
  /\ active \in 0 .. Cardinality(Calls)
  /\ recorded \in [Statuses -> 0 .. MaxRequests] /\ answered \in [Statuses -> 0 .. MaxRequests]
  /\ arrivals \in 0 .. MaxRequests /\ dropped \in 0 .. MaxRequests
  /\ handled \subseteq Calls

Init ==
  /\ world \in Worlds
  /\ pc = [c \in Calls |-> "idle"]
  /\ request = [c \in Calls |-> None]
  /\ outcome = [c \in Calls |-> None]
  /\ active = 0 /\ arrivals = 0 /\ dropped = 0 /\ handled = {}
  /\ recorded = [s \in Statuses |-> 0] /\ answered = [s \in Statuses |-> 0]

-----------------------------------------------------------------------------
(* Middleware *)

\* APIKeyAuthMiddleware compares the beginnings of paths, /api/v1 without debug.
Exempt(e) ==
  \/ e \in {"openapi", "preflight"}
  \/ world.debug /\ e \in {"metrics", "metrics json", "health", "health details", "ready"}

Authorized(c) == ~world.api_key \/ Exempt(request[c].endpoint) \/ request[c].key

\* MetricsMiddleware leaves out /metrics.
Seen(e) == ~(e = "metrics" /\ world.debug)

Leaves(c, what) ==
  pc' = [pc EXCEPT ![c] = "leaving"] /\ outcome' = [outcome EXCEPT ![c] = what]

\* A key or invalid parameters make no difference where nobody looks at them.
Arrive(c, e, key, valid) ==
  /\ (key \/ world.api_key) /\ (valid \/ e \in TakesInput)
  /\ pc[c] = "idle" /\ arrivals < MaxRequests
  /\ request' = [request EXCEPT ![c] = [endpoint |-> e, key |-> key, valid |-> valid]]
  /\ active' = IF Seen(e) THEN active + 1 ELSE active
  /\ pc' = [pc EXCEPT ![c] = "resolving"]
  /\ arrivals' = arrivals + 1
  /\ UNCHANGED <<world, outcome, recorded, answered, dropped, handled>>

-----------------------------------------------------------------------------
(* Dependencies *)

\* get_model_service, asked for by these endpoints
NeedsModel ==
  BatchEndpoints \union {"predict", "batch metrics", "model info", "health", "health details",
                      "ready", "metrics json"}

NoModel ==
  CASE world.model = "unsupported" -> Raise("UnsupportedBackendError")
    [] world.model = "broken" -> Raise("ModelInitializationError")
    [] OTHER -> None

\* require_service
NoBatchService == IF world.optional = "running" THEN None ELSE Answer(503)

\* get_async_batch_service of the monitoring routes
NoBatchMonitor ==
  CASE world.optional = "off" -> Answer(404)
    [] world.optional = "absent" -> Answer(503)
    [] OTHER -> None

\* The first dependency of e that fails, or None.
Unmet(e) ==
  IF e \in NeedsModel /\ NoModel # None THEN NoModel
  ELSE CASE e \in BatchEndpoints -> NoBatchService
         [] e = "async batch metrics" -> NoBatchMonitor
         [] OTHER -> None

\* Dependencies are resolved before invalid parameters are answered.
Resolve(c) ==
  /\ pc[c] = "resolving"
  /\ LET e == request[c].endpoint
     IN CASE ~Authorized(c) -> Leaves(c, Answer(401))
          [] Authorized(c) /\ Unmet(e) # None -> Leaves(c, Unmet(e))
          [] Authorized(c) /\ Unmet(e) = None /\ e \in TakesInput /\ ~request[c].valid ->
               Leaves(c, Answer(422))
          [] OTHER -> pc' = [pc EXCEPT ![c] = "handling"] /\ UNCHANGED outcome
  /\ UNCHANGED <<world, request, active, recorded, arrivals, answered, dropped, handled>>

-----------------------------------------------------------------------------
(* Handlers: what each may end in *)

\* handle_operation_error, handle_model_info_error and their like: any failure is a 500.
Failure == Answer(500)

\* predict_sentiment: whatever the service raises but ModelNotLoadedError is a 500.
Prediction ==
  IF world.model = "not ready" THEN {Raise("ModelNotLoadedError")} ELSE {Answer(200), Failure}

SubmitBatch == {Answer(200), Failure}
BatchStatus == {Answer(200), Answer(404), Failure}
BatchResults == {Answer(200), Answer(404), Failure}
CancelBatch == {Answer(200), Answer(404), Failure}
BatchQueue == {Answer(200), Failure}
BatchMetrics == IF NoBatchService # None THEN {NoBatchService} ELSE {Answer(200), Failure}
ModelInfo == {Answer(200), Failure}
Feedback == {Answer(201), Answer(503)}

\* The two health endpoints answer 200 whatever they say; readiness does not.
Ready == IF world.model = "ready" THEN {Answer(200)} ELSE {Raise("ServiceUnavailableError")}

PrometheusMetrics == IF world.optional = "off" THEN {Answer(404)} ELSE {Answer(200), Failure}
MetricsJson == {Answer(200), Failure}
KafkaMetrics ==
  CASE world.optional = "off" -> {Answer(404)}
    [] world.optional = "absent" -> {Answer(503)}
    [] OTHER -> {Answer(200), Raise("Exception")}
AsyncBatchMetrics == {Answer(200), Failure}

\* require_initialized, and what the component does: an exception is nobody's business.
WithComponent(answers) ==
  IF world.optional = "absent" THEN {Answer(503)} ELSE answers \union {Raise("Exception")}

\* The summaries say that a component is off or absent.
Summary == {Answer(200)} \union (IF world.optional = "running" THEN {Raise("Exception")} ELSE {})

DriftAction == WithComponent({Answer(200)})
DriftReport == WithComponent({Answer(200), Answer(400)})
Kpis == WithComponent({Answer(200)})
Production == WithComponent({Answer(200), Answer(404)})
Versions == WithComponent({Answer(200)})
ExplainHtml == WithComponent({Answer(200)})

Outcomes(e) ==
  CASE e = "predict" -> Prediction
    [] e = "batch submit" -> SubmitBatch
    [] e = "batch status" -> BatchStatus
    [] e = "batch results" -> BatchResults
    [] e = "batch cancel" -> CancelBatch
    [] e = "batch queue" -> BatchQueue
    [] e = "batch metrics" -> BatchMetrics
    [] e = "model info" -> ModelInfo
    [] e = "feedback" -> Feedback
    [] e = "ready" -> Ready
    [] e = "metrics" -> PrometheusMetrics
    [] e = "metrics json" -> MetricsJson
    [] e = "kafka metrics" -> KafkaMetrics
    [] e = "async batch metrics" -> AsyncBatchMetrics
    [] e \in {"drift", "models", "explain"} -> Summary
    [] e = "drift action" -> DriftAction
    [] e = "drift report" -> DriftReport
    [] e = "kpis" -> Kpis
    [] e = "production" -> Production
    [] e = "versions" -> Versions
    [] e = "explain html" -> ExplainHtml
    [] e = "unknown" -> {Answer(404)}
    [] e = "preflight" -> {Answer(200), Answer(400)}
    [] OTHER -> {Answer(200)}

Handle(c) ==
  /\ pc[c] = "handling"
  /\ \E what \in Outcomes(request[c].endpoint) : Leaves(c, what)
  /\ handled' = handled \union {c}
  /\ UNCHANGED <<world, request, active, recorded, arrivals, answered, dropped>>

-----------------------------------------------------------------------------
(* The way out *)

\* What the metrics see of an exception is an exception.
RecordedStatus(what) == IF what.kind = "answer" THEN what.what ELSE 500

\* The handler for Exception is outside of all middleware, and not used with debug.
AnsweredStatus(what) ==
  CASE what.kind = "answer" -> what.what
    [] what.kind = "exception" /\ ~world.debug /\ what.what \in Class -> StatusOf[what.what]
    [] OTHER -> 500

\* mutant
OnlyAfterAnswers(c) == IF outcome[c] # None /\ outcome[c].kind = "answer" THEN active - 1 ELSE active

\* The gauge after a request that was counted, however it ends.
ActiveAfter(c) == active - 1

Leave(c) ==
  /\ pc[c] = "leaving"
  /\ LET s == RecordedStatus(outcome[c])
         a == AnsweredStatus(outcome[c])
     IN IF Seen(request[c].endpoint)
        THEN /\ recorded' = [recorded EXCEPT ![s] = @ + 1]
             /\ answered' = [answered EXCEPT ![a] = @ + 1]
             /\ active' = ActiveAfter(c)
        ELSE UNCHANGED <<recorded, answered, active>>
  /\ pc' = [pc EXCEPT ![c] = "answered"]
  /\ UNCHANGED <<world, request, outcome, arrivals, dropped, handled>>

Ends(c) ==
  /\ pc' = [pc EXCEPT ![c] = "idle"]
  /\ request' = [request EXCEPT ![c] = None]
  /\ outcome' = [outcome EXCEPT ![c] = None]
  /\ handled' = handled \ {c}

\* The client has its answer.
Finish(c) ==
  /\ pc[c] = "answered"
  /\ Ends(c)
  /\ UNCHANGED <<world, active, recorded, arrivals, answered, dropped>>

\* A server that is told to stop at once cancels the task of a request: no Exception.
Cancel(c) ==
  /\ pc[c] \in {"resolving", "handling"}
  /\ IF Seen(request[c].endpoint)
     THEN active' = ActiveAfter(c) /\ dropped' = dropped + 1
     ELSE UNCHANGED <<active, dropped>>
  /\ Ends(c)
  /\ UNCHANGED <<world, recorded, arrivals, answered>>

Next ==
  \E c \in Calls :
    \/ \E e \in MayAsk[c], key \in BOOLEAN, valid \in BOOLEAN : Arrive(c, e, key, valid)
    \/ Resolve(c) \/ Handle(c) \/ Leave(c) \/ Finish(c) \/ Cancel(c)

Spec == Init /\ [][Next]_vars

-----------------------------------------------------------------------------
(* Properties *)

Counted(c) == pc[c] \in {"resolving", "handling", "leaving"} /\ Seen(request[c].endpoint)
Total(count) == MapThenSumSet(LAMBDA s : count[s], Statuses)

\* Through exceptions, refusals and cancellations of overlapping requests the gauge is
\* the number of requests inside (middleware/metrics.py:24-59).
ActiveIsExact == active = Cardinality({c \in Calls : Counted(c)})

\* Every answer is recorded once; a success is recorded as that success, and only what
\* was raised may be recorded as 500 while the client sees another status.
AnswersAreRecorded ==
  /\ Total(recorded) = Total(answered)
  /\ \A s \in Statuses \ {500} : recorded[s] <= answered[s]
  /\ \A s \in {200, 201, 401, 422} : recorded[s] = answered[s]

\* The handler of a request that is refused for its key, its parameters or a dependency
\* has done nothing, and no 503 is answered by a process that has what was asked for.
AnswersHaveReasons ==
  \A c \in Calls : pc[c] = "answered" =>
    LET s == AnsweredStatus(outcome[c])
        e == request[c].endpoint
    IN /\ s \in {401, 422} => c \notin handled
       /\ s \in {200, 201} => c \in handled /\ Unmet(e) = None /\ Authorized(c)
       /\ (s = 503 /\ e # "feedback") => world.model = "not ready" \/ world.optional # "running"

\* The gauge, the counters and the answers of requests agree, and answers have reasons.
RequestsAreAnswered == ActiveIsExact /\ AnswersAreRecorded /\ AnswersHaveReasons

\* main.py:153-155, "custom `ServiceError` exceptions, which have a defined status code
\* and error code": not with debug, where the handler is not used (README, section 6).
ServiceErrorsKeepStatus ==
  \A c \in Calls :
    (pc[c] = "answered" /\ outcome[c].kind = "exception" /\ outcome[c].what \in Class)
      => AnsweredStatus(outcome[c]) = StatusOf[outcome[c].what]

\* middleware/auth.py:48, "Paths to skip authentication (public endpoints)": not when the
\* routes are under /api/v1 (README, section 6).
HealthIsPublic ==
  \A c \in Calls : (pc[c] = "answered" /\ request[c].endpoint = "health")
    => AnsweredStatus(outcome[c]) # 401

\* correlation.py:25-29, "every request has a unique correlation ID ... and is included in
\* the response headers": not when the key is refused, or on an exception, both of which
\* are answered outside of that middleware (README, section 6).
EveryAnswerIsCorrelated ==
  \A c \in Calls : pc[c] = "answered" =>
    outcome[c].kind = "answer" /\ Authorized(c)

==============================================================================
