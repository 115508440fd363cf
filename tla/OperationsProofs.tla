---------------------------- MODULE OperationsProofs ----------------------------
(***************************************************************************)
(* Proofs about Operations, for every value of the constants.  The         *)
(* requests, the indicators and the health report get their inductive      *)
(* invariants here, in the same three lemmas each; those of the components *)
(* of Administration come from AdministrationProofs.  A behaviour follows  *)
(* one component and leaves the others as they are, so all the invariants  *)
(* hold together.                                                          *)
(***************************************************************************)
EXTENDS Operations, AdministrationProofs, SequenceTheorems

-----------------------------------------------------------------------------
(*****************************************************************************)
(* The catalogue of errors.  A class has the status it declares or the one   *)
(* its parent does, so the statuses that are raised are known for every      *)
(* class.                                                                    *)
(*****************************************************************************)
\* The classes by their group, and what they inherit from.
LEMMA ErrorDomains ==
  /\ DOMAIN Api!Declared =
       {"ServiceError", "ValidationError", "AuthenticationError", "NotFoundError", "ConflictError",
        "InternalError", "ServiceUnavailableError", "ModelError", "ModelNotLoadedError",
        "ModelInferenceError", "ConfigurationError", "SecretsError", "ModelLoadingError"}
  /\ DOMAIN Api!GeneralErrors =
       {"ValidationError", "AuthenticationError", "NotFoundError", "ConflictError",
        "InternalError", "ServiceUnavailableError"}
  /\ DOMAIN Api!ModelErrors =
       {"ModelError", "ModelNotLoadedError", "ModelInferenceError", "InvalidModelError"}
  /\ DOMAIN Api!InputErrors =
       {"TextValidationError", "BatchSizeExceededError", "EmptyBatchError", "TextTooLongError",
        "TextEmptyError"}
  /\ DOMAIN Api!ConfigurationErrors =
       {"ConfigurationError", "SecurityConfigError", "ModelConfigError", "SettingsValidationError"}
  /\ DOMAIN Api!SecretsErrors =
       {"SecretsError", "VaultAuthenticationError", "KubernetesAuthenticationError",
        "InvalidSecretsConfigError"}
  /\ DOMAIN Api!LoadingErrors =
       {"ModelLoadingError", "ModelInitializationError", "ModelCachingError", "ModelExportError",
        "ModelMetadataNotFoundError", "InvalidModelPathError", "UnsupportedBackendError"}
  /\ DOMAIN Api!FeatureErrors =
       {"FeatureMismatchError", "UnfittedScalerError", "InvalidScalerStateError",
        "ScalerStatePersistenceError"}
  /\ DOMAIN Api!AsyncErrors =
       {"AsyncContextError", "ServiceNotStartedError", "HealthCheckError", "TracingError",
        "QueueCapacityExceededError", "CircuitBreakerOpenError"}
  BY DEF Api!Declared, Api!GeneralErrors, Api!ModelErrors, Api!InputErrors,
         Api!ConfigurationErrors, Api!SecretsErrors, Api!LoadingErrors, Api!FeatureErrors,
         Api!AsyncErrors

\* A class whose status is declared, by itself or by its parent.
DeclaredOrChild(c) ==
  c \in DOMAIN Api!Declared \/ (c \in Api!Class /\ Api!ParentOf(c) \in DOMAIN Api!Declared)

LEMMA ParentsDeclare ==
  ASSUME NEW c \in Api!Class, c \notin DOMAIN Api!Declared
  PROVE  Api!ParentOf(c) \in Api!Class /\ DeclaredOrChild(Api!ParentOf(c))
  <1>1. DOMAIN Api!Declared \subseteq Api!Class /\ "TextValidationError" \in Api!Class
    BY ErrorDomains DEF Api!Class
  <1>2. CASE c \in DOMAIN Api!ModelErrors
    <2>1. c = "InvalidModelError"
      BY <1>2, ErrorDomains
    <2>2. Api!ParentOf(c) = "ValidationError"
      BY <2>1, ErrorDomains DEF Api!ParentOf, Api!ModelErrors
    <2> QED BY <1>1, <2>2, ErrorDomains DEF DeclaredOrChild
  <1>3. CASE c \in DOMAIN Api!InputErrors
    <2>1. Api!ParentOf(c) \in {"ValidationError", "TextValidationError"}
      BY <1>3, ErrorDomains DEF Api!ParentOf, Api!InputErrors
    <2>2. Api!ParentOf("TextValidationError") = "ValidationError"
      BY ErrorDomains DEF Api!ParentOf, Api!InputErrors
    <2> QED BY <1>1, <2>1, <2>2, ErrorDomains DEF DeclaredOrChild
  <1>4. CASE c \in DOMAIN Api!ConfigurationErrors
    <2>1. Api!ParentOf(c) = "ConfigurationError"
      BY <1>4, ErrorDomains DEF Api!ParentOf, Api!ConfigurationErrors
    <2> QED BY <1>1, <2>1, ErrorDomains DEF DeclaredOrChild
  <1>5. CASE c \in DOMAIN Api!SecretsErrors
    <2>1. Api!ParentOf(c) \in {"AuthenticationError", "ValidationError"}
      BY <1>5, ErrorDomains DEF Api!ParentOf, Api!SecretsErrors
    <2> QED BY <1>1, <2>1, ErrorDomains DEF DeclaredOrChild
  <1>6. CASE c \in DOMAIN Api!LoadingErrors
    <2>1. Api!ParentOf(c) \in {"InternalError", "NotFoundError", "ValidationError"}
      BY <1>6, ErrorDomains DEF Api!ParentOf, Api!LoadingErrors
    <2> QED BY <1>1, <2>1, ErrorDomains DEF DeclaredOrChild
  <1>7. CASE c \in DOMAIN Api!FeatureErrors
    <2>1. Api!ParentOf(c) \in {"InternalError", "ValidationError"}
      BY <1>7, ErrorDomains DEF Api!ParentOf, Api!FeatureErrors
    <2> QED BY <1>1, <2>1, ErrorDomains DEF DeclaredOrChild
  <1>8. CASE c \in DOMAIN Api!AsyncErrors
    <2>1. Api!ParentOf(c) \in {"InternalError", "ServiceUnavailableError"}
      BY <1>8, ErrorDomains DEF Api!ParentOf, Api!AsyncErrors
    <2> QED BY <1>1, <2>1, ErrorDomains DEF DeclaredOrChild
  <1> QED BY <1>2, <1>3, <1>4, <1>5, <1>6, <1>7, <1>8 DEF Api!Class

LEMMA StatusIsInherited ==
  \A c \in Api!Class : Api!StatusOf[c] =
    IF c \in DOMAIN Api!Declared THEN Api!Declared[c] ELSE Api!StatusOf[Api!ParentOf(c)]
  <1> DEFINE D == Api!Declared
             Up(c) == Api!ParentOf(c)
             Is(f) == f = [c \in Api!Class |-> IF c \in DOMAIN D THEN D[c] ELSE f[Up(c)]]
             g == [c \in Api!Class |->
                     IF c \in DOMAIN D THEN D[c]
                     ELSE IF Up(c) \in DOMAIN D THEN D[Up(c)] ELSE D[Up(Up(c))]]
             F == CHOOSE f : Is(f)
  <1>1. Api!StatusOf = F
    BY DEF Api!StatusOf
  <1>2. \A c \in Api!Class : c \notin DOMAIN D => Up(c) \in Api!Class /\ DeclaredOrChild(Up(c))
    BY ParentsDeclare
  <1> HIDE DEF Up, D
  <1>3. Is(g)
    <2>1. ASSUME NEW c \in Api!Class
          PROVE  g[c] = IF c \in DOMAIN D THEN D[c] ELSE g[Up(c)]
      <3>1. CASE c \in DOMAIN D
        BY <3>1
      <3>2. CASE c \notin DOMAIN D
        <4>1. Up(c) \in Api!Class /\ (Up(c) \in DOMAIN D \/ Up(Up(c)) \in DOMAIN D)
          BY <1>2, <3>2 DEF DeclaredOrChild, Up, D
        <4> QED BY <3>2, <4>1
      <3> QED BY <3>1, <3>2
    <2>2. g = [c \in Api!Class |-> g[c]]
      OBVIOUS
    <2> HIDE DEF g
    <2> QED BY <2>1, <2>2
  <1>4. Is(F)
    <2> HIDE DEF Is, g
    <2> QED BY <1>3
  <1>5. \A c \in Api!Class : F[c] = IF c \in DOMAIN D THEN D[c] ELSE F[Up(c)]
    <2> HIDE DEF F
    <2> QED BY <1>4
  <1> HIDE DEF F
  <1> QED BY <1>1, <1>5 DEF D, Up

LEMMA StatusesRaised ==
  /\ {"UnsupportedBackendError", "ModelInitializationError", "ModelNotLoadedError",
      "ServiceUnavailableError"} \subseteq Api!Class
  /\ Api!StatusOf["UnsupportedBackendError"] = 400
  /\ Api!StatusOf["ModelInitializationError"] = 500
  /\ Api!StatusOf["ModelNotLoadedError"] = 503
  /\ Api!StatusOf["ServiceUnavailableError"] = 503
  /\ "Exception" \notin Api!Class
  <1>1. /\ {"UnsupportedBackendError", "ModelInitializationError", "ModelNotLoadedError",
            "ServiceUnavailableError", "ValidationError", "InternalError"} \subseteq Api!Class
        /\ "Exception" \notin Api!Class
    BY ErrorDomains DEF Api!Class
  <1>2. /\ "UnsupportedBackendError" \notin DOMAIN Api!Declared
        /\ "ModelInitializationError" \notin DOMAIN Api!Declared
        /\ {"ModelNotLoadedError", "ServiceUnavailableError", "ValidationError", "InternalError"}
             \subseteq DOMAIN Api!Declared
    BY ErrorDomains
  <1>3. /\ Api!ParentOf("UnsupportedBackendError") = "ValidationError"
        /\ Api!ParentOf("ModelInitializationError") = "InternalError"
    BY ErrorDomains DEF Api!ParentOf, Api!LoadingErrors
  <1>4. /\ Api!Declared["ModelNotLoadedError"] = 503 /\ Api!Declared["ServiceUnavailableError"] = 503
        /\ Api!Declared["ValidationError"] = 400 /\ Api!Declared["InternalError"] = 500
    BY DEF Api!Declared
  <1>5. /\ Api!StatusOf["ModelNotLoadedError"] = 503 /\ Api!StatusOf["ServiceUnavailableError"] = 503
        /\ Api!StatusOf["ValidationError"] = 400 /\ Api!StatusOf["InternalError"] = 500
    BY <1>1, <1>2, <1>4, StatusIsInherited
  <1>6. /\ Api!StatusOf["UnsupportedBackendError"] = 400
        /\ Api!StatusOf["ModelInitializationError"] = 500
    BY <1>1, <1>2, <1>3, <1>5, StatusIsInherited
  <1> QED BY <1>1, <1>5, <1>6

-----------------------------------------------------------------------------
(*****************************************************************************)
(* The answers of the handlers.  Each status has a cause in the state of     *)
(* the process, whichever handler gave it and whatever the middleware        *)
(* makes of it.                                                              *)
(*****************************************************************************)
LEMMA ApiConstants ==
  /\ IsFiniteSet(Calls) /\ MayAsk \in [Calls -> SUBSET Api!Endpoints] /\ MaxRequests \in Nat
  /\ None \notin Api!Requests /\ None \notin Api!Endings
  <1>1. Api!ApiAssumption
    BY Assumptions
  <1>2. Api!IsFiniteSet(Calls)
    BY <1>1 DEF Api!ApiAssumption
  <1> QED BY <1>1, <1>2 DEF Api!ApiAssumption, Api!IsFiniteSet, IsFiniteSet

\* What handlers end in, and why.
HandlerReason(e, what) ==
  \/ what \in {Api!Answer(200), Api!Answer(201), Api!Answer(400), Api!Answer(404), Api!Answer(500),
               Api!Raise("Exception")}
  \/ what = Api!Raise("ModelNotLoadedError") /\ world.model = "not ready"
  \/ what = Api!Answer(503) /\ (e = "feedback" \/ world.optional # "running")
  \/ what = Api!Raise("ServiceUnavailableError") /\ e = "ready" /\ world.model # "ready"

LEMMA HandlersHaveReasons ==
  ASSUME NEW e, NEW what \in Api!Outcomes(e)
  PROVE  HandlerReason(e, what)
  <1>1. \/ e = "predict" /\ what \in Api!Prediction
        \/ what \in Api!SubmitBatch \union Api!BatchStatus \union Api!BatchResults
                     \union Api!CancelBatch \union Api!BatchQueue
        \/ what \in Api!BatchMetrics
        \/ what \in Api!ModelInfo
        \/ e = "feedback" /\ what \in Api!Feedback
        \/ e = "ready" /\ what \in Api!Ready
        \/ what \in Api!PrometheusMetrics \union Api!MetricsJson \union Api!KafkaMetrics
                     \union Api!AsyncBatchMetrics
        \/ what \in Api!Summary
        \/ what \in Api!DriftAction \union Api!DriftReport \union Api!Kpis \union Api!Production
                     \union Api!Versions \union Api!ExplainHtml
        \/ what = Api!Answer(200) \/ what = Api!Answer(400) \/ what = Api!Answer(404)
    BY ZenonT(60) DEF Api!Outcomes
  <1> USE DEF HandlerReason, Api!Failure
  <1>2. CASE e = "predict" /\ what \in Api!Prediction
    BY <1>2 DEF Api!Prediction
  <1>3. CASE what \in Api!SubmitBatch \union Api!BatchStatus \union Api!BatchResults
                      \union Api!CancelBatch \union Api!BatchQueue
    BY <1>3, ZenonT(60) DEF Api!SubmitBatch, Api!BatchStatus, Api!BatchResults, Api!CancelBatch, Api!BatchQueue
  <1>4. CASE what \in Api!BatchMetrics
    BY <1>4 DEF Api!BatchMetrics, Api!NoBatchService
  <1>5. CASE what \in Api!ModelInfo
    BY <1>5 DEF Api!ModelInfo
  <1>6. CASE e = "feedback" /\ what \in Api!Feedback
    BY <1>6 DEF Api!Feedback
  <1>7. CASE e = "ready" /\ what \in Api!Ready
    BY <1>7 DEF Api!Ready
  <1>8. CASE what \in Api!PrometheusMetrics \union Api!MetricsJson \union Api!KafkaMetrics
                      \union Api!AsyncBatchMetrics
    <2>1. CASE what \in Api!PrometheusMetrics
      BY <2>1, Zenon DEF Api!PrometheusMetrics
    <2>2. CASE what \in Api!MetricsJson \union Api!AsyncBatchMetrics
      BY <2>2, Zenon DEF Api!MetricsJson, Api!AsyncBatchMetrics
    <2>3. CASE what \in Api!KafkaMetrics
      <3>1. \/ world.optional = "off" /\ what = Api!Answer(404)
            \/ world.optional = "absent" /\ what = Api!Answer(503)
            \/ what = Api!Answer(200) \/ what = Api!Raise("Exception")
        BY <2>3 DEF Api!KafkaMetrics
      <3>2. "absent" # "running"
        OBVIOUS
      <3> QED BY <3>1, <3>2, Zenon
    <2> QED BY <1>8, <2>1, <2>2, <2>3, Zenon
  <1>9. CASE what \in Api!Summary
    BY <1>9 DEF Api!Summary
  <1>10. CASE what \in Api!DriftAction \union Api!DriftReport \union Api!Kpis \union Api!Production
                       \union Api!Versions \union Api!ExplainHtml
    <2>1. \/ world.optional = "absent" /\ what = Api!Answer(503)
          \/ what \in {Api!Answer(200), Api!Answer(400), Api!Answer(404), Api!Raise("Exception")}
      <3>1. PICK answers \in {{Api!Answer(200)}, {Api!Answer(200), Api!Answer(400)},
                             {Api!Answer(200), Api!Answer(404)}} :
              what \in Api!WithComponent(answers)
        BY <1>10 DEF Api!DriftAction, Api!DriftReport, Api!Kpis, Api!Production, Api!Versions,
                     Api!ExplainHtml
      <3> QED BY <3>1 DEF Api!WithComponent
    <2>2. "absent" # "running"
      OBVIOUS
    <2> QED BY <2>1, <2>2, Zenon
  <1> QED BY <1>1, <1>2, <1>3, <1>4, <1>5, <1>6, <1>7, <1>8, <1>9, <1>10

\* What an ending comes to: what is recorded and what is answered.
LEMMA AnswersAre ==
  ASSUME NEW s \in Api!Statuses
  PROVE  /\ Api!Answer(s) \in Api!Endings
         /\ Api!RecordedStatus(Api!Answer(s)) = s /\ Api!AnsweredStatus(Api!Answer(s)) = s
  BY DEF Api!Answer, Api!Endings, Api!RecordedStatus, Api!AnsweredStatus

LEMMA ExceptionsAre ==
  /\ \A c \in Api!Class \union {"Exception"} :
       /\ Api!Raise(c) \in Api!Endings /\ Api!RecordedStatus(Api!Raise(c)) = 500
       /\ Api!AnsweredStatus(Api!Raise(c)) =
            IF ~world.debug /\ c \in Api!Class THEN Api!StatusOf[c] ELSE 500
  BY DEF Api!Raise, Api!Endings, Api!RecordedStatus, Api!AnsweredStatus

\* The status of an ending, and what explains it.
ExplainedBy(s, r, e) ==
  /\ s \in Api!Statuses /\ r \in Api!Statuses
  /\ r = s \/ (r = 500 /\ (s = 400 \/ s = 503))
  /\ (s = 503 /\ e # "feedback") => world.model = "not ready" \/ world.optional # "running"

\* The statuses of an ending, answered and recorded, are explained.
Explained(what, e) ==
  /\ what \in Api!Endings
  /\ ExplainedBy(Api!AnsweredStatus(what), Api!RecordedStatus(what), e)

LEMMA StatusesHold ==
  /\ 200 \in Api!Statuses /\ 201 \in Api!Statuses /\ 400 \in Api!Statuses /\ 401 \in Api!Statuses
  /\ 404 \in Api!Statuses /\ 422 \in Api!Statuses /\ 500 \in Api!Statuses /\ 503 \in Api!Statuses
  BY DEF Api!Statuses

LEMMA AnswerIsExplained ==
  ASSUME NEW s \in Api!Statuses, NEW e, ExplainedBy(s, s, e)
  PROVE  Explained(Api!Answer(s), e)
  <1>1. /\ Api!Answer(s) \in Api!Endings
        /\ Api!RecordedStatus(Api!Answer(s)) = s /\ Api!AnsweredStatus(Api!Answer(s)) = s
    BY AnswersAre
  <1> QED BY <1>1 DEF Explained

LEMMA ExceptionIsExplained ==
  ASSUME NEW c \in Api!Class \union {"Exception"}, NEW e,
         ExplainedBy(500, 500, e),
         c \in Api!Class => ExplainedBy(Api!StatusOf[c], 500, e)
  PROVE  Explained(Api!Raise(c), e)
  <1>1. /\ Api!Raise(c) \in Api!Endings /\ Api!RecordedStatus(Api!Raise(c)) = 500
        /\ Api!AnsweredStatus(Api!Raise(c)) =
            IF ~world.debug /\ c \in Api!Class THEN Api!StatusOf[c] ELSE 500
    BY ExceptionsAre
  <1>2. CASE ~world.debug /\ c \in Api!Class
    BY <1>1, <1>2 DEF Explained
  <1>3. CASE ~(~world.debug /\ c \in Api!Class)
    BY <1>1, <1>3 DEF Explained
  <1> QED BY <1>2, <1>3

LEMMA ErrorIsExplained == \A e : ExplainedBy(500, 500, e)
  BY StatusesHold DEF ExplainedBy

LEMMA RefusalIsExplained ==
  ASSUME NEW e, NEW s \in Nat, s = 401 \/ s = 404 \/ s = 422 \/ s = 503,
         s = 503 => world.optional # "running"
  PROVE  Explained(Api!Answer(s), e)
  <1>1. s \in Api!Statuses
    BY StatusesHold
  <1>2. ExplainedBy(s, s, e)
    BY <1>1 DEF ExplainedBy
  <1> QED BY <1>1, <1>2, AnswerIsExplained

LEMMA NoModelIsExplained ==
  ASSUME NEW e, Api!NoModel # None
  PROVE  Explained(Api!NoModel, e)
  <1>1. \/ Api!NoModel = Api!Raise("UnsupportedBackendError")
        \/ Api!NoModel = Api!Raise("ModelInitializationError")
    BY DEF Api!NoModel
  <1>2. ExplainedBy(400, 500, e)
    BY StatusesHold DEF ExplainedBy
  <1>3. /\ Explained(Api!Raise("UnsupportedBackendError"), e)
        /\ Explained(Api!Raise("ModelInitializationError"), e)
    BY <1>2, ErrorIsExplained, ExceptionIsExplained, StatusesRaised
  <1> QED BY <1>1, <1>3

LEMMA UnmetIsExplained ==
  ASSUME NEW e, Api!Unmet(e) # None
  PROVE  Explained(Api!Unmet(e), e)
  <1>1. \/ Api!Unmet(e) = Api!NoModel /\ Api!NoModel # None
        \/ Api!Unmet(e) = Api!NoBatchService
        \/ Api!Unmet(e) = Api!NoBatchMonitor
    BY DEF Api!Unmet, Api!BatchEndpoints
  <1>2. CASE Api!Unmet(e) = Api!NoModel /\ Api!NoModel # None
    BY <1>2, NoModelIsExplained
  <1>3. CASE Api!Unmet(e) = Api!NoBatchService
    <2>1. Api!NoBatchService = Api!Answer(503) /\ world.optional # "running"
      BY <1>3 DEF Api!NoBatchService
    <2>2. Explained(Api!Answer(503), e)
      BY <2>1, RefusalIsExplained
    <2> QED BY <1>3, <2>1, <2>2
  <1>4. CASE Api!Unmet(e) = Api!NoBatchMonitor
    <2>1. \/ Api!NoBatchMonitor = Api!Answer(503) /\ world.optional # "running"
          \/ Api!NoBatchMonitor = Api!Answer(404)
      BY <1>4 DEF Api!NoBatchMonitor
    <2>2. /\ Explained(Api!Answer(404), e)
          /\ world.optional # "running" => Explained(Api!Answer(503), e)
      BY RefusalIsExplained
    <2> QED BY <1>4, <2>1, <2>2
  <1> QED BY <1>1, <1>2, <1>3, <1>4

LEMMA HandlingIsExplained ==
  ASSUME world \in Api!Worlds, NEW e, Api!Unmet(e) = None, NEW what \in Api!Outcomes(e)
  PROVE  Explained(what, e)
  <1>1. HandlerReason(e, what)
    BY HandlersHaveReasons
  <1>2. ASSUME NEW s \in Nat, s = 200 \/ s = 201 \/ s = 400 \/ s = 404 \/ s = 500, what = Api!Answer(s)
        PROVE  Explained(what, e)
    <2>1. s \in Api!Statuses /\ s # 503
      BY <1>2, StatusesHold
    <2>2. ExplainedBy(s, s, e)
      BY <2>1 DEF ExplainedBy
    <2> QED BY <1>2, <2>1, <2>2, AnswerIsExplained
  <1>3. CASE what = Api!Answer(503) /\ (e = "feedback" \/ world.optional # "running")
    <2>1. ExplainedBy(503, 503, e) /\ 503 \in Api!Statuses
      BY <1>3, StatusesHold DEF ExplainedBy
    <2> QED BY <1>3, <2>1, AnswerIsExplained
  <1>4. CASE what = Api!Raise("Exception")
    <2>1. Explained(Api!Raise("Exception"), e)
      BY StatusesRaised, ErrorIsExplained, ExceptionIsExplained
    <2> QED BY <1>4, <2>1
  <1>5. world.model = "not ready" =>
          /\ Explained(Api!Raise("ModelNotLoadedError"), e)
          /\ Explained(Api!Raise("ServiceUnavailableError"), e)
    <2> HAVE world.model = "not ready"
    <2>1. ExplainedBy(503, 500, e)
      BY StatusesHold DEF ExplainedBy
    <2>2. /\ ExplainedBy(Api!StatusOf["ModelNotLoadedError"], 500, e)
          /\ ExplainedBy(Api!StatusOf["ServiceUnavailableError"], 500, e)
      BY <2>1, StatusesRaised
    <2>3. /\ "ModelNotLoadedError" \in Api!Class \union {"Exception"}
          /\ "ServiceUnavailableError" \in Api!Class \union {"Exception"}
      BY StatusesRaised
    <2> QED BY ONLY <2>2, <2>3, ErrorIsExplained, ExceptionIsExplained
  <1>6. (e = "ready" /\ world.model # "ready") => world.model = "not ready"
    <2> HAVE e = "ready" /\ world.model # "ready"
    <2>1. e \in Api!NeedsModel
      BY DEF Api!NeedsModel
    <2>2. Api!NoModel = None
      BY <2>1 DEF Api!Unmet
    <2>3. world.model \in {"ready", "not ready", "unsupported", "broken"}
      BY DEF Api!Worlds
    <2>4. /\ Api!Raise("UnsupportedBackendError") # None
          /\ Api!Raise("ModelInitializationError") # None
      BY ExceptionsAre, StatusesRaised, ApiConstants
    <2> QED BY <2>2, <2>3, <2>4 DEF Api!NoModel
  <1>7. CASE what \in {Api!Answer(200), Api!Answer(201), Api!Answer(400), Api!Answer(404),
                      Api!Answer(500)}
    <2>1. PICK s \in {200, 201, 400, 404, 500} : what = Api!Answer(s)
      BY <1>7
    <2>2. s \in Nat /\ (s = 200 \/ s = 201 \/ s = 400 \/ s = 404 \/ s = 500)
      BY <2>1
    <2> QED BY <1>2, <2>1, <2>2
  <1>8. CASE what = Api!Raise("ModelNotLoadedError") /\ world.model = "not ready"
    BY <1>5, <1>8
  <1>9. CASE what = Api!Raise("ServiceUnavailableError") /\ e = "ready" /\ world.model # "ready"
    BY <1>5, <1>6, <1>9
  <1>10. \/ what \in {Api!Answer(200), Api!Answer(201), Api!Answer(400), Api!Answer(404),
                      Api!Answer(500)}
         \/ what = Api!Raise("Exception")
         \/ what = Api!Raise("ModelNotLoadedError") /\ world.model = "not ready"
         \/ what = Api!Answer(503) /\ (e = "feedback" \/ world.optional # "running")
         \/ what = Api!Raise("ServiceUnavailableError") /\ e = "ready" /\ world.model # "ready"
    BY <1>1, Zenon DEF HandlerReason
  <1> QED BY <1>3, <1>4, <1>7, <1>8, <1>9, <1>10, Zenon

\* The handler of e refuses nobody, and what comes before it serves nobody.
LEMMA HandlingDoesNotRefuse ==
  ASSUME NEW e, NEW what \in Api!Outcomes(e)
  PROVE  Api!AnsweredStatus(what) # 401 /\ Api!AnsweredStatus(what) # 422
  <1>1. HandlerReason(e, what)
    BY HandlersHaveReasons
  <1>2. ASSUME NEW s \in Nat, s = 200 \/ s = 201 \/ s = 400 \/ s = 404 \/ s = 500 \/ s = 503,
               what = Api!Answer(s)
        PROVE  Api!AnsweredStatus(what) # 401 /\ Api!AnsweredStatus(what) # 422
    <2>1. s \in Api!Statuses /\ s # 401 /\ s # 422
      BY <1>2, StatusesHold
    <2> QED BY <1>2, <2>1, AnswersAre
  <1>3. ASSUME NEW c \in {"Exception", "ModelNotLoadedError", "ServiceUnavailableError"},
               what = Api!Raise(c)
        PROVE  Api!AnsweredStatus(what) # 401 /\ Api!AnsweredStatus(what) # 422
    <2>1. Api!AnsweredStatus(what) = 500 \/ Api!AnsweredStatus(what) = 503
      BY <1>3, ExceptionsAre, StatusesRaised
    <2> QED BY <2>1
  <1>4. CASE what \in {Api!Answer(200), Api!Answer(201), Api!Answer(400), Api!Answer(404),
                      Api!Answer(500)}
    <2>1. PICK s \in {200, 201, 400, 404, 500} : what = Api!Answer(s)
      BY <1>4
    <2>2. s \in Nat /\ (s = 200 \/ s = 201 \/ s = 400 \/ s = 404 \/ s = 500)
      BY <2>1
    <2> QED BY <1>2, <2>1, <2>2
  <1>5. CASE what = Api!Answer(503)
    <2>1. 503 \in Nat
      OBVIOUS
    <2> QED BY <1>2, <1>5, <2>1
  <1>6. CASE what = Api!Raise("Exception") \/ what = Api!Raise("ModelNotLoadedError")
             \/ what = Api!Raise("ServiceUnavailableError")
    BY <1>3, <1>6
  <1>7. \/ what \in {Api!Answer(200), Api!Answer(201), Api!Answer(400), Api!Answer(404),
                     Api!Answer(500)}
        \/ what = Api!Answer(503) \/ what = Api!Raise("Exception")
        \/ what = Api!Raise("ModelNotLoadedError") \/ what = Api!Raise("ServiceUnavailableError")
    BY <1>1, Zenon DEF HandlerReason
  <1> QED BY <1>4, <1>5, <1>6, <1>7, Zenon

LEMMA ResolvingDoesNotServe ==
  ASSUME NEW e, NEW what, \/ what = Api!Answer(401) \/ what = Api!Answer(422)
                          \/ (what = Api!Unmet(e) /\ what # None)
  PROVE  /\ Explained(what, e)
         /\ Api!AnsweredStatus(what) # 200 /\ Api!AnsweredStatus(what) # 201
  <1>1. ASSUME NEW s \in Nat, s = 401 \/ s = 404 \/ s = 422 \/ s = 503, what = Api!Answer(s)
        PROVE  Api!AnsweredStatus(what) # 200 /\ Api!AnsweredStatus(what) # 201
    <2>1. s \in Api!Statuses /\ s # 200 /\ s # 201
      BY <1>1, StatusesHold
    <2> QED BY <1>1, <2>1, AnswersAre
  <1>2. CASE what = Api!Answer(401) \/ what = Api!Answer(422)
    BY <1>1, <1>2, RefusalIsExplained
  <1>3. CASE what = Api!Unmet(e) /\ what # None
    <2>1. Explained(what, e)
      BY <1>3, UnmetIsExplained
    <2>2. \/ what = Api!NoModel \/ what = Api!NoBatchService \/ what = Api!NoBatchMonitor
      BY <1>3 DEF Api!Unmet, Api!BatchEndpoints
    <2>3. \/ what = Api!Answer(503) \/ what = Api!Answer(404)
          \/ what = Api!Raise("UnsupportedBackendError")
          \/ what = Api!Raise("ModelInitializationError")
      BY <1>3, <2>2 DEF Api!NoModel, Api!NoBatchService, Api!NoBatchMonitor
    <2>4. ASSUME NEW c \in {"UnsupportedBackendError", "ModelInitializationError"},
                 what = Api!Raise(c)
          PROVE  Api!AnsweredStatus(what) # 200 /\ Api!AnsweredStatus(what) # 201
      <3>1. Api!AnsweredStatus(what) = 400 \/ Api!AnsweredStatus(what) = 500
        BY <2>4, ExceptionsAre, StatusesRaised
      <3> QED BY <3>1
    <2> QED BY <1>1, <2>1, <2>3, <2>4
  <1> QED BY <1>2, <1>3

-----------------------------------------------------------------------------
(*****************************************************************************)
(* The requests.  Those inside are counted once each; every other that       *)
(* arrived was dropped or answered, and as many statuses were recorded as    *)
(* were answered.                                                            *)
(*****************************************************************************)
\* What is known of one request.
CallHolds(c) ==
  /\ request[c] = None <=> request_pc[c] = "idle"
  /\ outcome[c] # None <=> request_pc[c] \in {"leaving", "answered"}
  /\ request_pc[c] \in {"idle", "resolving", "handling"} => c \notin handled
  /\ request_pc[c] = "handling" => Api!Unmet(request[c].endpoint) = None /\ Api!Authorized(c)
  /\ request_pc[c] \in {"leaving", "answered"} =>
       /\ Explained(outcome[c], request[c].endpoint)
       /\ c \in handled =>
            /\ Api!Unmet(request[c].endpoint) = None /\ Api!Authorized(c)
            /\ Api!AnsweredStatus(outcome[c]) # 401 /\ Api!AnsweredStatus(outcome[c]) # 422
       /\ c \notin handled =>
            Api!AnsweredStatus(outcome[c]) # 200 /\ Api!AnsweredStatus(outcome[c]) # 201

\* The requests that are counted as active.
CountedCalls == {c \in Calls : Api!Counted(c)}

\* The types of the request's state.
ApiTypes ==
  /\ world \in Api!Worlds
  /\ request_pc \in [Calls -> {"idle", "resolving", "handling", "leaving", "answered"}]
  /\ request \in [Calls -> Api!Requests \union {None}]
  /\ outcome \in [Calls -> Api!Endings \union {None}]
  /\ handled \subseteq Calls
  /\ recorded \in [Api!Statuses -> Nat] /\ answered \in [Api!Statuses -> Nat]
  /\ active \in Nat /\ arrivals \in Nat /\ dropped \in Nat /\ arrivals <= MaxRequests

\* Every request that arrived is inside, was dropped or was answered.
Accounts ==
  /\ active + dropped <= arrivals
  /\ \A s \in Api!Statuses :
       recorded[s] + active + dropped <= arrivals /\ answered[s] + active + dropped <= arrivals
  /\ SumOf(recorded, Api!Statuses) = SumOf(answered, Api!Statuses)
  /\ \A s \in Api!Statuses : s # 500 => recorded[s] <= answered[s]
  /\ \A s \in Api!Statuses : (s # 500 /\ s # 400 /\ s # 503) => recorded[s] = answered[s]

\* Each request holds, and their number is the one that is counted.
ApiInv ==
  /\ ApiTypes /\ Accounts
  /\ \A c \in Calls : CallHolds(c)
  /\ active = Cardinality(CountedCalls)

LEMMA ApiInit == Api!Init => ApiInv
  <1> SUFFICES ASSUME Api!Init PROVE ApiInv
    OBVIOUS
  <1> USE DEF Api!Init
  <1>1. ApiTypes
    BY ApiConstants DEF ApiTypes
  <1>2. SumOf(recorded, Api!Statuses) = SumOf(answered, Api!Statuses)
    BY DEF Api!Init
  <1>3. Accounts
    BY <1>2 DEF Accounts
  <1>4. \A c \in Calls : CallHolds(c)
    BY DEF CallHolds
  <1>5. CountedCalls = {}
    BY DEF CountedCalls, Api!Counted
  <1> QED BY <1>1, <1>3, <1>4, <1>5, FS_EmptySet DEF ApiInv

\* A step of one request leaves the others alone.
OthersStay(c) ==
  /\ world' = world
  /\ \A d \in Calls \ {c} :
       /\ request_pc'[d] = request_pc[d] /\ request'[d] = request[d] /\ outcome'[d] = outcome[d]
       /\ d \in handled' <=> d \in handled

LEMMA OthersHold ==
  ASSUME NEW c \in Calls, OthersStay(c), NEW d \in Calls \ {c}
  PROVE  /\ CallHolds(d) => CallHolds(d)'
         /\ Api!Counted(d)' <=> Api!Counted(d)
  <1>1. /\ request_pc'[d] = request_pc[d] /\ request'[d] = request[d] /\ outcome'[d] = outcome[d]
        /\ d \in handled' <=> d \in handled
        /\ world' = world
    BY DEF OthersStay
  <1>2. Api!Counted(d)' <=> Api!Counted(d)
    BY <1>1 DEF Api!Counted, Api!Seen
  <1>3. Api!Unmet(request[d].endpoint)' = Api!Unmet(request[d].endpoint)
    BY <1>1 DEF Api!Unmet, Api!NoModel, Api!NoBatchService, Api!NoBatchMonitor
  <1>4. Api!Authorized(d)' <=> Api!Authorized(d)
    BY <1>1 DEF Api!Authorized, Api!Exempt
  <1>5. /\ Api!AnsweredStatus(outcome[d])' = Api!AnsweredStatus(outcome[d])
        /\ Api!RecordedStatus(outcome[d])' = Api!RecordedStatus(outcome[d])
    BY <1>1 DEF Api!AnsweredStatus, Api!RecordedStatus
  <1>6. Explained(outcome[d], request[d].endpoint)' <=> Explained(outcome[d], request[d].endpoint)
    BY <1>1, <1>5 DEF Explained, ExplainedBy
  <1>7. ASSUME CallHolds(d) PROVE CallHolds(d)'
    BY <1>1, <1>3, <1>4, <1>5, <1>6, <1>7 DEF CallHolds
  <1> QED BY <1>2, <1>7

\* The requests inside after a step of c, and their number.
LEMMA CountedAfter ==
  ASSUME IsFiniteSet(CountedCalls), NEW c \in Calls, OthersStay(c)
  PROVE  /\ (Api!Counted(c) <=> Api!Counted(c)') =>
              Cardinality(CountedCalls') = Cardinality(CountedCalls)
         /\ ~Api!Counted(c) /\ Api!Counted(c)' =>
              Cardinality(CountedCalls') = Cardinality(CountedCalls) + 1
         /\ Api!Counted(c) /\ ~Api!Counted(c)' =>
              Cardinality(CountedCalls') = Cardinality(CountedCalls) - 1
  <1>1. \A d \in Calls \ {c} : d \in CountedCalls' <=> d \in CountedCalls
    BY OthersHold DEF CountedCalls
  <1>2. /\ c \in CountedCalls' <=> Api!Counted(c)'
        /\ c \in CountedCalls <=> Api!Counted(c)
        /\ CountedCalls' \subseteq Calls /\ CountedCalls \subseteq Calls
    BY DEF CountedCalls
  <1>3. (Api!Counted(c) <=> Api!Counted(c)') => CountedCalls' = CountedCalls
    BY <1>1, <1>2
  <1>4. ~Api!Counted(c) /\ Api!Counted(c)' => CountedCalls' = CountedCalls \union {c} /\ c \notin CountedCalls
    BY <1>1, <1>2
  <1>5. Api!Counted(c) /\ ~Api!Counted(c)' => CountedCalls' = CountedCalls \ {c} /\ c \in CountedCalls
    BY <1>1, <1>2
  <1> HIDE DEF CountedCalls, Api!Counted
  <1> QED BY <1>3, <1>4, <1>5, FS_AddElement, FS_RemoveElement

LEMMA CountedIsFinite == IsFiniteSet(CountedCalls)
  <1>1. CountedCalls \subseteq Calls
    BY DEF CountedCalls
  <1> QED BY <1>1, ApiConstants, FS_Subset

LEMMA ApiArrive ==
  ASSUME ApiInv, NEW c \in Calls, NEW e \in Api!Endpoints, NEW k \in BOOLEAN, NEW valid \in BOOLEAN,
         Api!Arrive(c, e, k, valid)
  PROVE  ApiInv'
  <1> DEFINE r == [endpoint |-> e, key |-> k, valid |-> valid]
  <1>1. /\ request_pc[c] = "idle" /\ arrivals < MaxRequests
        /\ request' = [request EXCEPT ![c] = r]
        /\ request_pc' = [request_pc EXCEPT ![c] = "resolving"]
        /\ active' = (IF Api!Seen(e) THEN active + 1 ELSE active)
        /\ arrivals' = arrivals + 1
        /\ UNCHANGED <<world, outcome, recorded, answered, dropped, handled>>
    BY DEF Api!Arrive
  <1>2. r \in Api!Requests /\ r.endpoint = e /\ r # None
    <2>1. r \in Api!Requests /\ r.endpoint = e
      BY DEF Api!Requests
    <2> HIDE DEF r
    <2> QED BY <2>1, ApiConstants
  <1> HIDE DEF r
  <1>3. ApiTypes /\ Accounts /\ CallHolds(c)
    BY DEF ApiInv
  <1>4. /\ request'[c] = r /\ request_pc'[c] = "resolving" /\ OthersStay(c)
    BY <1>1, <1>3 DEF ApiTypes, OthersStay
  <1>5. active' \in Nat /\ arrivals' \in Nat /\ arrivals' <= MaxRequests
        /\ active' + dropped <= arrivals' /\ active' - active <= 1 /\ active' >= active
    <2>1. active \in Nat /\ arrivals \in Nat /\ dropped \in Nat /\ active + dropped <= arrivals
      BY <1>3 DEF ApiTypes, Accounts
    <2>2. active' = active \/ active' = active + 1
      BY <1>1
    <2> QED BY ONLY <1>1, <2>1, <2>2, ApiConstants
  <1>6. ApiTypes'
    <2>1. request' \in [Calls -> Api!Requests \union {None}]
      BY <1>1, <1>2, <1>3 DEF ApiTypes
    <2>2. request_pc' \in [Calls -> {"idle", "resolving", "handling", "leaving", "answered"}]
      BY <1>1, <1>3 DEF ApiTypes
    <2> QED BY <1>1, <1>3, <1>5, <2>1, <2>2 DEF ApiTypes
  <1>7. Accounts'
    <2>1. ASSUME NEW s \in Api!Statuses
          PROVE  recorded[s] + active' + dropped <= arrivals' /\ answered[s] + active' + dropped <= arrivals'
      <3>1. /\ recorded[s] \in Nat /\ answered[s] \in Nat /\ active \in Nat /\ dropped \in Nat
            /\ arrivals \in Nat
            /\ recorded[s] + active + dropped <= arrivals /\ answered[s] + active + dropped <= arrivals
        BY <1>3 DEF ApiTypes, Accounts
      <3> QED BY ONLY <1>1, <1>5, <3>1
    <2> QED BY <1>1, <1>3, <1>5, <2>1 DEF Accounts
  <1>8. CallHolds(c)'
    <2>1. c \notin handled /\ outcome[c] = None
      BY <1>1, <1>3 DEF CallHolds
    <2> QED BY <1>1, <1>2, <1>4, <2>1 DEF CallHolds
  <1>9. active' = Cardinality(CountedCalls)'
    <2>1. ~Api!Counted(c)
      BY <1>1 DEF Api!Counted
    <2>2. Api!Counted(c)' <=> Api!Seen(e)
      BY <1>1, <1>2, <1>4 DEF Api!Counted, Api!Seen
    <2>3. active = Cardinality(CountedCalls)
      BY DEF ApiInv
    <2> HIDE DEF Api!Counted, CountedCalls
    <2>4. CASE Api!Seen(e)
      BY <1>1, <1>4, <2>1, <2>2, <2>3, <2>4, CountedAfter, CountedIsFinite
    <2>5. CASE ~Api!Seen(e)
      BY <1>1, <1>4, <2>1, <2>2, <2>3, <2>5, CountedAfter, CountedIsFinite
    <2> QED BY <2>4, <2>5
  <1>10. \A d \in Calls : CallHolds(d)'
    BY <1>4, <1>8, OthersHold DEF ApiInv
  <1> QED BY <1>6, <1>7, <1>9, <1>10 DEF ApiInv

\* A request that moves on while it is counted, or is not, leaves the number alone.
LEMMA StaysCounted ==
  ASSUME ApiInv, NEW c \in Calls, OthersStay(c), Api!Counted(c)' <=> Api!Counted(c), active' = active
  PROVE  active' = Cardinality(CountedCalls)'
  <1>1. active = Cardinality(CountedCalls)
    BY DEF ApiInv
  <1>2. Cardinality(CountedCalls') = Cardinality(CountedCalls)
    BY CountedAfter, CountedIsFinite
  <1> HIDE DEF CountedCalls
  <1> QED BY <1>1, <1>2

\* Accounts and types, but for those of one request, when only it moves on.
LEMMA OneMoves ==
  ASSUME ApiInv, NEW c \in Calls, OthersStay(c),
         UNCHANGED <<world, request, active, recorded, arrivals, answered, dropped>>,
         request_pc' \in [Calls -> {"idle", "resolving", "handling", "leaving", "answered"}],
         outcome' \in [Calls -> Api!Endings \union {None}], handled' \subseteq Calls,
         Api!Counted(c)' <=> Api!Counted(c), CallHolds(c)'
  PROVE  ApiInv'
  <1>1. active' = Cardinality(CountedCalls)'
    BY StaysCounted
  <1>2. ApiTypes'
    BY DEF ApiInv, ApiTypes
  <1>3. Accounts'
    BY DEF ApiInv, Accounts
  <1>4. \A d \in Calls : CallHolds(d)'
    BY OthersHold DEF ApiInv
  <1> QED BY <1>1, <1>2, <1>3, <1>4 DEF ApiInv

\* A request gets its answer or its exception, from its handler or before it.
\* What a request lacks depends on the world, which its handling leaves alone.
LEMMA UnmetStays ==
  ASSUME NEW c, UNCHANGED <<world, request>>
  PROVE  Api!Unmet(request[c].endpoint)' = Api!Unmet(request[c].endpoint)
  <1>1. UNCHANGED <<Api!NoModel, Api!NoBatchService, Api!NoBatchMonitor>>
    BY DEF Api!NoModel, Api!NoBatchService, Api!NoBatchMonitor
  <1> QED BY <1>1, SMTT(30) DEF Api!Unmet

LEMMA ApiLeaves ==
  ASSUME ApiInv, NEW c \in Calls, NEW what, Explained(what, request[c].endpoint),
         Api!Leaves(c, what),
         UNCHANGED <<world, request, active, recorded, arrivals, answered, dropped>>,
         \/ /\ handled' = handled /\ request_pc[c] = "resolving"
            /\ Api!AnsweredStatus(what) # 200 /\ Api!AnsweredStatus(what) # 201
         \/ /\ handled' = handled \union {c} /\ request_pc[c] = "handling"
            /\ Api!AnsweredStatus(what) # 401 /\ Api!AnsweredStatus(what) # 422
  PROVE  ApiInv'
  <1>1. ApiTypes /\ CallHolds(c)
    BY DEF ApiInv
  <1>2. what \in Api!Endings /\ what # None
    <2>1. what \in Api!Endings
      BY DEF Explained
    <2> QED BY <2>1, ApiConstants
  <1>3. /\ request_pc' = [request_pc EXCEPT ![c] = "leaving"]
        /\ outcome' = [outcome EXCEPT ![c] = what]
    BY DEF Api!Leaves
  <1>4. /\ request_pc' \in [Calls -> {"idle", "resolving", "handling", "leaving", "answered"}]
        /\ outcome' \in [Calls -> Api!Endings \union {None}] /\ handled' \subseteq Calls
    BY <1>1, <1>2, <1>3 DEF ApiTypes
  <1>5. request_pc'[c] = "leaving" /\ outcome'[c] = what /\ OthersStay(c)
    BY <1>1, <1>3 DEF ApiTypes, OthersStay
  <1>6. Api!Counted(c)' <=> Api!Counted(c)
    BY <1>5 DEF Api!Counted, Api!Seen
  <1>7. CallHolds(c)'
    <2>1. request[c] # None /\ c \notin handled
      BY <1>1 DEF CallHolds
    <2>2. Api!AnsweredStatus(outcome[c])' = Api!AnsweredStatus(what)
      BY <1>5 DEF Api!AnsweredStatus
    <2>3. Api!RecordedStatus(outcome[c])' = Api!RecordedStatus(what)
      BY <1>5 DEF Api!RecordedStatus
    <2>4. Explained(outcome[c], request[c].endpoint)'
      <3>1. world' = world /\ request' = request
        OBVIOUS
      <3>2. ExplainedBy(Api!AnsweredStatus(what), Api!RecordedStatus(what), request[c].endpoint)
        BY DEF Explained
      <3>3. outcome'[c] \in Api!Endings
        BY <1>2, <1>5
      <3> DEFINE a == Api!AnsweredStatus(what)
                 r == Api!RecordedStatus(what)
      <3>4. ExplainedBy(a, r, request[c].endpoint)
        BY <3>2
      <3> HIDE DEF a, r
      <3>5. a \in Api!Statuses /\ r \in Api!Statuses
        BY <3>4 DEF ExplainedBy
      <3>6. r = a \/ (r = 500 /\ (a = 400 \/ a = 503))
        BY <3>4 DEF ExplainedBy
      <3>7. (a = 503 /\ request[c].endpoint # "feedback") =>
              world.model = "not ready" \/ world.optional # "running"
        BY <3>4 DEF ExplainedBy
      <3>8. Api!AnsweredStatus(outcome[c])' = a /\ Api!RecordedStatus(outcome[c])' = r
        BY <2>2, <2>3 DEF a, r
      <3> DEFINE b == Api!AnsweredStatus(outcome[c])
                 q == Api!RecordedStatus(outcome[c])
      <3>9. b' = a /\ q' = r
        BY <3>8
      <3> HIDE DEF b, q
      <3>10. ExplainedBy(b, q, request[c].endpoint)'
        <4>1. (b \in Api!Statuses /\ q \in Api!Statuses)'
          BY <3>5, <3>9
        <4>2. (q = b \/ (q = 500 /\ (b = 400 \/ b = 503)))'
          BY <3>6, <3>9
        <4>3. ((b = 503 /\ request[c].endpoint # "feedback") =>
                 world.model = "not ready" \/ world.optional # "running")'
          <5>1. world' = world /\ request'[c].endpoint = request[c].endpoint
            BY <3>1
          <5> QED BY ONLY <5>1, <3>7, <3>9, Zenon
        <4> QED BY <4>1, <4>2, <4>3 DEF ExplainedBy
      <3> QED BY <3>3, <3>10 DEF Explained, b, q
    <2>5. CASE handled' = handled /\ request_pc[c] = "resolving"
      BY <1>2, <1>5, <2>1, <2>2, <2>4, <2>5 DEF CallHolds
    <2>6. CASE handled' = handled \union {c} /\ request_pc[c] = "handling"
      <3>1. Api!Unmet(request[c].endpoint) = None /\ Api!Authorized(c)
        BY <1>1, <2>6 DEF CallHolds
      <3>2. Api!Unmet(request[c].endpoint)' = None
        BY ONLY <3>1, UNCHANGED <<world, request>>, UnmetStays
      <3>3. Api!Authorized(c)'
        BY <3>1 DEF Api!Authorized, Api!Exempt
      <3> QED BY <1>2, <1>5, <2>1, <2>2, <2>4, <2>6, <3>2, <3>3 DEF CallHolds
    <2> QED BY <2>5, <2>6
  <1> HIDE DEF Api!Counted
  <1> QED BY <1>4, <1>5, <1>6, <1>7, OneMoves

LEMMA ApiResolve ==
  ASSUME ApiInv, NEW c \in Calls, Api!Resolve(c)
  PROVE  ApiInv'
  <1> DEFINE e == request[c].endpoint
             passes == request_pc' = [request_pc EXCEPT ![c] = "handling"] /\ UNCHANGED outcome
  <1>1. /\ request_pc[c] = "resolving"
        /\ UNCHANGED <<world, request, active, recorded, arrivals, answered, dropped, handled>>
    BY DEF Api!Resolve
  <1>2. \/ Api!Leaves(c, Api!Answer(401))
        \/ Api!Unmet(e) # None /\ Api!Leaves(c, Api!Unmet(e))
        \/ Api!Leaves(c, Api!Answer(422))
        \/ Api!Authorized(c) /\ Api!Unmet(e) = None /\ passes
    BY ZenonT(60) DEF Api!Resolve
  <1>3. CASE Api!Leaves(c, Api!Answer(401))
    BY <1>1, <1>3, ApiLeaves, ResolvingDoesNotServe
  <1>4. CASE Api!Unmet(e) # None /\ Api!Leaves(c, Api!Unmet(e))
    BY <1>1, <1>4, ApiLeaves, ResolvingDoesNotServe
  <1>5. CASE Api!Leaves(c, Api!Answer(422))
    BY <1>1, <1>5, ApiLeaves, ResolvingDoesNotServe
  <1>6. CASE Api!Authorized(c) /\ Api!Unmet(e) = None /\ passes
    <2>1. ApiTypes /\ CallHolds(c)
      BY DEF ApiInv
    <2>2. /\ request_pc' \in [Calls -> {"idle", "resolving", "handling", "leaving", "answered"}]
          /\ outcome' \in [Calls -> Api!Endings \union {None}] /\ handled' \subseteq Calls
          /\ request_pc'[c] = "handling" /\ OthersStay(c)
      BY <1>1, <1>6, <2>1 DEF ApiTypes, OthersStay
    <2>3. Api!Counted(c)' <=> Api!Counted(c)
      BY <1>1, <1>6, <2>2 DEF Api!Counted, Api!Seen
    <2>4. Api!Unmet(request[c].endpoint)' = None
      BY ONLY <1>1, <1>6, UnmetStays
    <2>5. Api!Authorized(c)'
      BY <1>1, <1>6 DEF Api!Authorized, Api!Exempt
    <2>6. CallHolds(c)'
      BY <1>1, <1>6, <2>1, <2>2, <2>4, <2>5 DEF CallHolds
    <2> HIDE DEF Api!Counted
    <2> QED BY <1>1, <2>2, <2>3, <2>6, OneMoves
  <1> QED BY <1>2, <1>3, <1>4, <1>5, <1>6

LEMMA ApiHandle ==
  ASSUME ApiInv, NEW c \in Calls, Api!Handle(c)
  PROVE  ApiInv'
  <1>1. PICK what \in Api!Outcomes(request[c].endpoint) : Api!Leaves(c, what)
    BY DEF Api!Handle
  <1>2. /\ request_pc[c] = "handling" /\ handled' = handled \union {c}
        /\ UNCHANGED <<world, request, active, recorded, arrivals, answered, dropped>>
    BY DEF Api!Handle
  <1>3. world \in Api!Worlds /\ Api!Unmet(request[c].endpoint) = None
    BY <1>2 DEF ApiInv, ApiTypes, CallHolds
  <1>4. /\ Explained(what, request[c].endpoint)
        /\ Api!AnsweredStatus(what) # 401 /\ Api!AnsweredStatus(what) # 422
    BY <1>3, HandlingIsExplained, HandlingDoesNotRefuse
  <1> QED BY <1>1, <1>2, <1>4, ApiLeaves

LEMMA StatusesAreFinite == IsFiniteSet(Api!Statuses)
  <1>1. IsFiniteSet({200} \union {201} \union {400})
    <2>1. IsFiniteSet({200})
      BY FS_Singleton
    <2>2. IsFiniteSet({200} \union {201})
      BY <2>1, FS_AddElement
    <2> QED BY <2>2, FS_AddElement
  <1>2. IsFiniteSet({200} \union {201} \union {400} \union {401})
    BY <1>1, FS_AddElement
  <1>3. IsFiniteSet({200} \union {201} \union {400} \union {401} \union {404})
    BY <1>2, FS_AddElement
  <1>4. IsFiniteSet({200} \union {201} \union {400} \union {401} \union {404} \union {422})
    BY <1>3, FS_AddElement
  <1>5. IsFiniteSet({200} \union {201} \union {400} \union {401} \union {404} \union {422} \union {500})
    BY <1>4, FS_AddElement
  <1>6. IsFiniteSet({200} \union {201} \union {400} \union {401} \union {404} \union {422} \union {500}
                     \union {503})
    BY <1>5, FS_AddElement
  <1>7. Api!Statuses = {200} \union {201} \union {400} \union {401} \union {404} \union {422} \union {500}
                        \union {503}
    BY DEF Api!Statuses
  <1> QED BY <1>6, <1>7

\* One more in a count of statuses.
LEMMA OneMore ==
  ASSUME NEW count \in [Api!Statuses -> Nat], NEW s \in Api!Statuses
  PROVE  SumOf([count EXCEPT ![s] = @ + 1], Api!Statuses) = SumOf(count, Api!Statuses) + 1
  <1> DEFINE after == [count EXCEPT ![s] = @ + 1]
  <1>1. /\ \A t \in Api!Statuses : count[t] \in Nat /\ after[t] \in Nat
        /\ \A t \in Api!Statuses \ {s} : count[t] = after[t]
        /\ after[s] = count[s] + 1 /\ count[s] \in Nat
    OBVIOUS
  <1> HIDE DEF after
  <1>2. SumOf(after, Api!Statuses) + count[s] = SumOf(count, Api!Statuses) + after[s]
    BY <1>1, StatusesAreFinite, SumUpdate
  <1>3. SumOf(after, Api!Statuses) \in Nat /\ SumOf(count, Api!Statuses) \in Nat
    BY <1>1, StatusesAreFinite, SumIsSum
  <1>4. SumOf(after, Api!Statuses) = SumOf(count, Api!Statuses) + 1
    BY ONLY <1>1, <1>2, <1>3
  <1> QED BY <1>4 DEF after

\* A request that is counted is in the gauge.
LEMMA CountedIsActive ==
  ASSUME ApiInv, NEW c \in Calls, Api!Counted(c)
  PROVE  active \in Nat /\ active >= 1
  <1>1. c \in CountedCalls /\ active = Cardinality(CountedCalls) /\ active \in Nat
    BY DEF CountedCalls, ApiInv, ApiTypes
  <1>2. Cardinality(CountedCalls) \in Nat /\ (Cardinality(CountedCalls) = 0 => CountedCalls = {})
    BY CountedIsFinite, FS_CardinalityType, FS_EmptySet
  <1> HIDE DEF CountedCalls
  <1> QED BY <1>1, <1>2

\* The gauge follows a request that goes out, however it ends.
LEMMA CountedLeaves ==
  ASSUME ApiInv, NEW c \in Calls, OthersStay(c), ~Api!Counted(c)',
         active' = (IF Api!Counted(c) THEN active - 1 ELSE active)
  PROVE  active' = Cardinality(CountedCalls)' /\ active' \in Nat
  <1>1. active = Cardinality(CountedCalls) /\ active \in Nat
    BY DEF ApiInv, ApiTypes
  <1> HIDE DEF CountedCalls, Api!Counted
  <1>2. CASE Api!Counted(c)
    BY <1>1, <1>2, CountedAfter, CountedIsFinite, CountedIsActive
  <1>3. CASE ~Api!Counted(c)
    BY <1>1, <1>3, CountedAfter, CountedIsFinite
  <1> QED BY <1>2, <1>3

\* The accounts after an answer: one request less inside, one more recorded and answered.
LEMMA AnswerIsAccounted ==
  ASSUME ApiTypes, Accounts, active >= 1,
         NEW s \in Api!Statuses, NEW a \in Api!Statuses, s = a \/ (s = 500 /\ (a = 400 \/ a = 503)),
         recorded' = [recorded EXCEPT ![s] = @ + 1],
         answered' = [answered EXCEPT ![a] = @ + 1],
         active' = active - 1, UNCHANGED <<arrivals, dropped>>
  PROVE  Accounts'
  <1>1. /\ active \in Nat /\ dropped \in Nat /\ arrivals \in Nat
        /\ recorded \in [Api!Statuses -> Nat] /\ answered \in [Api!Statuses -> Nat]
    BY DEF ApiTypes
  <1>2. active' + dropped' <= arrivals'
    BY <1>1 DEF Accounts
  <1>3. ASSUME NEW t \in Api!Statuses
        PROVE  /\ recorded'[t] + active' + dropped' <= arrivals'
               /\ answered'[t] + active' + dropped' <= arrivals'
               /\ t # 500 => recorded'[t] <= answered'[t]
               /\ (t # 500 /\ t # 400 /\ t # 503) => recorded'[t] = answered'[t]
    <2>1. /\ recorded[t] \in Nat /\ answered[t] \in Nat
          /\ recorded[t] + active + dropped <= arrivals /\ answered[t] + active + dropped <= arrivals
          /\ t # 500 => recorded[t] <= answered[t]
          /\ (t # 500 /\ t # 400 /\ t # 503) => recorded[t] = answered[t]
      BY <1>1 DEF Accounts
    <2>2. /\ recorded'[t] = (IF t = s THEN recorded[t] + 1 ELSE recorded[t])
          /\ answered'[t] = (IF t = a THEN answered[t] + 1 ELSE answered[t])
      BY <1>1
    <2>3. dropped' = dropped /\ arrivals' = arrivals /\ active' = active - 1
      OBVIOUS
    <2>4. s = a \/ (s = 500 /\ (a = 400 \/ a = 503))
      OBVIOUS
    <2>5. /\ recorded'[t] + active' + dropped' <= arrivals'
          /\ answered'[t] + active' + dropped' <= arrivals'
      BY ONLY <1>1, <2>1, <2>2, <2>3
    <2>6. t # 500 => recorded'[t] <= answered'[t]
      BY ONLY <2>1, <2>2, <2>4
    <2>7. (t # 500 /\ t # 400 /\ t # 503) => recorded'[t] = answered'[t]
      BY ONLY <2>1, <2>2, <2>4
    <2> QED BY <2>5, <2>6, <2>7
  <1>4. SumOf(recorded', Api!Statuses) = SumOf(answered', Api!Statuses)
    <2>1. SumOf(recorded', Api!Statuses) = SumOf(recorded, Api!Statuses) + 1
      BY <1>1, OneMore
    <2>2. SumOf(answered', Api!Statuses) = SumOf(answered, Api!Statuses) + 1
      BY <1>1, OneMore
    <2> QED BY <2>1, <2>2 DEF Accounts
  <1> HIDE DEF Api!Statuses
  <1> QED BY <1>2, <1>3, <1>4 DEF Accounts

LEMMA ApiLeave ==
  ASSUME ApiInv, NEW c \in Calls, Api!Leave(c)
  PROVE  ApiInv'
  <1> DEFINE s == Api!RecordedStatus(outcome[c])
             a == Api!AnsweredStatus(outcome[c])
  <1>1. /\ request_pc[c] = "leaving"
        /\ IF Api!Seen(request[c].endpoint)
           THEN /\ recorded' = [recorded EXCEPT ![s] = @ + 1]
                /\ answered' = [answered EXCEPT ![a] = @ + 1]
                /\ active' = active - 1
           ELSE recorded' = recorded /\ answered' = answered /\ active' = active
        /\ request_pc' = [request_pc EXCEPT ![c] = "answered"]
        /\ UNCHANGED <<world, request, outcome, arrivals, dropped, handled>>
    BY DEF Api!Leave, Api!ActiveAfter
  <1>2. ApiTypes /\ Accounts /\ CallHolds(c)
    BY DEF ApiInv
  <1>3. /\ s \in Api!Statuses /\ a \in Api!Statuses
        /\ s = a \/ (s = 500 /\ (a = 400 \/ a = 503))
    BY <1>1, <1>2 DEF CallHolds, Explained, ExplainedBy
  <1>4. request_pc'[c] = "answered" /\ OthersStay(c)
    BY <1>1, <1>2 DEF ApiTypes, OthersStay
  <1>5. Api!Counted(c) <=> Api!Seen(request[c].endpoint)
    BY <1>1 DEF Api!Counted
  <1>6. ~Api!Counted(c)'
    BY <1>4 DEF Api!Counted
  <1>7. CallHolds(c)'
    <2>1. Api!Unmet(request[c].endpoint)' = Api!Unmet(request[c].endpoint)
      BY <1>1 DEF Api!Unmet, Api!NoModel, Api!NoBatchService, Api!NoBatchMonitor
    <2>2. Api!Authorized(c)' <=> Api!Authorized(c)
      BY <1>1 DEF Api!Authorized, Api!Exempt
    <2>3. /\ Api!AnsweredStatus(outcome[c])' = Api!AnsweredStatus(outcome[c])
          /\ Api!RecordedStatus(outcome[c])' = Api!RecordedStatus(outcome[c])
      BY <1>1 DEF Api!AnsweredStatus, Api!RecordedStatus
    <2>4. Explained(outcome[c], request[c].endpoint)' <=> Explained(outcome[c], request[c].endpoint)
      BY <1>1, <2>3 DEF Explained, ExplainedBy
    <2> QED BY <1>1, <1>2, <1>4, <2>1, <2>2, <2>3, <2>4 DEF CallHolds
  <1> HIDE DEF s, a, Api!Counted, Api!Seen
  <1>8. active' = Cardinality(CountedCalls)' /\ active' \in Nat
    BY <1>1, <1>4, <1>5, <1>6, CountedLeaves
  <1>9. ApiTypes'
    <2>1. request_pc' \in [Calls -> {"idle", "resolving", "handling", "leaving", "answered"}]
      BY <1>1, <1>2 DEF ApiTypes
    <2>2. recorded' \in [Api!Statuses -> Nat] /\ answered' \in [Api!Statuses -> Nat]
      BY <1>1, <1>2, <1>3 DEF ApiTypes
    <2> QED BY <1>1, <1>2, <1>8, <2>1, <2>2 DEF ApiTypes
  <1>10. Accounts'
    <2>1. CASE Api!Seen(request[c].endpoint)
      <3>1. active >= 1
        BY <1>5, <2>1, CountedIsActive
      <3> QED BY <1>1, <1>2, <1>3, <2>1, <3>1, AnswerIsAccounted
    <2>2. CASE ~Api!Seen(request[c].endpoint)
      BY <1>1, <1>2, <2>2 DEF Accounts
    <2> QED BY <2>1, <2>2
  <1>11. \A d \in Calls : CallHolds(d)'
    BY <1>4, <1>7, OthersHold DEF ApiInv
  <1> QED BY <1>8, <1>9, <1>10, <1>11 DEF ApiInv

\* A request that is over leaves nothing of itself behind.
LEMMA EndsClean ==
  ASSUME ApiTypes, NEW c \in Calls, Api!Ends(c), world' = world
  PROVE  /\ request_pc' \in [Calls -> {"idle", "resolving", "handling", "leaving", "answered"}]
         /\ request' \in [Calls -> Api!Requests \union {None}]
         /\ outcome' \in [Calls -> Api!Endings \union {None}] /\ handled' \subseteq Calls
         /\ OthersStay(c) /\ CallHolds(c)' /\ ~Api!Counted(c)'
  <1>1. /\ request_pc' = [request_pc EXCEPT ![c] = "idle"]
        /\ request' = [request EXCEPT ![c] = None]
        /\ outcome' = [outcome EXCEPT ![c] = None]
        /\ handled' = handled \ {c}
    BY DEF Api!Ends
  <1>2. /\ request_pc' \in [Calls -> {"idle", "resolving", "handling", "leaving", "answered"}]
        /\ request' \in [Calls -> Api!Requests \union {None}]
        /\ outcome' \in [Calls -> Api!Endings \union {None}] /\ handled' \subseteq Calls
        /\ request_pc'[c] = "idle" /\ request'[c] = None /\ outcome'[c] = None /\ c \notin handled'
        /\ OthersStay(c)
    BY <1>1 DEF ApiTypes, OthersStay
  <1>3. CallHolds(c)'
    BY <1>2 DEF CallHolds
  <1>4. ~Api!Counted(c)'
    BY <1>2 DEF Api!Counted
  <1> QED BY <1>2, <1>3, <1>4

LEMMA ApiFinish ==
  ASSUME ApiInv, NEW c \in Calls, Api!Finish(c)
  PROVE  ApiInv'
  <1>1. /\ request_pc[c] = "answered" /\ Api!Ends(c)
        /\ UNCHANGED <<world, active, recorded, arrivals, answered, dropped>>
    BY DEF Api!Finish
  <1>2. ApiTypes /\ Accounts
    BY DEF ApiInv
  <1>3. /\ request_pc' \in [Calls -> {"idle", "resolving", "handling", "leaving", "answered"}]
        /\ request' \in [Calls -> Api!Requests \union {None}]
        /\ outcome' \in [Calls -> Api!Endings \union {None}] /\ handled' \subseteq Calls
        /\ OthersStay(c) /\ CallHolds(c)' /\ ~Api!Counted(c)'
    BY <1>1, <1>2, EndsClean
  <1>4. ~Api!Counted(c)
    BY <1>1 DEF Api!Counted
  <1> HIDE DEF Api!Counted
  <1>5. active' = Cardinality(CountedCalls)'
    BY <1>1, <1>3, <1>4, StaysCounted
  <1>6. ApiTypes'
    BY <1>1, <1>2, <1>3 DEF ApiTypes
  <1>7. Accounts'
    BY <1>1, <1>2 DEF Accounts
  <1>8. \A d \in Calls : CallHolds(d)'
    BY <1>3, OthersHold DEF ApiInv
  <1> QED BY <1>5, <1>6, <1>7, <1>8 DEF ApiInv

LEMMA ApiCancel ==
  ASSUME ApiInv, NEW c \in Calls, Api!Cancel(c)
  PROVE  ApiInv'
  <1>1. /\ request_pc[c] \in {"resolving", "handling"} /\ Api!Ends(c)
        /\ IF Api!Seen(request[c].endpoint)
           THEN active' = active - 1 /\ dropped' = dropped + 1
           ELSE active' = active /\ dropped' = dropped
        /\ UNCHANGED <<world, recorded, arrivals, answered>>
    BY DEF Api!Cancel, Api!ActiveAfter
  <1>2. ApiTypes /\ Accounts
    BY DEF ApiInv
  <1>3. /\ request_pc' \in [Calls -> {"idle", "resolving", "handling", "leaving", "answered"}]
        /\ request' \in [Calls -> Api!Requests \union {None}]
        /\ outcome' \in [Calls -> Api!Endings \union {None}] /\ handled' \subseteq Calls
        /\ OthersStay(c) /\ CallHolds(c)' /\ ~Api!Counted(c)'
    BY <1>1, <1>2, EndsClean
  <1>4. Api!Counted(c) <=> Api!Seen(request[c].endpoint)
    BY <1>1 DEF Api!Counted
  <1> HIDE DEF Api!Counted, Api!Seen
  <1>5. active' = Cardinality(CountedCalls)' /\ active' \in Nat
    BY <1>1, <1>3, <1>4, CountedLeaves
  <1>6. active' + dropped' = active + dropped /\ dropped' \in Nat
    <2>1. active \in Nat /\ dropped \in Nat
      BY <1>2 DEF ApiTypes
    <2> QED BY ONLY <1>1, <2>1
  <1>7. ApiTypes'
    BY <1>1, <1>2, <1>3, <1>5, <1>6 DEF ApiTypes
  <1>8. Accounts'
    <2>1. ASSUME NEW s \in Api!Statuses
          PROVE  /\ recorded'[s] + active' + dropped' <= arrivals'
                 /\ answered'[s] + active' + dropped' <= arrivals'
      <3>1. /\ recorded[s] \in Nat /\ answered[s] \in Nat /\ active \in Nat /\ dropped \in Nat
            /\ arrivals \in Nat /\ active' \in Nat
            /\ recorded[s] + active + dropped <= arrivals /\ answered[s] + active + dropped <= arrivals
        BY <1>2, <1>5 DEF ApiTypes, Accounts
      <3>2. recorded' = recorded /\ answered' = answered /\ arrivals' = arrivals
        BY <1>1
      <3> QED BY ONLY <1>6, <3>1, <3>2
    <2> QED BY <1>1, <1>2, <1>6, <2>1 DEF Accounts
  <1>9. \A d \in Calls : CallHolds(d)'
    BY <1>3, OthersHold DEF ApiInv
  <1> QED BY <1>5, <1>7, <1>8, <1>9 DEF ApiInv

\* Every step of Api preserves its invariant.
LEMMA ApiNext == ApiInv /\ [Api!Next]_apiVars => ApiInv'
  <1> SUFFICES ASSUME ApiInv, [Api!Next]_apiVars PROVE ApiInv'
    OBVIOUS
  <1>1. CASE Api!Next
    <2>1. PICK c \in Calls :
            \/ \E e \in MayAsk[c], k \in BOOLEAN, valid \in BOOLEAN : Api!Arrive(c, e, k, valid)
            \/ Api!Resolve(c) \/ Api!Handle(c) \/ Api!Leave(c) \/ Api!Finish(c) \/ Api!Cancel(c)
      BY <1>1 DEF Api!Next
    <2>2. ASSUME NEW e \in MayAsk[c], NEW k \in BOOLEAN, NEW valid \in BOOLEAN,
                 Api!Arrive(c, e, k, valid)
          PROVE  ApiInv'
      <3>1. e \in Api!Endpoints
        BY ApiConstants
      <3> QED BY <2>2, <3>1, ApiArrive
    <2> QED BY <2>1, <2>2, ApiResolve, ApiHandle, ApiLeave, ApiFinish, ApiCancel
  <1>2. CASE UNCHANGED apiVars
    <2>1. /\ world' = world /\ request_pc' = request_pc /\ request' = request /\ outcome' = outcome
          /\ active' = active /\ recorded' = recorded /\ arrivals' = arrivals
          /\ answered' = answered /\ dropped' = dropped /\ handled' = handled
      BY <1>2 DEF apiVars
    <2>2. ApiTypes'
      BY <2>1 DEF ApiInv, ApiTypes
    <2>3. Accounts'
      BY <2>1 DEF ApiInv, Accounts
    <2>4. ASSUME NEW c \in Calls PROVE CallHolds(c)' /\ (Api!Counted(c)' <=> Api!Counted(c))
      <3>1. /\ Api!Unmet(request[c].endpoint)' = Api!Unmet(request[c].endpoint)
            /\ Api!Counted(c)' <=> Api!Counted(c)
        BY <2>1 DEF Api!Unmet, Api!NoModel, Api!NoBatchService, Api!NoBatchMonitor, Api!Counted, Api!Seen
      <3>2. Api!Authorized(c)' <=> Api!Authorized(c)
        BY <2>1 DEF Api!Authorized, Api!Exempt
      <3>3. /\ Api!AnsweredStatus(outcome[c])' = Api!AnsweredStatus(outcome[c])
            /\ Api!RecordedStatus(outcome[c])' = Api!RecordedStatus(outcome[c])
        BY <2>1 DEF Api!AnsweredStatus, Api!RecordedStatus
      <3>4. Explained(outcome[c], request[c].endpoint)' <=> Explained(outcome[c], request[c].endpoint)
        BY <2>1, <3>3 DEF Explained, ExplainedBy
      <3>5. CallHolds(c)
        BY DEF ApiInv
      <3> QED BY <2>1, <3>1, <3>2, <3>3, <3>4, <3>5 DEF CallHolds
    <2>5. CountedCalls' = CountedCalls
      BY <2>4 DEF CountedCalls
    <2> HIDE DEF CountedCalls
    <2> QED BY <2>1, <2>2, <2>3, <2>4, <2>5 DEF ApiInv
  <1> QED BY <1>1, <1>2

\* The fold of the community modules is that sum.
LEMMA TotalIsSum ==
  ASSUME NEW count \in [Api!Statuses -> Nat]
  PROVE  Api!Total(count) = SumOf(count, Api!Statuses)
  BY DEF Api!Total, Api!MapThenSumSet, Api!MapThenFoldSet, SumOf, AddsUp

\* The invariant has what the run checks.
LEMMA ApiSound == ApiInv => Api!TypeOK /\ Api!RequestsAreAnswered
  <1> SUFFICES ASSUME ApiInv PROVE Api!TypeOK /\ Api!RequestsAreAnswered
    OBVIOUS
  <1>1. ApiTypes /\ Accounts /\ active = Cardinality(CountedCalls)
    BY DEF ApiInv
  <1>2. \A S : Api!Cardinality(S) = Cardinality(S)
    BY DEF Api!Cardinality, Cardinality
  <1>3. active <= Cardinality(Calls) /\ Cardinality(Calls) \in Nat
    <2>1. CountedCalls \subseteq Calls
      BY DEF CountedCalls
    <2> QED BY <1>1, <2>1, ApiConstants, FS_Subset, FS_CardinalityType
  <1>4. Api!TypeOK
    <2>1. ASSUME NEW s \in Api!Statuses
          PROVE  recorded[s] \in 0 .. MaxRequests /\ answered[s] \in 0 .. MaxRequests
      <3>1. /\ recorded[s] \in Nat /\ answered[s] \in Nat /\ active \in Nat /\ dropped \in Nat
            /\ arrivals \in Nat /\ arrivals <= MaxRequests /\ MaxRequests \in Nat
            /\ recorded[s] + active + dropped <= arrivals /\ answered[s] + active + dropped <= arrivals
        BY <1>1, ApiConstants DEF ApiTypes, Accounts
      <3> QED BY ONLY <3>1
    <2>2. recorded \in [Api!Statuses -> 0 .. MaxRequests] /\ answered \in [Api!Statuses -> 0 .. MaxRequests]
      BY <1>1, <2>1 DEF ApiTypes
    <2>3. arrivals \in 0 .. MaxRequests /\ dropped \in 0 .. MaxRequests /\ active \in 0 .. Cardinality(Calls)
      <3>1. /\ active \in Nat /\ dropped \in Nat /\ arrivals \in Nat /\ arrivals <= MaxRequests
            /\ MaxRequests \in Nat /\ active + dropped <= arrivals
        BY <1>1, ApiConstants DEF ApiTypes, Accounts
      <3> QED BY ONLY <1>3, <3>1
    <2>4. \A c \in Calls : /\ request[c] = None <=> request_pc[c] = "idle"
                           /\ outcome[c] # None <=> request_pc[c] \in {"leaving", "answered"}
      BY DEF ApiInv, CallHolds
    <2> HIDE DEF Api!Statuses
    <2> QED BY <1>1, <1>2, <2>2, <2>3, <2>4 DEF Api!TypeOK, ApiTypes
  <1>5. Api!ActiveIsExact
    BY <1>1, <1>2 DEF Api!ActiveIsExact, CountedCalls
  <1>6. Api!AnswersAreRecorded
    <2>1. Api!Total(recorded) = Api!Total(answered)
      BY <1>1, TotalIsSum DEF ApiTypes, Accounts
    <2>2. \A s \in Api!Statuses \ {500} : recorded[s] <= answered[s]
      BY <1>1 DEF Accounts
    <2>3. \A s \in {200, 201, 401, 422} : recorded[s] = answered[s]
      BY <1>1, StatusesHold DEF Accounts
    <2> HIDE DEF Api!Statuses
    <2> QED BY <2>1, <2>2, <2>3 DEF Api!AnswersAreRecorded
  <1>7. Api!AnswersHaveReasons
    <2> SUFFICES ASSUME NEW c \in Calls, request_pc[c] = "answered"
                 PROVE  LET s == Api!AnsweredStatus(outcome[c])
                            e == request[c].endpoint
                        IN /\ s \in {401, 422} => c \notin handled
                           /\ s \in {200, 201} => c \in handled /\ Api!Unmet(e) = None /\ Api!Authorized(c)
                           /\ (s = 503 /\ e # "feedback") =>
                                world.model = "not ready" \/ world.optional # "running"
      BY DEF Api!AnswersHaveReasons
    <2>1. CallHolds(c)
      BY DEF ApiInv
    <2> QED BY <2>1 DEF CallHolds, Explained, ExplainedBy
  <1> QED BY <1>4, <1>5, <1>6, <1>7 DEF Api!RequestsAreAnswered

-----------------------------------------------------------------------------
(*****************************************************************************)
(* The percentiles of the indicators: what a window of the latest entries    *)
(* holds, and that the sorted window lists all its places in order.          *)
(*****************************************************************************)
\* The last n elements of a sequence, and those after one more.
LEMMA LastOfFacts ==
  ASSUME NEW S, NEW s \in Seq(S), NEW n \in Nat
  PROVE  /\ Kpi!LastOf(s, n) \in Seq(S)
         /\ Len(Kpi!LastOf(s, n)) = (IF Len(s) < n THEN Len(s) ELSE n)
         /\ \A i \in 1 .. Len(Kpi!LastOf(s, n)) :
              Kpi!LastOf(s, n)[i] = s[Len(s) - Len(Kpi!LastOf(s, n)) + i]
         /\ Len(s) <= n => Kpi!LastOf(s, n) = s
  <1> DEFINE k == IF Len(s) < n THEN Len(s) ELSE n
             m == Len(s) - k + 1
             l == SubSeq(s, m, Len(s))
  <1>1. Len(s) \in Nat /\ k \in Nat /\ k <= Len(s) /\ m \in Nat /\ m >= 1 /\ m <= Len(s) + 1
    <2>1. Len(s) \in Nat
      BY LenProperties
    <2>2. k \in Nat /\ k <= Len(s)
      BY <2>1
    <2> HIDE DEF k
    <2> QED BY ONLY <2>1, <2>2 DEF m
  <1>2. \A i \in m .. Len(s) : s[i] \in S
    BY <1>1, ElementOfSeq
  <1>3. /\ l \in Seq(S) /\ Len(l) = (IF m <= Len(s) THEN Len(s) - m + 1 ELSE 0)
        /\ \A i \in 1 .. Len(s) - m + 1 : l[i] = s[m + i - 1]
    <2> HIDE DEF m
    <2> QED BY <1>1, <1>2, SubSeqProperties
  <1>4. Len(l) = k
    BY ONLY <1>1, <1>3
  <1>5. \A i \in 1 .. k : l[i] = s[Len(s) - k + i]
    <2> HIDE DEF l, k
    <2> TAKE i \in 1 .. k
    <2>1. i \in 1 .. Len(s) - m + 1 /\ m + i - 1 = Len(s) - k + i
      BY ONLY <1>1, i \in 1 .. k DEF m
    <2>2. l[i] = s[m + i - 1]
      BY <1>3, <2>1
    <2> HIDE DEF m
    <2> QED BY <2>1, <2>2
  <1>6. Len(s) <= n => l = s
    <2> HAVE Len(s) <= n
    <2>1. k = Len(s) /\ m = 1
      BY <1>1
    <2> QED BY <2>1, SubSeqFull
  <1>7. Kpi!LastOf(s, n) = l
    BY DEF Kpi!LastOf
  <1> HIDE DEF l, m
  <1> QED BY <1>3, <1>4, <1>5, <1>6, <1>7

LEMMA LastOfAppend ==
  ASSUME NEW S, NEW s \in Seq(S), NEW x \in S, NEW n \in Nat, n >= 1
  PROVE  Kpi!LastOf(Append(Kpi!LastOf(s, n), x), n) = Kpi!LastOf(Append(s, x), n)
  <1> DEFINE l == Kpi!LastOf(s, n)
             a == Append(l, x)
             b == Append(s, x)
  <1>1. CASE Len(s) <= n
    BY <1>1, LastOfFacts
  <1>2. CASE ~(Len(s) <= n)
    <2>1. Len(s) \in Nat /\ Len(s) > n
      BY <1>2, LenProperties
    <2>2. l \in Seq(S) /\ Len(l) = n /\ \A i \in 1 .. n : l[i] = s[Len(s) - n + i]
      <3>1. Len(l) = n
        BY <2>1, LastOfFacts
      <3> QED BY <3>1, LastOfFacts
    <2> HIDE DEF l
    <2>3. /\ a \in Seq(S) /\ Len(a) = n + 1 /\ a[n + 1] = x
          /\ \A i \in 1 .. n : a[i] = s[Len(s) - n + i]
      BY <2>2, AppendFacts
    <2>4. /\ b \in Seq(S) /\ Len(b) = Len(s) + 1 /\ b[Len(s) + 1] = x
          /\ \A i \in 1 .. Len(s) : b[i] = s[i]
      BY AppendFacts
    <2> HIDE DEF a, b
    <2> DEFINE u == Kpi!LastOf(a, n)
               v == Kpi!LastOf(b, n)
    <2>5. u \in Seq(S) /\ Len(u) = n /\ \A i \in 1 .. n : u[i] = a[1 + i]
      <3>1. u \in Seq(S) /\ Len(u) = n
        BY <2>3, LastOfFacts
      <3>2. \A i \in 1 .. Len(u) : u[i] = a[Len(a) - Len(u) + i]
        BY <2>3, LastOfFacts
      <3> HIDE DEF u
      <3>3. Len(a) - Len(u) = 1
        BY <2>3, <3>1
      <3> QED BY <3>1, <3>2, <3>3
    <2>6. v \in Seq(S) /\ Len(v) = n /\ \A i \in 1 .. n : v[i] = b[Len(s) + 1 - n + i]
      <3>1. v \in Seq(S) /\ Len(v) = n
        BY <2>1, <2>4, LastOfFacts
      <3>2. \A i \in 1 .. Len(v) : v[i] = b[Len(b) - Len(v) + i]
        BY <2>4, LastOfFacts
      <3> HIDE DEF v
      <3> QED BY <2>4, <3>1, <3>2
    <2> HIDE DEF u, v
    <2>7. ASSUME NEW i \in Nat, i >= 1, i <= n PROVE u[i] = v[i]
      <3>1. u[i] = a[1 + i] /\ v[i] = b[Len(s) + 1 - n + i]
        BY <2>5, <2>6, <2>7
      <3>2. CASE i = n
        <4>1. 1 + i = n + 1 /\ Len(s) + 1 - n + i = Len(s) + 1
          BY <2>1, <3>2
        <4> QED BY <2>3, <2>4, <3>1, <4>1
      <3>3. CASE i # n
        <4>1. /\ 1 + i \in 1 .. n /\ Len(s) + 1 - n + i \in 1 .. Len(s)
              /\ Len(s) + 1 - n + i = Len(s) - n + (1 + i)
          BY <2>1, <2>7, <3>3
        <4> QED BY <2>3, <2>4, <3>1, <4>1
      <3> QED BY <3>2, <3>3
    <2>8. \A i \in 1 .. n : u[i] = v[i]
      BY <2>7
    <2>9. u = v
      BY <2>5, <2>6, <2>8, SeqEqual
    <2> QED BY <2>9 DEF u, v, a, b, l
  <1> QED BY <1>1, <1>2

\* Data can be put in order: least first, and the rest in their order.
IsOrder(p, data, n) ==
  /\ p \in [1 .. n -> 1 .. n]
  /\ \A i, j \in 1 .. n : p[i] = p[j] => i = j
  /\ \A k \in 1 .. n : \E i \in 1 .. n : p[i] = k
  /\ \A i, j \in 1 .. n : i < j => data[p[i]] <= data[p[j]]

LEMMA OrderExists ==
  ASSUME NEW n \in Nat
  PROVE  \A data \in [1 .. n -> Nat] : \E p : IsOrder(p, data, n)
  <1> DEFINE T == {k \in Nat : \A data \in [1 .. k -> Nat] : \E p : IsOrder(p, data, k)}
  <1>1. 0 \in T
    <2>1. \A data : IsOrder([i \in 1 .. 0 |-> i], data, 0)
      BY DEF IsOrder
    <2> QED BY <2>1
  <1>2. ASSUME NEW k \in Nat, k \in T PROVE k + 1 \in T
    <2> SUFFICES ASSUME NEW data \in [1 .. k + 1 -> Nat] PROVE \E p : IsOrder(p, data, k + 1)
      OBVIOUS
    <2>1. PICK m \in 1 .. k + 1 : \A i \in 1 .. k + 1 : data[m] <= data[i]
      <3> DEFINE values_of == {data[i] : i \in 1 .. k + 1}
      <3>1. values_of \subseteq Nat /\ values_of # {}
        <4>1. 1 \in 1 .. k + 1
          OBVIOUS
        <4> QED BY <4>1
      <3>2. PICK v \in values_of : \A w \in values_of : v <= w
        BY <3>1, LeastNumber
      <3> QED BY <3>2
    <2> DEFINE other == [i \in 1 .. k |-> IF i = m THEN k + 1 ELSE i]
               rest == [i \in 1 .. k |-> data[other[i]]]
    <2>2. /\ other \in [1 .. k -> 1 .. k + 1]
          /\ \A i \in 1 .. k : other[i] # m
          /\ \A i, j \in 1 .. k : other[i] = other[j] => i = j
      OBVIOUS
    <2>3. ASSUME NEW t \in 1 .. k + 1, t # m PROVE \E i \in 1 .. k : other[i] = t
      <3>1. CASE t = k + 1
        <4>1. m \in 1 .. k
          BY <2>3, <3>1
        <4>2. other[m] = t
          BY <3>1, <4>1
        <4> QED BY <4>1, <4>2
      <3>2. CASE t # k + 1
        <4>1. t \in 1 .. k
          BY <3>2
        <4>2. other[t] = t
          BY <2>3, <4>1
        <4> QED BY <4>1, <4>2
      <3> QED BY <3>1, <3>2
    <2> HIDE DEF other
    <2>4. rest \in [1 .. k -> Nat] /\ \A i \in 1 .. k : rest[i] = data[other[i]]
      BY <2>2
    <2> HIDE DEF rest
    <2>5. PICK q : IsOrder(q, rest, k)
      BY <1>2, <2>4
    <2>6. /\ q \in [1 .. k -> 1 .. k]
          /\ \A i, j \in 1 .. k : q[i] = q[j] => i = j
          /\ \A h \in 1 .. k : \E i \in 1 .. k : q[i] = h
          /\ \A i, j \in 1 .. k : i < j => rest[q[i]] <= rest[q[j]]
      BY <2>5 DEF IsOrder
    <2> DEFINE p == [i \in 1 .. k + 1 |-> IF i = 1 THEN m ELSE other[q[i - 1]]]
    <2>7. /\ p[1] = m
          /\ \A i \in 1 .. k : p[i + 1] = other[q[i]] /\ q[i] \in 1 .. k
      <3>1. 1 \in 1 .. k + 1
        OBVIOUS
      <3>2. ASSUME NEW i \in 1 .. k PROVE p[i + 1] = other[q[i]] /\ q[i] \in 1 .. k
        <4>1. i + 1 \in 1 .. k + 1 /\ i + 1 # 1 /\ (i + 1) - 1 = i
          OBVIOUS
        <4>2. p[i + 1] = other[q[(i + 1) - 1]]
          BY <4>1
        <4>3. q[i] \in 1 .. k
          BY <2>6
        <4> QED BY <4>1, <4>2, <4>3
      <3> QED BY <3>1, <3>2
    <2>8. p \in [1 .. k + 1 -> 1 .. k + 1]
      <3>1. ASSUME NEW i \in 1 .. k + 1, i # 1 PROVE other[q[i - 1]] \in 1 .. k + 1
        <4>1. i - 1 \in 1 .. k
          BY <3>1
        <4>2. q[i - 1] \in 1 .. k
          BY <2>6, <4>1
        <4> QED BY <2>2, <4>2
      <3> QED BY <3>1
    <2> HIDE DEF p
    <2>9. \A i \in 1 .. k + 1 : i = 1 \/ \E j \in 1 .. k : i = j + 1
      <3> SUFFICES ASSUME NEW i \in 1 .. k + 1, i # 1 PROVE \E j \in 1 .. k : i = j + 1
        OBVIOUS
      <3>1. i - 1 \in 1 .. k /\ i = (i - 1) + 1
        OBVIOUS
      <3> QED BY <3>1
    <2>10. ASSUME NEW i \in 1 .. k + 1, NEW j \in 1 .. k + 1, p[i] = p[j] PROVE i = j
      <3>1. CASE i = 1 /\ j = 1
        BY <3>1
      <3>2. CASE i = 1 /\ j # 1
        <4>1. PICK b \in 1 .. k : j = b + 1
          BY <2>9, <3>2
        <4>2. p[j] = other[q[b]] /\ q[b] \in 1 .. k
          BY <2>7, <4>1
        <4> QED BY <2>2, <2>7, <2>10, <3>2, <4>2
      <3>3. CASE i # 1 /\ j = 1
        <4>1. PICK a \in 1 .. k : i = a + 1
          BY <2>9, <3>3
        <4>2. p[i] = other[q[a]] /\ q[a] \in 1 .. k
          BY <2>7, <4>1
        <4> QED BY <2>2, <2>7, <2>10, <3>3, <4>2
      <3>4. CASE i # 1 /\ j # 1
        <4>1. PICK a \in 1 .. k : i = a + 1
          BY <2>9, <3>4
        <4>2. PICK b \in 1 .. k : j = b + 1
          BY <2>9, <3>4
        <4>3. /\ p[i] = other[q[a]] /\ q[a] \in 1 .. k
              /\ p[j] = other[q[b]] /\ q[b] \in 1 .. k
          BY <2>7, <4>1, <4>2
        <4>4. q[a] = q[b]
          BY <2>2, <2>10, <4>3
        <4>5. a = b
          BY <2>6, <4>4
        <4> QED BY <4>1, <4>2, <4>5
      <3> QED BY <3>1, <3>2, <3>3, <3>4
    <2>11. ASSUME NEW t \in 1 .. k + 1 PROVE \E i \in 1 .. k + 1 : p[i] = t
      <3>1. CASE t = m
        <4>1. 1 \in 1 .. k + 1
          OBVIOUS
        <4> QED BY <2>7, <3>1, <4>1
      <3>2. CASE t # m
        <4>1. PICK h \in 1 .. k : other[h] = t
          BY <2>3, <3>2
        <4>2. PICK i \in 1 .. k : q[i] = h
          BY <2>6
        <4>3. p[i + 1] = t
          BY <2>7, <4>1, <4>2
        <4>4. i + 1 \in 1 .. k + 1
          OBVIOUS
        <4> QED BY <4>3, <4>4
      <3> QED BY <3>1, <3>2
    <2>12. ASSUME NEW i \in 1 .. k + 1, NEW j \in 1 .. k + 1, i < j PROVE data[p[i]] <= data[p[j]]
      <3>1. PICK b \in 1 .. k : j = b + 1
        BY <2>9, <2>12
      <3>2. p[j] = other[q[b]] /\ q[b] \in 1 .. k
        BY <2>7, <3>1
      <3>3. CASE i = 1
        <4>1. p[j] \in 1 .. k + 1 /\ p[i] = m
          BY <2>7, <2>8, <3>3
        <4> QED BY <2>1, <4>1
      <3>4. CASE i # 1
        <4>1. PICK a \in 1 .. k : i = a + 1
          BY <2>9, <3>4
        <4>2. p[i] = other[q[a]] /\ q[a] \in 1 .. k
          BY <2>7, <4>1
        <4>3. a < b
          BY <2>12, <3>1, <4>1
        <4>4. rest[q[a]] <= rest[q[b]]
          BY <2>6, <4>3
        <4> QED BY <2>4, <3>2, <4>2, <4>4
      <3> QED BY <3>3, <3>4
    <2>13. IsOrder(p, data, k + 1)
      BY <2>8, <2>10, <2>11, <2>12 DEF IsOrder
    <2> QED BY <2>13
  <1>3. Nat \subseteq T
    <2> HIDE DEF T
    <2> QED BY <1>1, <1>2, Counting
  <1> QED BY <1>3

\* What sorting and its percentiles are, whichever order is chosen.
LEMMA SortedIsOrdered ==
  ASSUME NEW data \in Seq(Nat)
  PROVE  \E p : /\ IsOrder(p, data, Len(data))
                /\ Kpi!Sorted(data) = [i \in 1 .. Len(data) |-> data[p[i]]]
  <1> DEFINE n == Len(data)
             Chosen == CHOOSE p \in Kpi!Bijection(DOMAIN data, DOMAIN data) : Kpi!Orders(p, data)
  <1>1. n \in Nat /\ DOMAIN data = 1 .. n /\ data \in [1 .. n -> Nat]
    OBVIOUS
  <1> HIDE DEF n
  <1>2. \A p : IsOrder(p, data, n) <=>
                 p \in Kpi!Bijection(DOMAIN data, DOMAIN data) /\ Kpi!Orders(p, data)
    <2> SUFFICES ASSUME NEW p
                 PROVE  IsOrder(p, data, n) <=>
                          p \in Kpi!Bijection(DOMAIN data, DOMAIN data) /\ Kpi!Orders(p, data)
      OBVIOUS
    <2>1. p \in Kpi!Bijection(DOMAIN data, DOMAIN data) <=>
            /\ p \in [1 .. n -> 1 .. n]
            /\ \A i, j \in 1 .. n : p[i] = p[j] => i = j
            /\ \A k \in 1 .. n : \E i \in 1 .. n : p[i] = k
      BY <1>1 DEF Kpi!Bijection, Kpi!Injection, Kpi!Surjection, Kpi!IsInjective
    <2>2. Kpi!Orders(p, data) <=> \A i, j \in 1 .. n : i < j => data[p[i]] <= data[p[j]]
      BY <1>1 DEF Kpi!Orders
    <2> QED BY <2>1, <2>2 DEF IsOrder
  <1>3. \E p : IsOrder(p, data, n)
    BY <1>1, OrderExists
  <1>4. Chosen \in Kpi!Bijection(DOMAIN data, DOMAIN data) /\ Kpi!Orders(Chosen, data)
    <2>1. \E p \in Kpi!Bijection(DOMAIN data, DOMAIN data) : Kpi!Orders(p, data)
      BY <1>2, <1>3
    <2> QED BY <2>1
  <1>5. IsOrder(Chosen, data, n)
    BY <1>2, <1>4
  <1>6. Kpi!Sorted(data) = [i \in 1 .. n |-> data[Chosen[i]]]
    BY <1>1 DEF Kpi!Sorted
  <1> HIDE DEF Chosen
  <1> QED BY <1>5, <1>6 DEF n

\* Where a percentile is, from 1.
LEMMA PlaceOfPercentile ==
  ASSUME NEW n \in Nat, n >= 1, NEW percent \in Nat, percent = 50 \/ percent = 95 \/ percent = 99
  PROVE  LET k == Kpi!PercentileIndex(n, percent) + 1
         IN k \in Nat /\ k >= 1 /\ k <= n /\ 100 * k >= percent * n
  <1> DEFINE x == percent * n
             q == x \div 100
  <1>1. x \in Nat /\ x <= 100 * n
    BY ONLY percent = 50 \/ percent = 95 \/ percent = 99, n \in Nat
  <1> HIDE DEF x
  <1>2. q \in Nat /\ 100 * (q + 1) > x
    BY ONLY <1>1
  <1> HIDE DEF q
  <1> DEFINE k == IF q > n - 1 THEN n ELSE q + 1
  <1>3. k \in Nat /\ k >= 1 /\ k <= n /\ 100 * k >= x
    <2>1. CASE q > n - 1
      BY ONLY <1>1, <1>2, <2>1, n \in Nat, n >= 1 DEF k
    <2>2. CASE ~(q > n - 1)
      BY ONLY <1>1, <1>2, <2>2, n \in Nat, n >= 1 DEF k
    <2> QED BY <2>1, <2>2
  <1>4. Kpi!PercentileIndex(n, percent) + 1 = k
    <2>1. Kpi!PercentileIndex(n, percent) = IF q > n - 1 THEN n - 1 ELSE q
      BY DEF Kpi!PercentileIndex, q, x
    <2> QED BY <2>1
  <1> QED BY <1>3, <1>4 DEF x

LEMMA PercentileIsOfOrder ==
  ASSUME NEW data \in Seq(Nat), data # <<>>,
         NEW p, IsOrder(p, data, Len(data)),
         Kpi!Sorted(data) = [i \in 1 .. Len(data) |-> data[p[i]]],
         NEW percent \in Nat, percent = 50 \/ percent = 95 \/ percent = 99
  PROVE  LET k == Kpi!PercentileIndex(Len(data), percent) + 1
         IN /\ k \in 1 .. Len(data) /\ 100 * k >= percent * Len(data)
            /\ Kpi!Percentile(data, percent) = data[p[k]] /\ p[k] \in 1 .. Len(data)
  <1> DEFINE n == Len(data)
             k == Kpi!PercentileIndex(n, percent) + 1
  <1>1. n \in Nat /\ n >= 1
    OBVIOUS
  <1> HIDE DEF n
  <1>2. k \in 1 .. n /\ 100 * k >= percent * n
    <2>1. k \in Nat /\ k >= 1 /\ k <= n /\ 100 * k >= percent * n
      BY ONLY <1>1, PlaceOfPercentile, percent \in Nat, percent = 50 \/ percent = 95 \/ percent = 99
    <2> HIDE DEF k
    <2> QED BY <1>1, <2>1
  <1>3. Kpi!Percentile(data, percent) = Kpi!Sorted(data)[k]
    BY DEF Kpi!Percentile, n
  <1> HIDE DEF k
  <1>4. Kpi!Percentile(data, percent) = data[p[k]] /\ p[k] \in 1 .. n
    <2>1. p \in [1 .. n -> 1 .. n] /\ Kpi!Sorted(data) = [i \in 1 .. n |-> data[p[i]]]
      BY DEF IsOrder, n
    <2> QED BY <1>2, <1>3, <2>1
  <1> QED BY <1>2, <1>4 DEF n, k

\* A percentile is one of the data, and that share of them is not above it.
LEMMA PercentileHolds ==
  ASSUME NEW data \in Seq(Nat), NEW percent \in Nat, percent = 50 \/ percent = 95 \/ percent = 99
  PROVE  Kpi!PercentileIsTrue(data, percent) /\ Kpi!Percentile(data, percent) \in Nat
  <1>1. CASE data = <<>>
    BY <1>1 DEF Kpi!PercentileIsTrue, Kpi!Percentile
  <1>2. CASE data # <<>>
    <2> DEFINE n == Len(data)
               reached == Kpi!Percentile(data, percent)
               below == {i \in DOMAIN data : data[i] <= reached}
    <2>1. PICK p : IsOrder(p, data, n) /\ Kpi!Sorted(data) = [i \in 1 .. n |-> data[p[i]]]
      BY SortedIsOrdered
    <2>2. PICK k \in 1 .. n : 100 * k >= percent * n /\ reached = data[p[k]] /\ p[k] \in 1 .. n
      <3>1. LET k == Kpi!PercentileIndex(n, percent) + 1
            IN /\ k \in 1 .. n /\ 100 * k >= percent * n
               /\ reached = data[p[k]] /\ p[k] \in 1 .. n
        BY <1>2, <2>1, PercentileIsOfOrder
      <3> HIDE DEF reached, n
      <3> QED BY <3>1, Zenon
    <2>3. n \in Nat /\ DOMAIN data = 1 .. n /\ \A i \in 1 .. n : data[i] \in Nat
      OBVIOUS
    <2> HIDE DEF n, reached
    <2>4. /\ p \in [1 .. n -> 1 .. n]
          /\ \A i, j \in 1 .. n : p[i] = p[j] => i = j
          /\ \A i, j \in 1 .. n : i < j => data[p[i]] <= data[p[j]]
      BY <2>1 DEF IsOrder
    <2>5. reached \in Nat
      BY <2>2, <2>3
    <2>6. {p[j] : j \in 1 .. k} \subseteq below
      <3> SUFFICES ASSUME NEW j \in 1 .. k PROVE p[j] \in below
        OBVIOUS
      <3>1. j \in 1 .. n /\ (j = k \/ j < k)
        BY <2>2, <2>3
      <3>2. p[j] \in 1 .. n
        BY <2>4, <3>1
      <3>3. data[p[j]] <= reached
        <4>1. CASE j = k
          BY <2>2, <2>5, <4>1
        <4>2. CASE j < k
          BY <2>2, <2>4, <3>1, <4>2
        <4> QED BY <3>1, <4>1, <4>2
      <3> QED BY <2>3, <3>2, <3>3
    <2>7. IsFiniteSet({p[j] : j \in 1 .. k}) /\ Cardinality({p[j] : j \in 1 .. k}) = k
      <3>1. \A i, j \in 1 .. k : i # j => p[i] # p[j]
        BY <2>3, <2>4
      <3>2. k \in Nat
        OBVIOUS
      <3> QED BY ONLY <3>1, <3>2, DistinctCount, Zenon
    <2>8. IsFiniteSet(below) /\ Cardinality(below) \in Nat
      <3>1. below \subseteq 1 .. n
        BY <2>3
      <3>2. IsFiniteSet(1 .. n)
        BY <2>3, FS_Interval
      <3> HIDE DEF below
      <3> QED BY <3>1, <3>2, FS_Subset, FS_CardinalityType
    <2> HIDE DEF below
    <2>9. k <= Cardinality(below)
      BY <2>6, <2>7, <2>8, FS_Subset
    <2>10. percent * n \in Nat
      BY ONLY percent = 50 \/ percent = 95 \/ percent = 99, <2>3
    <2>11. 100 * Cardinality(below) >= percent * n
      <3> DEFINE x == percent * n
                 c == Cardinality(below)
      <3>1. x \in Nat /\ c \in Nat /\ k \in Nat /\ k <= c /\ 100 * k >= x
        BY <2>2, <2>3, <2>8, <2>9, <2>10
      <3> HIDE DEF x, c
      <3>2. 100 * c >= x
        BY ONLY <3>1
      <3> QED BY <3>2 DEF x, c
    <2>12. Kpi!Cardinality(below) = Cardinality(below)
      BY DEF Kpi!Cardinality, Cardinality
    <2>13. reached \in Kpi!ToSet(data)
      BY <2>2, <2>3 DEF Kpi!ToSet
    <2>14. Kpi!PercentileIsTrue(data, percent)
      BY <2>11, <2>12, <2>13 DEF Kpi!PercentileIsTrue, reached, below, n
    <2> QED BY <2>5, <2>14 DEF reached
  <1> QED BY <1>1, <1>2

LEMMA PercentilesAreOrdered ==
  ASSUME NEW data \in Seq(Nat)
  PROVE  Kpi!Percentile(data, 50) <= Kpi!Percentile(data, 95)
  <1>1. CASE data = <<>>
    BY <1>1 DEF Kpi!Percentile
  <1>2. CASE data # <<>>
    <2> DEFINE n == Len(data)
               a == Kpi!PercentileIndex(n, 50) + 1
               b == Kpi!PercentileIndex(n, 95) + 1
    <2>1. PICK p : IsOrder(p, data, n) /\ Kpi!Sorted(data) = [i \in 1 .. n |-> data[p[i]]]
      BY SortedIsOrdered
    <2>2. /\ a \in 1 .. n /\ Kpi!Percentile(data, 50) = data[p[a]] /\ p[a] \in 1 .. n
          /\ b \in 1 .. n /\ Kpi!Percentile(data, 95) = data[p[b]] /\ p[b] \in 1 .. n
      BY <1>2, <2>1, PercentileIsOfOrder
    <2>3. n \in Nat /\ n >= 1 /\ \A i \in 1 .. n : data[i] \in Nat
      BY <1>2
    <2> HIDE DEF n
    <2>4. a <= b
      BY <2>3 DEF Kpi!PercentileIndex
    <2> HIDE DEF a, b
    <2>5. \A i, j \in 1 .. n : i < j => data[p[i]] <= data[p[j]]
      BY <2>1 DEF IsOrder
    <2>6. data[p[a]] <= data[p[b]]
      <3>1. CASE a = b
        BY <2>2, <2>3, <3>1
      <3>2. CASE a # b
        BY <2>2, <2>4, <2>5, <3>2
      <3> QED BY <3>1, <3>2
    <2> QED BY <2>2, <2>6
  <1> QED BY <1>1, <1>2

-----------------------------------------------------------------------------
(*****************************************************************************)
(* The indicators.  The counters of each kind sum to the number of           *)
(* predictions, and the windows hold the latest of them; the rates and the   *)
(* targets follow.                                                           *)
(*****************************************************************************)
\* A prediction that was recorded, and when.
Made == [p : Predictions, at : Nat]

LEMMA KpiConstants ==
  /\ max_history \in Nat /\ max_history >= 1 /\ max_confidence \in Nat /\ max_confidence >= 1
  /\ max_latencies \in Nat /\ max_latencies >= 1 /\ day \in Nat /\ day >= 1
  /\ max_confidence <= max_history /\ KpiTime \in Nat /\ MaxPredictions \in Nat
  /\ IsFiniteSet(Predictions)
  /\ \A p \in Predictions : p.confidence \in Nat /\ p.latency \in Nat
  <1>1. Kpi!KpiAssumption
    BY Assumptions
  <1>2. Kpi!IsFiniteSet(Predictions)
    BY <1>1 DEF Kpi!KpiAssumption
  <1> QED BY <1>1, <1>2 DEF Kpi!KpiAssumption, Kpi!IsFiniteSet, IsFiniteSet

\* A counter of n things by what they are.
CountsTo(f, S, n) ==
  f \in [S -> Nat] /\ (\A x \in S : f[x] <= n) /\ SumOf(f, S) = n

LEMMA CountsToNone ==
  ASSUME NEW S, IsFiniteSet(S), NEW f, f = [x \in S |-> 0]
  PROVE  CountsTo(f, S, 0)
  <1>1. \A x \in S : f[x] = 0
    OBVIOUS
  <1>2. SumOf(f, S) = 0
    BY <1>1, SumOfZeros
  <1> QED BY <1>2 DEF CountsTo

LEMMA CountsOneMore ==
  ASSUME NEW S, IsFiniteSet(S), NEW f, NEW n \in Nat, CountsTo(f, S, n), NEW x \in S
  PROVE  CountsTo([f EXCEPT ![x] = @ + 1], S, n + 1)
  <1> DEFINE g == [f EXCEPT ![x] = @ + 1]
  <1>1. /\ f \in [S -> Nat] /\ SumOf(f, S) = n /\ \A y \in S : f[y] <= n
    BY DEF CountsTo
  <1>2. /\ g \in [S -> Nat] /\ \A y \in S \ {x} : f[y] = g[y]
        /\ g[x] = f[x] + 1 /\ f[x] \in Nat
    BY <1>1
  <1> HIDE DEF g
  <1>3. \A y \in S : f[y] \in Nat /\ g[y] \in Nat
    BY <1>1, <1>2
  <1>4. SumOf(g, S) + f[x] = SumOf(f, S) + g[x] /\ SumOf(g, S) \in Nat
    BY <1>2, <1>3, SumUpdate, SumIsSum
  <1>5. SumOf(g, S) = n + 1
    BY ONLY <1>1, <1>2, <1>4, n \in Nat
  <1>6. \A y \in S : g[y] <= n + 1
    <2> TAKE y \in S
    <2>1. f[y] \in Nat /\ f[y] <= n /\ (g[y] = f[y] \/ g[y] = f[y] + 1)
      BY <1>1, <1>2
    <2> QED BY ONLY <2>1, n \in Nat
  <1>7. CountsTo(g, S, n + 1)
    BY <1>2, <1>5, <1>6 DEF CountsTo
  <1> QED BY <1>7 DEF g

\* The fold of the community modules is that sum.
LEMMA OfIsSum ==
  ASSUME NEW S, NEW f \in [S -> Nat]
  PROVE  Kpi!Of(f) = SumOf(f, S)
  <1>1. DOMAIN f = S
    OBVIOUS
  <1> QED BY <1>1 DEF Kpi!Of, Kpi!MapThenSumSet, Kpi!MapThenFoldSet, SumOf, AddsUp

\* What is counted by: labels, buckets, backends and days.
LEMMA KeysAreFinite ==
  /\ IsFiniteSet(Kpi!Labels) /\ IsFiniteSet(Kpi!Buckets) /\ IsFiniteSet(Kpi!Backends)
  /\ IsFiniteSet(Kpi!Days)
  <1>1. IsFiniteSet(Kpi!Labels)
    <2> DEFINE f == [p \in Predictions |-> p.label]
    <2>1. f \in Surjection(Predictions, Kpi!Labels)
      BY DEF Kpi!Labels, Surjection
    <2> QED BY <2>1, KpiConstants, FS_Surjection
  <1>2. IsFiniteSet(Kpi!Backends)
    <2> DEFINE f == [p \in Predictions |-> p.backend]
    <2>1. f \in Surjection(Predictions, Kpi!Backends)
      BY DEF Kpi!Backends, Surjection
    <2> QED BY <2>1, KpiConstants, FS_Surjection
  <1>3. IsFiniteSet(Kpi!Buckets)
    <2>1. IsFiniteSet({"very_high"})
      BY FS_Singleton
    <2>2. IsFiniteSet({"very_high"} \union {"high"})
      BY <2>1, FS_AddElement
    <2>3. IsFiniteSet({"very_high"} \union {"high"} \union {"medium"})
      BY <2>2, FS_AddElement
    <2>4. IsFiniteSet({"very_high"} \union {"high"} \union {"medium"} \union {"low"})
      BY <2>3, FS_AddElement
    <2>5. IsFiniteSet({"very_high"} \union {"high"} \union {"medium"} \union {"low"} \union {"very_low"})
      BY <2>4, FS_AddElement
    <2>6. Kpi!Buckets = {"very_high"} \union {"high"} \union {"medium"} \union {"low"} \union {"very_low"}
      BY DEF Kpi!Buckets
    <2> QED BY <2>5, <2>6
  <1>4. IsFiniteSet(Kpi!Days)
    <2>1. KpiTime \div day \in Nat
      BY KpiConstants
    <2> QED BY <2>1, FS_Interval DEF Kpi!Days
  <1> QED BY <1>1, <1>2, <1>3, <1>4

LEMMA DivisionGrows ==
  ASSUME NEW a \in Nat, NEW b \in Nat, a <= b, NEW d \in Nat, d >= 1
  PROVE  a \div d \in Nat /\ b \div d \in Nat /\ a \div d <= b \div d
  <1> DEFINE q == a \div d
             r == b \div d
  <1>1. q \in Nat /\ d * q <= a /\ r \in Nat /\ b < d * (r + 1)
    OBVIOUS
  <1> HIDE DEF q, r
  <1>2. q <= r
    <2> SUFFICES ASSUME q > r PROVE FALSE
      BY <1>1
    <2>1. q >= r + 1
      BY <1>1
    <2>2. \E e \in Nat : q = (r + 1) + e
      <3>1. q - (r + 1) \in Nat /\ q = (r + 1) + (q - (r + 1))
        BY <1>1, <2>1
      <3> QED BY <3>1
    <2>3. PICK e \in Nat : q = (r + 1) + e
      BY <2>2
    <2>4. d * q = d * (r + 1) + d * e /\ d * e \in Nat /\ d * (r + 1) \in Nat
      BY <1>1, <2>3
    <2> QED BY <1>1, <2>4
  <1> QED BY <1>1, <1>2 DEF q, r

\* Some of the places of a sequence are no more than all.
LEMMA PartOfAll ==
  ASSUME NEW S, NEW s \in Seq(S), NEW P \in SUBSET (DOMAIN s)
  PROVE  /\ IsFiniteSet(P) /\ Cardinality(P) \in Nat /\ Cardinality(P) <= Len(s)
         /\ Kpi!Cardinality(P) = Cardinality(P)
  <1>1. DOMAIN s = 1 .. Len(s) /\ Len(s) \in Nat
    OBVIOUS
  <1>2. IsFiniteSet(1 .. Len(s)) /\ Cardinality(1 .. Len(s)) = Len(s)
    <2>1. Cardinality(1 .. Len(s)) = IF 1 > Len(s) THEN 0 ELSE Len(s) - 1 + 1
      BY <1>1, FS_Interval
    <2> QED BY <1>1, <2>1, FS_Interval
  <1>3. IsFiniteSet(P) /\ Cardinality(P) \in Nat /\ Cardinality(P) <= Len(s)
    BY <1>1, <1>2, FS_Subset, FS_CardinalityType
  <1> QED BY <1>3 DEF Kpi!Cardinality, Cardinality

\* The places of predictions of low confidence, and those after one more.
LowOf(s) == {i \in DOMAIN s : s[i].p.confidence < 60}

LEMMA LowOfAppend ==
  ASSUME NEW s \in Seq(Made), NEW x \in Made
  PROVE  /\ Cardinality(LowOf(s)) \in Nat
         /\ Cardinality(LowOf(Append(s, x))) =
              IF x.p.confidence < 60 THEN Cardinality(LowOf(s)) + 1 ELSE Cardinality(LowOf(s))
  <1> DEFINE n == Len(s)
             t == Append(s, x)
  <1>1. /\ n \in Nat /\ DOMAIN t = DOMAIN s \union {n + 1} /\ DOMAIN s = 1 .. n
        /\ (\A j \in DOMAIN s : t[j] = s[j]) /\ t[n + 1] = x
    BY AppendFacts
  <1> HIDE DEF t, n
  <1>2. IsFiniteSet(LowOf(s)) /\ Cardinality(LowOf(s)) \in Nat
    BY PartOfAll DEF LowOf
  <1>3. n + 1 \notin DOMAIN s
    BY <1>1
  <1>4. CASE x.p.confidence < 60
    <2>1. LowOf(t) = LowOf(s) \union {n + 1} /\ n + 1 \notin LowOf(s)
      BY <1>1, <1>3, <1>4 DEF LowOf
    <2>2. Cardinality(LowOf(t)) = Cardinality(LowOf(s)) + 1
      BY <1>2, <2>1, FS_AddElement
    <2> QED BY <1>2, <1>4, <2>2 DEF t
  <1>5. CASE ~(x.p.confidence < 60)
    <2>1. LowOf(t) = LowOf(s)
      BY <1>1, <1>3, <1>5 DEF LowOf
    <2> QED BY <1>2, <1>5, <2>1 DEF t
  <1> QED BY <1>4, <1>5

\* What is kept of n by a deque of so many.
UpTo(n, most) == IF n < most THEN n ELSE most

\* The windows and the counters, of all predictions that were recorded.
KpiInv ==
  /\ detailed \in BOOLEAN
  /\ all \in Seq(Made) /\ Len(all) <= MaxPredictions
  /\ history = IF detailed THEN Kpi!LastOf(all, max_history) ELSE <<>>
  /\ low \in Seq(Made) /\ Len(low) <= max_confidence /\ Len(low) <= Len(all)
  /\ Len(low) = UpTo(Cardinality(LowOf(all)), max_confidence)
  /\ high \in Seq(Made) /\ Len(high) <= max_confidence
  /\ CountsTo(by_label, Kpi!Labels, Len(all)) /\ CountsTo(by_bucket, Kpi!Buckets, Len(all))
  /\ CountsTo(by_backend, Kpi!Backends, Len(all)) /\ CountsTo(cost_by_day, Kpi!Days, Len(all))
  /\ total_cost = Len(all)
  /\ latencies \in [Kpi!Backends -> Seq(Nat)]
  /\ \A b \in Kpi!Backends : Len(latencies[b]) <= max_latencies
  /\ kpi_now \in Nat /\ kpi_now <= KpiTime
  /\ gauges \in [rejection : Kpi!Count \X Kpi!Count, p95 : Nat, throughput : Kpi!Count]

\* The window is the end of all predictions.
LEMMA WindowHolds ==
  ASSUME KpiInv
  PROVE  /\ history \in Seq(Made) /\ Len(history) \in Nat /\ Len(history) <= max_history
         /\ Len(history) <= Len(all) /\ Len(all) \in Nat /\ Len(low) \in Nat
         /\ detailed => Len(history) = IF Len(all) < max_history THEN Len(all) ELSE max_history
         /\ Kpi!Latencies \in Seq(Nat) /\ Len(Kpi!Latencies) = Len(history)
         /\ Kpi!Confidences \in Seq(Nat)
  <1>1. all \in Seq(Made) /\ Len(all) \in Nat /\ Len(low) \in Nat
    BY LenProperties DEF KpiInv
  <1>2. /\ history \in Seq(Made) /\ Len(history) \in Nat /\ Len(history) <= max_history
        /\ Len(history) <= Len(all)
        /\ detailed => Len(history) = IF Len(all) < max_history THEN Len(all) ELSE max_history
    <2>1. CASE detailed
      <3>1. history = Kpi!LastOf(all, max_history)
        BY <2>1 DEF KpiInv
      <3>2. history \in Seq(Made) /\ Len(history) = IF Len(all) < max_history THEN Len(all) ELSE max_history
        BY <1>1, <3>1, KpiConstants, LastOfFacts
      <3> QED BY <1>1, <3>2, KpiConstants
    <2>2. CASE ~detailed
      <3>1. history = <<>>
        BY <2>2 DEF KpiInv
      <3>2. history \in Seq(Made) /\ Len(history) = 0
        BY <3>1
      <3> QED BY <1>1, <2>2, <3>2, KpiConstants
    <2> QED BY <2>1, <2>2
  <1>3. \A i \in 1 .. Len(history) :
          history[i].p.latency \in Nat /\ history[i].p.confidence \in Nat
    <2> TAKE i \in 1 .. Len(history)
    <2>1. history[i] \in Made
      BY <1>2, ElementOfSeq
    <2> QED BY <2>1, KpiConstants DEF Made
  <1>4. DOMAIN history = 1 .. Len(history)
    BY <1>2
  <1>5. Kpi!Latencies = [i \in 1 .. Len(history) |-> history[i].p.latency]
    BY <1>4 DEF Kpi!Latencies
  <1>6. Kpi!Confidences = [i \in 1 .. Len(history) |-> history[i].p.confidence]
    BY <1>4 DEF Kpi!Confidences
  <1>7. \A n \in Nat : \A f \in [1 .. n -> Nat] : f \in Seq(Nat) /\ Len(f) = n
    OBVIOUS
  <1>8. /\ Kpi!Latencies \in [1 .. Len(history) -> Nat]
        /\ Kpi!Confidences \in [1 .. Len(history) -> Nat]
    BY <1>3, <1>5, <1>6
  <1> QED BY <1>1, <1>2, <1>7, <1>8

LEMMA KpiInit == Kpi!Init => KpiInv
  <1> SUFFICES ASSUME Kpi!Init PROVE KpiInv
    OBVIOUS
  <1>1. /\ detailed \in BOOLEAN /\ history = <<>> /\ low = <<>> /\ high = <<>> /\ all = <<>>
        /\ by_label = [l \in Kpi!Labels |-> 0] /\ by_bucket = [b \in Kpi!Buckets |-> 0]
        /\ by_backend = [b \in Kpi!Backends |-> 0] /\ cost_by_day = [d \in Kpi!Days |-> 0]
        /\ latencies = [b \in Kpi!Backends |-> <<>>] /\ total_cost = 0 /\ kpi_now = 0
        /\ gauges = [rejection |-> <<0, 0>>, p95 |-> 0, throughput |-> 0]
    BY DEF Kpi!Init
  <1>2. /\ all \in Seq(Made) /\ low \in Seq(Made) /\ high \in Seq(Made)
        /\ Len(all) = 0 /\ Len(low) = 0 /\ Len(high) = 0
    BY <1>1
  <1>3. history = IF detailed THEN Kpi!LastOf(all, max_history) ELSE <<>>
    <2>1. max_history \in Nat /\ Len(all) <= max_history
      BY <1>2, KpiConstants
    <2>2. Kpi!LastOf(all, max_history) = all
      BY <1>2, <2>1, LastOfFacts
    <2> QED BY <1>1, <2>2
  <1>4. Cardinality(LowOf(all)) = 0
    <2>1. LowOf(all) = {}
      BY <1>1 DEF LowOf
    <2> QED BY <2>1, FS_EmptySet
  <1>5. /\ CountsTo(by_label, Kpi!Labels, 0) /\ CountsTo(by_bucket, Kpi!Buckets, 0)
        /\ CountsTo(by_backend, Kpi!Backends, 0) /\ CountsTo(cost_by_day, Kpi!Days, 0)
    BY <1>1, KeysAreFinite, CountsToNone
  <1>6. /\ latencies \in [Kpi!Backends -> Seq(Nat)]
        /\ \A b \in Kpi!Backends : Len(latencies[b]) = 0
    BY <1>1
  <1>7. gauges \in [rejection : Kpi!Count \X Kpi!Count, p95 : Nat, throughput : Kpi!Count]
    <2>1. 0 \in Kpi!Count
      BY KpiConstants DEF Kpi!Count
    <2> QED BY <1>1, <2>1
  <1>8. Len(low) = UpTo(Cardinality(LowOf(all)), max_confidence)
    BY <1>2, <1>4, KpiConstants DEF UpTo
  <1> QED BY <1>1, <1>2, <1>3, <1>5, <1>6, <1>7, <1>8, KpiConstants DEF KpiInv

\* One more prediction.
LEMMA KpiRecord ==
  ASSUME KpiInv, NEW p \in Predictions, Kpi!Record(p)
  PROVE  KpiInv'
  <1> DEFINE made == [p |-> p, at |-> kpi_now]
             n == Len(all)
  <1>1. /\ Len(all) < MaxPredictions
        /\ history' = (IF detailed THEN Kpi!LastOf(Append(history, made), max_history) ELSE history)
        /\ by_label' = [by_label EXCEPT ![p.label] = @ + 1]
        /\ by_bucket' = [by_bucket EXCEPT ![Kpi!Bucket(p.confidence)] = @ + 1]
        /\ by_backend' = [by_backend EXCEPT ![p.backend] = @ + 1]
        /\ low' = (IF p.confidence < 60 THEN Kpi!LastOf(Append(low, made), max_confidence) ELSE low)
        /\ high' = (IF p.confidence >= 90 THEN Kpi!LastOf(Append(high, made), max_confidence) ELSE high)
        /\ latencies' = [latencies EXCEPT ![p.backend] = Kpi!LastOf(Append(@, p.latency), max_latencies)]
        /\ total_cost' = total_cost + 1
        /\ cost_by_day' = [cost_by_day EXCEPT ![kpi_now \div day] = @ + 1]
        /\ all' = Append(all, made)
        /\ detailed' = detailed /\ gauges' = gauges /\ kpi_now' = kpi_now
    BY DEF Kpi!Record
  <1>2. /\ p.confidence \in Nat /\ p.latency \in Nat
        /\ p.label \in Kpi!Labels /\ p.backend \in Kpi!Backends
    BY KpiConstants DEF Kpi!Labels, Kpi!Backends
  <1>3. Kpi!Bucket(p.confidence) \in Kpi!Buckets
    BY <1>2 DEF Kpi!Bucket, Kpi!Buckets
  <1>4. kpi_now \div day \in Kpi!Days
    <2>1. kpi_now \in Nat /\ kpi_now <= KpiTime /\ KpiTime \in Nat /\ day \in Nat /\ day >= 1
      BY KpiConstants DEF KpiInv
    <2>2. /\ kpi_now \div day \in Nat /\ KpiTime \div day \in Nat
          /\ kpi_now \div day <= KpiTime \div day
      BY ONLY <2>1, DivisionGrows
    <2> QED BY <2>2 DEF Kpi!Days
  <1>5. made \in Made /\ made.p = p
    BY DEF KpiInv, Made
  <1> HIDE DEF made
  <1>6. all \in Seq(Made) /\ n \in Nat /\ low \in Seq(Made) /\ high \in Seq(Made)
        /\ Len(low) \in Nat /\ Len(low) <= n /\ Len(low) <= max_confidence /\ Len(high) <= max_confidence
    BY LenProperties DEF KpiInv
  <1>7. all' \in Seq(Made) /\ Len(all') = n + 1 /\ Len(all') <= MaxPredictions
    BY <1>1, <1>5, <1>6, KpiConstants, AppendFacts
  <1>8. history' = IF detailed' THEN Kpi!LastOf(all', max_history) ELSE <<>>
    <2>1. CASE detailed
      <3>1. history = Kpi!LastOf(all, max_history)
        BY <2>1 DEF KpiInv
      <3>2. history' = Kpi!LastOf(Append(history, made), max_history)
        BY <1>1, <2>1
      <3>3. Kpi!LastOf(Append(Kpi!LastOf(all, max_history), made), max_history)
              = Kpi!LastOf(Append(all, made), max_history)
        BY <1>5, <1>6, KpiConstants, LastOfAppend
      <3> QED BY <1>1, <2>1, <3>1, <3>2, <3>3
    <2>2. CASE ~detailed
      BY <1>1, <2>2 DEF KpiInv
    <2> QED BY <2>1, <2>2
  <1>9. ASSUME NEW s \in Seq(Made), Len(s) <= max_confidence
        PROVE  LET t == Kpi!LastOf(Append(s, made), max_confidence)
               IN /\ t \in Seq(Made) /\ Len(t) <= max_confidence /\ Len(t) <= Len(s) + 1
                  /\ Len(t) = UpTo(Len(s) + 1, max_confidence)
    <2> DEFINE a == Append(s, made)
               t == Kpi!LastOf(a, max_confidence)
    <2>1. a \in Seq(Made) /\ Len(a) = Len(s) + 1 /\ Len(s) \in Nat
      BY <1>5, AppendFacts
    <2> HIDE DEF a
    <2>2. t \in Seq(Made) /\ Len(t) = IF Len(a) < max_confidence THEN Len(a) ELSE max_confidence
      BY <2>1, KpiConstants, LastOfFacts
    <2> HIDE DEF t
    <2>3. max_confidence \in Nat
      BY KpiConstants
    <2>4. /\ t \in Seq(Made) /\ Len(t) <= max_confidence /\ Len(t) <= Len(s) + 1
          /\ Len(t) = UpTo(Len(s) + 1, max_confidence)
      BY ONLY <1>9, <2>1, <2>2, <2>3 DEF UpTo
    <2> QED BY <2>4 DEF t, a
  <1>10. /\ low' \in Seq(Made) /\ Len(low') <= max_confidence /\ Len(low') <= n + 1
         /\ p.confidence < 60 => Len(low') = UpTo(Len(low) + 1, max_confidence)
         /\ ~(p.confidence < 60) => Len(low') = Len(low)
    <2>1. CASE p.confidence < 60
      <3>1. low' = Kpi!LastOf(Append(low, made), max_confidence)
        BY <1>1, <2>1
      <3>2. /\ low' \in Seq(Made) /\ Len(low') <= max_confidence /\ Len(low') <= Len(low) + 1
            /\ Len(low') = UpTo(Len(low) + 1, max_confidence)
        BY <1>6, <1>9, <3>1
      <3>3. Len(low') <= n + 1
        <4>1. Len(low') \in Nat
          BY <3>2, LenProperties
        <4> QED BY ONLY <1>6, <3>2, <4>1
      <3> QED BY <2>1, <3>2, <3>3
    <2>2. CASE ~(p.confidence < 60)
      <3>1. low' = low
        BY <1>1, <2>2
      <3> QED BY <1>6, <2>2, <3>1
    <2> QED BY <2>1, <2>2
  <1>11. Len(low') = UpTo(Cardinality(LowOf(all')), max_confidence)
    <2> DEFINE c == Cardinality(LowOf(all))
               d == Cardinality(LowOf(all'))
    <2>1. Len(low) = UpTo(c, max_confidence)
      BY DEF KpiInv
    <2>2. c \in Nat /\ d = IF p.confidence < 60 THEN c + 1 ELSE c
      <3>1. all' = Append(all, made)
        BY <1>1
      <3>2. /\ Cardinality(LowOf(all)) \in Nat
            /\ Cardinality(LowOf(Append(all, made))) =
                 IF made.p.confidence < 60 THEN Cardinality(LowOf(all)) + 1 ELSE Cardinality(LowOf(all))
        BY <1>5, <1>6, LowOfAppend
      <3> QED BY <1>5, <3>1, <3>2
    <2> HIDE DEF c, d
    <2>3. CASE p.confidence < 60
      <3>1. Len(low') = UpTo(Len(low) + 1, max_confidence) /\ d = c + 1
        BY <1>10, <2>2, <2>3
      <3>2. max_confidence \in Nat /\ max_confidence >= 1
        BY KpiConstants
      <3> HIDE DEF d
      <3>3. Len(low') = UpTo(d, max_confidence)
        BY ONLY <1>6, <2>1, <2>2, <3>1, <3>2 DEF UpTo
      <3> QED BY <3>3 DEF d
    <2>4. CASE ~(p.confidence < 60)
      <3>1. Len(low') = UpTo(c, max_confidence) /\ d = c
        BY <1>10, <2>1, <2>2, <2>4
      <3>2. Len(low') = UpTo(d, max_confidence)
        BY <3>1
      <3> QED BY <3>2 DEF d
    <2> QED BY <2>3, <2>4
  <1>12. high' \in Seq(Made) /\ Len(high') <= max_confidence
    <2>1. CASE p.confidence >= 90
      <3>1. high' = Kpi!LastOf(Append(high, made), max_confidence)
        BY <1>1, <2>1
      <3> QED BY <1>6, <1>9, <3>1
    <2>2. CASE ~(p.confidence >= 90)
      <3>1. high' = high
        BY <1>1, <2>2
      <3> QED BY <1>6, <3>1
    <2> QED BY <2>1, <2>2
  <1>13. /\ CountsTo(by_label', Kpi!Labels, n + 1) /\ CountsTo(by_bucket', Kpi!Buckets, n + 1)
         /\ CountsTo(by_backend', Kpi!Backends, n + 1) /\ CountsTo(cost_by_day', Kpi!Days, n + 1)
    <2>1. /\ CountsTo(by_label, Kpi!Labels, n) /\ CountsTo(by_bucket, Kpi!Buckets, n)
          /\ CountsTo(by_backend, Kpi!Backends, n) /\ CountsTo(cost_by_day, Kpi!Days, n)
      BY DEF KpiInv
    <2> HIDE DEF n
    <2>2. CountsTo([by_label EXCEPT ![p.label] = @ + 1], Kpi!Labels, n + 1)
      BY <1>2, <1>6, <2>1, KeysAreFinite, CountsOneMore
    <2>3. CountsTo([by_bucket EXCEPT ![Kpi!Bucket(p.confidence)] = @ + 1], Kpi!Buckets, n + 1)
      BY <1>3, <1>6, <2>1, KeysAreFinite, CountsOneMore
    <2>4. CountsTo([by_backend EXCEPT ![p.backend] = @ + 1], Kpi!Backends, n + 1)
      BY <1>2, <1>6, <2>1, KeysAreFinite, CountsOneMore
    <2>5. CountsTo([cost_by_day EXCEPT ![kpi_now \div day] = @ + 1], Kpi!Days, n + 1)
      BY <1>4, <1>6, <2>1, KeysAreFinite, CountsOneMore
    <2> QED BY <1>1, <2>2, <2>3, <2>4, <2>5
  <1>14. /\ latencies' \in [Kpi!Backends -> Seq(Nat)]
         /\ \A b \in Kpi!Backends : Len(latencies'[b]) <= max_latencies
    <2> DEFINE b == p.backend
               a == Append(latencies[b], p.latency)
               t == Kpi!LastOf(a, max_latencies)
    <2>1. /\ latencies \in [Kpi!Backends -> Seq(Nat)]
          /\ \A c \in Kpi!Backends : Len(latencies[c]) <= max_latencies
      BY DEF KpiInv
    <2>2. a \in Seq(Nat)
      BY <1>2, <2>1, AppendFacts
    <2> HIDE DEF a
    <2>3. t \in Seq(Nat) /\ Len(t) = IF Len(a) < max_latencies THEN Len(a) ELSE max_latencies
      BY <2>2, KpiConstants, LastOfFacts
    <2>4. Len(a) \in Nat /\ max_latencies \in Nat
      BY <2>2, KpiConstants, LenProperties
    <2> HIDE DEF t
    <2>5. Len(t) <= max_latencies
      BY ONLY <2>3, <2>4
    <2>6. latencies' = [latencies EXCEPT ![b] = t]
      BY <1>1 DEF t, a
    <2> HIDE DEF b
    <2> QED BY <2>1, <2>3, <2>5, <2>6
  <1>15. total_cost' = n + 1
    BY <1>1 DEF KpiInv
  <1>16. /\ detailed' \in BOOLEAN /\ kpi_now' \in Nat /\ kpi_now' <= KpiTime
         /\ gauges' \in [rejection : Kpi!Count \X Kpi!Count, p95 : Nat, throughput : Kpi!Count]
    BY <1>1 DEF KpiInv
  <1> HIDE DEF n
  <1> QED BY <1>7, <1>8, <1>10, <1>11, <1>12, <1>13, <1>14, <1>15, <1>16 DEF KpiInv

\* The indicators and the clock leave the counters and the windows alone.
LEMMA KpiOthers ==
  ASSUME KpiInv,
         UNCHANGED <<detailed, history, low, high, by_label, by_bucket, by_backend, latencies,
                     total_cost, cost_by_day, all>>,
         kpi_now' \in Nat, kpi_now' <= KpiTime,
         gauges' \in [rejection : Kpi!Count \X Kpi!Count, p95 : Nat, throughput : Kpi!Count]
  PROVE  KpiInv'
  BY DEF KpiInv, LowOf

LEMMA KpiNext == KpiInv /\ [Kpi!Next]_kpiVars => KpiInv'
  <1> SUFFICES ASSUME KpiInv, [Kpi!Next]_kpiVars PROVE KpiInv'
    OBVIOUS
  <1>1. /\ kpi_now \in Nat /\ kpi_now <= KpiTime /\ KpiTime \in Nat
        /\ gauges \in [rejection : Kpi!Count \X Kpi!Count, p95 : Nat, throughput : Kpi!Count]
    BY KpiConstants DEF KpiInv
  <1>2. ASSUME NEW k \in Nat, k <= Len(all) PROVE k \in Kpi!Count
    BY <1>2, WindowHolds, KpiConstants DEF KpiInv, Kpi!Count
  <1>3. ASSUME NEW p \in Predictions, Kpi!Record(p) PROVE KpiInv'
    BY <1>3, KpiRecord
  <1>4. CASE Kpi!GetQuality
    <2>1. gauges' = [gauges EXCEPT !.rejection = <<Len(low), Len(history)>>]
      BY <1>4 DEF Kpi!GetQuality, Kpi!LowRate
    <2>2. Len(low) \in Kpi!Count /\ Len(history) \in Kpi!Count
      <3>1. Len(low) <= Len(all)
        BY DEF KpiInv
      <3> QED BY <1>2, <3>1, WindowHolds
    <2>3. gauges' \in [rejection : Kpi!Count \X Kpi!Count, p95 : Nat, throughput : Kpi!Count]
      BY <1>1, <2>1, <2>2
    <2> QED BY <1>1, <1>4, <2>3, KpiOthers DEF Kpi!GetQuality
  <1>5. CASE Kpi!GetPerformance
    <2>1. gauges' = [gauges EXCEPT !.p95 = Kpi!Percentile(Kpi!Latencies, 95),
                                   !.throughput = Kpi!Throughput]
      BY <1>5 DEF Kpi!GetPerformance
    <2>2. Kpi!Percentile(Kpi!Latencies, 95) \in Nat
      BY WindowHolds, PercentileHolds
    <2>3. Kpi!Throughput \in Kpi!Count
      <3>1. /\ Cardinality({i \in DOMAIN history : history[i].at = kpi_now}) \in Nat
            /\ Cardinality({i \in DOMAIN history : history[i].at = kpi_now}) <= Len(history)
            /\ Kpi!Throughput = Cardinality({i \in DOMAIN history : history[i].at = kpi_now})
        BY WindowHolds, PartOfAll DEF Kpi!Throughput
      <3> QED BY <1>2, <3>1, WindowHolds
    <2>4. gauges' \in [rejection : Kpi!Count \X Kpi!Count, p95 : Nat, throughput : Kpi!Count]
      BY <1>1, <2>1, <2>2, <2>3
    <2> QED BY <1>1, <1>5, <2>4, KpiOthers DEF Kpi!GetPerformance
  <1>6. CASE Kpi!Tick
    <2>1. kpi_now < KpiTime /\ kpi_now' = kpi_now + 1 /\ gauges' = gauges
      BY <1>6 DEF Kpi!Tick
    <2>2. kpi_now' \in Nat /\ kpi_now' <= KpiTime
      BY <1>1, <2>1
    <2> QED BY <1>1, <1>6, <2>1, <2>2, KpiOthers DEF Kpi!Tick
  <1>7. CASE UNCHANGED kpiVars
    BY <1>1, <1>7, KpiOthers DEF kpiVars
  <1> QED BY <1>3, <1>4, <1>5, <1>6, <1>7 DEF Kpi!Next

\* The invariant has what the run checks.
LEMMA CountersHold == KpiInv => Kpi!CountersAgree
  <1> SUFFICES ASSUME KpiInv PROVE Kpi!CountersAgree
    OBVIOUS
  <1>1. /\ Kpi!Of(by_label) = Len(all) /\ Kpi!Of(by_bucket) = Len(all)
        /\ Kpi!Of(by_backend) = Len(all) /\ Kpi!Of(cost_by_day) = Len(all)
    BY OfIsSum DEF KpiInv, CountsTo
  <1>2. /\ Kpi!CostMetrics.total = Len(all)
        /\ Kpi!CostMetrics.per_prediction[1] = Len(all)
        /\ Kpi!CostMetrics.per_prediction[2] = Len(all)
        /\ Kpi!CostMetrics.savings[2] = Len(all)
    BY <1>1 DEF Kpi!CostMetrics, KpiInv
  <1>3. Len(history) \in Nat /\ Len(history) <= Len(all) /\ Len(all) \in Nat /\ history \in Seq(Made)
    BY WindowHolds
  <1>4. Kpi!CostMetrics.last_day <= Len(all)
    <2> DEFINE P == {i \in DOMAIN history : kpi_now - history[i].at < day}
    <2>1. Kpi!CostMetrics.last_day = Kpi!Cardinality(P)
      BY DEF Kpi!CostMetrics
    <2>2. Kpi!Cardinality(P) \in Nat /\ Kpi!Cardinality(P) <= Len(history)
      BY <1>3, PartOfAll
    <2> QED BY <1>3, <2>1, <2>2
  <1>5. Kpi!CostMetrics.savings[1] <= Len(all)
    <2> DEFINE P == {i \in DOMAIN history : history[i].p.cached}
    <2>1. Kpi!CostMetrics.savings[1] = Kpi!Cardinality(P)
      BY DEF Kpi!CostMetrics
    <2>2. Kpi!Cardinality(P) \in Nat /\ Kpi!Cardinality(P) <= Len(history)
      BY <1>3, PartOfAll
    <2> QED BY <1>3, <2>1, <2>2
  <1>6. history = IF detailed THEN Kpi!LastOf(all, max_history) ELSE <<>>
    BY DEF KpiInv
  <1> QED BY <1>1, <1>2, <1>4, <1>5, <1>6 DEF Kpi!CountersAgree

LEMMA TargetsHold == KpiInv => Kpi!TargetsAreMet
  <1> SUFFICES ASSUME KpiInv PROVE Kpi!TargetsAreMet
    OBVIOUS
  <1>1. /\ Kpi!Latencies \in Seq(Nat) /\ Kpi!Confidences \in Seq(Nat)
        /\ Len(Kpi!Latencies) = Len(history) /\ history \in Seq(Made) /\ Len(history) \in Nat
    BY WindowHolds
  <1>2. \A percent \in {50, 95, 99} :
          /\ Kpi!PercentileIsTrue(Kpi!Latencies, percent)
          /\ Kpi!PercentileIsTrue(Kpi!Confidences, percent)
    BY <1>1, PercentileHolds
  <1>3. Kpi!Percentile(Kpi!Latencies, 50) <= Kpi!Percentile(Kpi!Latencies, 95)
    BY <1>1, PercentilesAreOrdered
  <1>4. ASSUME NEW target \in Kpi!ToSet(Kpi!Latencies), Kpi!Compliant(target, target)
        PROVE  100 * Kpi!Cardinality({i \in DOMAIN history : history[i].p.latency <= target})
                 >= 99 * Len(history)
    <2> DEFINE reached == Kpi!Percentile(Kpi!Latencies, 99)
               met == {i \in DOMAIN history : history[i].p.latency <= target}
               below == {i \in DOMAIN Kpi!Latencies : Kpi!Latencies[i] <= reached}
    <2>1. history # <<>> /\ reached <= target
      BY <1>4 DEF Kpi!Compliant
    <2>2. /\ DOMAIN Kpi!Latencies = DOMAIN history
          /\ \A i \in DOMAIN history : Kpi!Latencies[i] = history[i].p.latency
      BY DEF Kpi!Latencies
    <2>3. Kpi!Latencies # <<>>
      BY <1>1, <2>1
    <2>4. 99 \in Nat
      OBVIOUS
    <2>5. Kpi!PercentileIsTrue(Kpi!Latencies, 99) /\ reached \in Nat
      BY <1>1, <2>4, PercentileHolds
    <2>6. 100 * Kpi!Cardinality(below) >= 99 * Len(history)
      BY <1>1, <2>3, <2>5 DEF Kpi!PercentileIsTrue
    <2>7. below \subseteq met
      <3> SUFFICES ASSUME NEW i \in DOMAIN history, Kpi!Latencies[i] <= reached
                   PROVE  history[i].p.latency <= target
        BY <2>2
      <3>1. Kpi!Latencies[i] \in Nat /\ target \in Nat
        BY <1>1, <2>2 DEF Kpi!ToSet
      <3>2. Kpi!Latencies[i] <= target
        BY <2>1, <2>5, <3>1
      <3> QED BY <2>2, <3>2
    <2>8. met \subseteq DOMAIN history /\ below \subseteq DOMAIN history
      BY <2>2
    <2> HIDE DEF met, below, reached
    <2>9. /\ IsFiniteSet(met) /\ Cardinality(met) \in Nat /\ Kpi!Cardinality(met) = Cardinality(met)
          /\ Cardinality(below) \in Nat /\ Kpi!Cardinality(below) = Cardinality(below)
      BY <1>1, <2>8, PartOfAll
    <2>10. Cardinality(below) <= Cardinality(met)
      BY <2>7, <2>9, FS_Subset
    <2>11. 100 * Kpi!Cardinality(met) >= 99 * Len(history)
      BY ONLY <1>1, <2>6, <2>9, <2>10
    <2> QED BY <2>11 DEF met
  <1> QED BY <1>2, <1>3, <1>4 DEF Kpi!TargetsAreMet

LEMMA RatesHold == KpiInv => Kpi!RatesAreExact
  <1> SUFFICES ASSUME KpiInv PROVE Kpi!RatesAreExact
    OBVIOUS
  <1> DEFINE ever == Cardinality(LowOf(all))
             shown == {i \in DOMAIN history : history[i].p.confidence < 60}
  <1>1. /\ history \in Seq(Made) /\ Len(history) \in Nat /\ Len(all) \in Nat /\ Len(low) \in Nat
        /\ detailed => Len(history) = IF Len(all) < max_history THEN Len(all) ELSE max_history
    BY WindowHolds
  <1>2. /\ Len(low) <= Len(all) /\ Len(low) <= max_confidence /\ all \in Seq(Made)
        /\ Len(low) = UpTo(ever, max_confidence)
    BY DEF KpiInv
  <1>3. max_confidence \in Nat /\ max_history \in Nat /\ max_confidence <= max_history
    BY KpiConstants
  <1>4. detailed => Len(low) <= Len(history)
    <2> HIDE DEF ever
    <2> QED BY ONLY <1>1, <1>2, <1>3
  <1>5. ever \in Nat /\ Kpi!Cardinality(LowOf(all)) = ever
    BY <1>2, PartOfAll DEF LowOf
  <1>6. ASSUME detailed, Len(all) <= max_history, ever <= max_confidence
        PROVE  Len(low) = Kpi!Cardinality(shown)
    <2>1. history = all
      <3>1. history = Kpi!LastOf(all, max_history)
        BY <1>6 DEF KpiInv
      <3> QED BY <1>2, <1>3, <1>6, <3>1, LastOfFacts
    <2>2. Len(low) = ever
      <3> HIDE DEF ever
      <3> QED BY ONLY <1>2, <1>3, <1>5, <1>6 DEF UpTo
    <2>3. shown = LowOf(all)
      BY <2>1 DEF LowOf
    <2> HIDE DEF shown
    <2> QED BY <1>5, <2>2, <2>3
  <1>7. Kpi!Cardinality({i \in DOMAIN all : all[i].p.confidence < 60}) = ever
    BY <1>5 DEF LowOf
  <1> HIDE DEF ever, shown
  <1>8. Len(low) = IF ever < max_confidence THEN ever ELSE max_confidence
    BY <1>2 DEF UpTo
  <1> QED BY <1>4, <1>6, <1>7, <1>8 DEF Kpi!RatesAreExact, Kpi!LowRate, shown

LEMMA KpiSound == KpiInv => Kpi!TypeOK /\ Kpi!KpisAreSound
  <1> SUFFICES ASSUME KpiInv PROVE Kpi!TypeOK
    BY CountersHold, TargetsHold, RatesHold DEF Kpi!KpisAreSound
  <1>1. Len(all) \in Nat /\ Len(all) <= MaxPredictions /\ Len(history) <= max_history
    BY WindowHolds DEF KpiInv
  <1>2. ASSUME NEW k \in Nat, k <= Len(all) PROVE k \in Kpi!Count
    BY <1>1, <1>2, KpiConstants DEF Kpi!Count
  <1>3. ASSUME NEW S, NEW f, CountsTo(f, S, Len(all)) PROVE f \in [S -> Kpi!Count]
    BY <1>2, <1>3 DEF CountsTo
  <1>4. /\ by_label \in [Kpi!Labels -> Kpi!Count] /\ by_bucket \in [Kpi!Buckets -> Kpi!Count]
        /\ by_backend \in [Kpi!Backends -> Kpi!Count] /\ cost_by_day \in [Kpi!Days -> Kpi!Count]
    BY <1>3 DEF KpiInv
  <1>5. total_cost \in Kpi!Count
    BY <1>1, <1>2 DEF KpiInv
  <1>6. kpi_now \in 0 .. KpiTime
    BY KpiConstants DEF KpiInv
  <1>7. /\ gauges.rejection \in Kpi!Count \X Kpi!Count /\ gauges.p95 \in Nat
        /\ gauges.throughput \in Kpi!Count
    BY DEF KpiInv
  <1>8. /\ detailed \in BOOLEAN /\ Len(low) <= max_confidence /\ Len(high) <= max_confidence
        /\ \A b \in Kpi!Backends : Len(latencies[b]) <= max_latencies
    BY DEF KpiInv
  <1> QED BY <1>1, <1>4, <1>5, <1>6, <1>7, <1>8 DEF Kpi!TypeOK

-----------------------------------------------------------------------------
(*****************************************************************************)
(* The health report.  While components change, each status that the         *)
(* report has gathered was true at some moment since the report began,       *)
(* unless it is that of a Vault which was not asked again.                   *)
(*****************************************************************************)
\* States that components are in.
AllStates == UNION {Health!States(x) : x \in Health!Component}
\* Statuses that a report may give.
AllStatuses == UNION {Health!Statuses(x) : x \in Health!Component}

\* A status that the report may hold of a component: one that it deserved since the report
\* began, "healthy" for a Vault that was not looked at, or None for what is switched off.
Deserves(asked, deserved, memory_used, x, s) ==
  /\ x \notin asked => s = None
  /\ (x \in asked /\ ~(memory_used /\ x = "secrets_backend")) => s \in deserved[x]
  /\ (x \in asked /\ memory_used /\ x = "secrets_backend") => s = "healthy"

\* What the report has gathered of each component was true since it began.
GatheredWasTrue(found) ==
  \A x \in Health!Component : Deserves(Health!Asked, seen, reused, x, found[x])

\* What has been gathered was true, and so is a report that is finished.
HealthInv ==
  /\ Health!TypeOK
  /\ component \in [Health!Component -> AllStates] /\ seen \in [Health!Component -> SUBSET AllStatuses]
  /\ position # None =>
       /\ \A x \in Health!Component : Health!Status(x, component[x]) \in seen[x]
       /\ \A k \in 1 .. 5 : k < position =>
            Deserves(Health!Asked, seen, reused, Health!Components[k], statuses[Health!Components[k]])
  /\ (report # None /\ position = None) =>
       /\ GatheredWasTrue(report.dependencies)
       /\ report.status = (IF Health!AllHealthy(report.dependencies) THEN "healthy" ELSE "unhealthy")

LEMMA HealthConstants ==
  /\ MaxChanges \in Nat /\ MaxReports \in Nat /\ None \notin Nat
  /\ \A x \in Health!Component : None \notin Health!Statuses(x)
  /\ Health!Component = {"model", "system", "secrets_backend", "kafka", "async_batch"}
  /\ Len(Health!Components) = 5 /\ DOMAIN Health!Components = 1 .. 5
  /\ \A k \in 1 .. 5 : Health!Components[k] \in Health!Component
  /\ \A x \in Health!Component : \E k \in 1 .. 5 : Health!Components[k] = x
  /\ \A k \in 1 .. 5 : Health!Components[k] = "secrets_backend" <=> k = 3
  <1>1. /\ Len(Health!Components) = 5 /\ DOMAIN Health!Components = 1 .. 5
    BY DEF Health!Components
  <1>2. /\ Health!Components[1] = "model" /\ Health!Components[2] = "system"
        /\ Health!Components[3] = "secrets_backend" /\ Health!Components[4] = "kafka"
        /\ Health!Components[5] = "async_batch"
    BY DEF Health!Components
  <1>3. \A k : k \in 1 .. 5 <=> k = 1 \/ k = 2 \/ k = 3 \/ k = 4 \/ k = 5
    OBVIOUS
  <1>4. Health!Component = {Health!Components[k] : k \in 1 .. 5}
    BY <1>1 DEF Health!Component, Health!ToSet
  <1>5. Health!Component = {"model", "system", "secrets_backend", "kafka", "async_batch"}
    BY <1>2, <1>3, <1>4
  <1>6. \A k \in 1 .. 5 : Health!Components[k] = "secrets_backend" <=> k = 3
    BY <1>2, <1>3
  <1> QED BY <1>1, <1>4, <1>5, <1>6, Assumptions DEF Health!HealthAssumption

LEMMA StatesHold ==
  /\ \A x \in Health!Component : Health!States(x) \subseteq AllStates
  /\ \A x \in Health!Component : "healthy" \in Health!States(x)
  /\ \A x \in {"kafka", "async_batch"} : "disabled" \in Health!States(x)
  /\ \A x \in Health!Component : Health!Statuses(x) \subseteq AllStatuses
  /\ \A x \in Health!Component : \A s \in Health!States(x) :
       Health!Status(x, s) \in Health!Statuses(x)
  <1>1. \A x \in Health!Component : Health!States(x) \subseteq AllStates
    BY DEF AllStates
  <1>2. \A x \in {"model", "system", "secrets_backend", "kafka", "async_batch"} :
          "healthy" \in Health!States(x)
    BY DEF Health!States
  <1>3. \A x \in {"kafka", "async_batch"} : "disabled" \in Health!States(x)
    BY DEF Health!States
  <1>4. \A x \in Health!Component : Health!Statuses(x) \subseteq AllStatuses
    BY DEF AllStatuses
  <1>5. \A x \in Health!Component : \A s \in Health!States(x) :
          Health!Status(x, s) \in Health!Statuses(x)
    BY DEF Health!Statuses
  <1> QED BY <1>1, <1>2, <1>3, <1>4, <1>5, HealthConstants

\* Once remembered, Vault is healthy to whoever asks.
LEMMA SecretsStatusHolds ==
  ASSUME HealthInv
  PROVE  /\ Health!SecretsStatus \in AllStatuses
         /\ remembered => Health!SecretsStatus = "healthy"
         /\ ~remembered =>
              Health!SecretsStatus = Health!Status("secrets_backend", component["secrets_backend"])
  <1>1. /\ "secrets_backend" \in Health!Component
        /\ component["secrets_backend"] \in Health!States("secrets_backend")
    BY HealthConstants DEF HealthInv, Health!TypeOK
  <1>2. Health!Status("secrets_backend", component["secrets_backend"]) \in AllStatuses
    BY <1>1, StatesHold
  <1>3. "healthy" \in AllStatuses
    <2>1. Health!Status("secrets_backend", "healthy") = "healthy"
      BY DEF Health!Status
    <2> QED BY <1>1, <2>1, StatesHold
  <1> QED BY <1>2, <1>3 DEF Health!SecretsStatus

\* Vault is remembered or not: a Boolean.
LEMMA RememberHolds == HealthInv /\ Health!Remember => remembered' \in BOOLEAN
  <1> SUFFICES ASSUME HealthInv, Health!Remember PROVE remembered' \in BOOLEAN
    OBVIOUS
  <1>1. remembered' = (remembered \/ component["secrets_backend"] # "away")
    BY DEF Health!Remember
  <1> QED BY <1>1, Zenon

LEMMA HealthInit == Health!Init => HealthInv
  <1> SUFFICES ASSUME Health!Init PROVE HealthInv
    OBVIOUS
  <1>1. /\ component \in [Health!Component -> AllStates]
        /\ \A x \in Health!Component : component[x] \in Health!States(x)
    <2>1. component \in [Health!Component -> {"healthy", "disabled"}]
      BY DEF Health!Init
    <2>2. ASSUME NEW x \in Health!Component PROVE component[x] \in Health!States(x)
      <3>1. CASE component[x] = "healthy"
        BY <3>1, StatesHold
      <3>2. CASE component[x] # "healthy"
        <4>1. x \in {"kafka", "async_batch"} /\ component[x] = "disabled"
          BY <2>1, <3>2 DEF Health!Init
        <4> QED BY <4>1, StatesHold
      <3> QED BY <3>1, <3>2
    <2> QED BY <2>1, <2>2, StatesHold
  <1>2. /\ seen \in [Health!Component -> SUBSET AllStatuses]
        /\ \A x \in Health!Component : seen[x] \subseteq Health!Statuses(x)
    BY DEF Health!Init
  <1>3. statuses \in Health!Gathered
    BY DEF Health!Init, Health!Gathered, Health!Unasked
  <1>4. /\ warm \in BOOLEAN /\ ran \in {"fast", "slow", "failed"}
        /\ enabled \subseteq {"kafka", "async_batch"}
        /\ remembered \in BOOLEAN /\ reused \in BOOLEAN
    BY DEF Health!Init
  <1>5. changes \in 0 .. MaxChanges /\ reports \in 0 .. MaxReports /\ position = None /\ report = None
    BY HealthConstants DEF Health!Init
  <1> QED BY <1>1, <1>2, <1>3, <1>4, <1>5 DEF HealthInv, Health!TypeOK

LEMMA HealthBegin == HealthInv /\ Health!Begin => HealthInv'
  <1> SUFFICES ASSUME HealthInv, Health!Begin PROVE HealthInv'
    OBVIOUS
  <1>1. /\ position' = 1 /\ statuses' = Health!Unasked /\ reports < MaxReports /\ reports' = reports + 1
        /\ seen' = [x \in Health!Component |-> {Health!Status(x, component[x])}] /\ reused' = FALSE
        /\ UNCHANGED <<enabled, component, remembered, report, warm, ran, changes>>
    BY DEF Health!Begin
  <1>2. /\ component \in [Health!Component -> AllStates]
        /\ \A x \in Health!Component : component[x] \in Health!States(x)
    BY DEF HealthInv, Health!TypeOK
  <1>3. /\ \A x \in Health!Component :
             Health!Status(x, component[x]) \in Health!Statuses(x) /\ Health!Statuses(x) \subseteq AllStatuses
        /\ \A x \in Health!Component : seen'[x] = {Health!Status(x, component[x])}
    BY <1>1, <1>2, StatesHold
  <1>4. /\ seen' \in [Health!Component -> SUBSET AllStatuses]
        /\ \A x \in Health!Component :
             seen'[x] \subseteq Health!Statuses(x) /\ Health!Status(x, component[x]) \in seen'[x]
    BY <1>1, <1>3
  <1>5. statuses' \in Health!Gathered
    BY <1>1 DEF Health!Gathered, Health!Unasked
  <1>6. reports' \in 0 .. MaxReports
    <2>1. reports \in Nat
      BY DEF HealthInv, Health!TypeOK
    <2> QED BY ONLY <1>1, <2>1, HealthConstants
  <1>7. position' \in 1 .. Len(Health!Components) + 1 /\ position' # None
        /\ \A k \in 1 .. 5 : ~(k < position')
    BY <1>1, HealthConstants
  <1>8. Health!TypeOK'
    BY <1>1, <1>2, <1>4, <1>5, <1>6, <1>7 DEF HealthInv, Health!TypeOK, Health!Gathered
  <1>9. \A x \in Health!Component : Health!Status(x, component[x])' \in seen'[x]
    BY <1>1, <1>4 DEF Health!Status
  <1> QED BY <1>1, <1>2, <1>4, <1>7, <1>8, <1>9 DEF HealthInv

\* The report has one more component: its status is deserved, those it had remain so.
LEMMA HealthGathers ==
  ASSUME HealthInv, position \in 1 .. 5, NEW s \in AllStatuses \union {None},
         statuses' = [statuses EXCEPT ![Health!Components[position]] = s],
         position' = position + 1, remembered' \in BOOLEAN, reused' \in BOOLEAN,
         position # 3 => reused' = reused,
         Deserves(Health!Asked, seen, reused', Health!Components[position], s),
         UNCHANGED <<enabled, component, report, warm, ran, changes, reports, seen>>
  PROVE  HealthInv'
  <1> DEFINE x == Health!Components[position]
  <1>1. x \in Health!Component /\ position # None /\ position' # None
        /\ position' \in 1 .. Len(Health!Components) + 1
    BY HealthConstants
  <1>2. statuses \in [Health!Component -> AllStatuses \union {None}]
    BY DEF HealthInv, Health!TypeOK, Health!Gathered, AllStatuses
  <1>3. statuses' \in Health!Gathered
    <2> HIDE DEF x
    <2>1. statuses' \in [Health!Component -> AllStatuses \union {None}]
      BY <1>2 DEF x
    <2> QED BY <2>1 DEF Health!Gathered, AllStatuses
  <1>4. Health!TypeOK'
    BY <1>1, <1>3 DEF HealthInv, Health!TypeOK, Health!Gathered
  <1>5. Health!Asked' = Health!Asked
    BY DEF Health!Asked
  <1>6. ASSUME NEW k \in 1 .. 5, k < position'
        PROVE  Deserves(Health!Asked', seen', reused', Health!Components[k], statuses'[Health!Components[k]])
    <2> DEFINE y == Health!Components[k]
    <2>1. y \in Health!Component
      BY HealthConstants
    <2>2. CASE y = x
      <3>1. statuses'[y] = s
        BY <1>2, <2>1, <2>2
      <3> QED BY <1>5, <2>2, <3>1
    <2>3. CASE y # x
      <3>1. k # position /\ k < position
        BY <1>6, <2>3
      <3>2. statuses'[y] = statuses[y]
        BY <1>2, <2>1, <2>3
      <3>3. Deserves(Health!Asked, seen, reused, y, statuses[y])
        BY <1>1, <3>1 DEF HealthInv
      <3>4. reused' = reused \/ y # "secrets_backend"
        BY <3>1, HealthConstants
      <3> HIDE DEF x, y
      <3>5. Deserves(Health!Asked, seen, reused', y, statuses[y])
        BY <3>3, <3>4 DEF Deserves
      <3> QED BY <1>5, <3>2, <3>5 DEF y
    <2> QED BY <2>2, <2>3
  <1>7. \A y \in Health!Component : Health!Status(y, component[y])' \in seen'[y]
    BY <1>1 DEF HealthInv, Health!Status
  <1> HIDE DEF x
  <1> QED BY <1>1, <1>4, <1>6, <1>7 DEF HealthInv

LEMMA HealthCheck == HealthInv /\ (Health!Check \/ Health!CheckSecrets) => HealthInv'
  <1> SUFFICES ASSUME HealthInv, Health!Check \/ Health!CheckSecrets PROVE HealthInv'
    OBVIOUS
  <1> DEFINE x == Health!Components[position]
  <1>1. /\ position \in 1 .. 5 /\ position' = position + 1 /\ position # None
        /\ UNCHANGED <<enabled, component, report, warm, ran, changes, reports, seen>>
    BY HealthConstants DEF Health!Check, Health!CheckSecrets
  <1>2. /\ x \in Health!Component /\ Health!Status(x, component[x]) \in seen[x]
        /\ Health!Status(x, component[x]) \in AllStatuses
    BY <1>1, HealthConstants, StatesHold DEF HealthInv, Health!TypeOK
  <1>3. CASE Health!Check
    <2> DEFINE s == IF x \in Health!Asked THEN Health!Status(x, component[x]) ELSE None
    <2>1. /\ statuses' = [statuses EXCEPT ![x] = s] /\ UNCHANGED <<remembered, reused>>
          /\ x # "secrets_backend"
      BY <1>3 DEF Health!Check
    <2>2. s \in AllStatuses \union {None} /\ remembered' \in BOOLEAN /\ reused' \in BOOLEAN
      BY <1>2, <2>1 DEF HealthInv, Health!TypeOK
    <2>3. Deserves(Health!Asked, seen, reused', x, s)
      BY <1>2, <2>1 DEF Deserves
    <2> HIDE DEF s
    <2>4. position # 3 => reused' = reused
      BY <2>1
    <2> QED BY <1>1, <2>1, <2>2, <2>3, <2>4, HealthGathers
  <1>4. CASE Health!CheckSecrets
    <2>1. /\ x = "secrets_backend" /\ statuses' = [statuses EXCEPT ![x] = Health!SecretsStatus]
          /\ reused' = remembered /\ Health!Remember /\ position = 3
      BY <1>1, <1>4, HealthConstants DEF Health!CheckSecrets
    <2>2. /\ Health!SecretsStatus \in AllStatuses \union {None}
          /\ remembered' \in BOOLEAN /\ reused' \in BOOLEAN
      BY <2>1, SecretsStatusHolds, RememberHolds DEF HealthInv, Health!TypeOK
    <2>3. /\ reused' => Health!SecretsStatus = "healthy"
          /\ ~reused' => Health!SecretsStatus \in seen[x]
      BY <1>2, <2>1, SecretsStatusHolds
    <2>4. x \in Health!Asked
      BY <1>2, <2>1 DEF Health!Asked
    <2>5. Deserves(Health!Asked, seen, reused', x, Health!SecretsStatus)
      BY <2>1, <2>3, <2>4 DEF Deserves
    <2> QED BY <1>1, <2>1, <2>2, <2>5, HealthGathers
  <1> QED BY <1>3, <1>4

LEMMA HealthReports == HealthInv /\ Health!Report => HealthInv'
  <1> SUFFICES ASSUME HealthInv, Health!Report PROVE HealthInv'
    OBVIOUS
  <1> DEFINE verdict == IF Health!AllHealthy(statuses) THEN "healthy" ELSE "unhealthy"
  <1>1. /\ position = 6 /\ position' = None
        /\ report' = [status |-> verdict, dependencies |-> statuses]
        /\ UNCHANGED <<enabled, component, remembered, statuses, warm, ran, changes, reports, seen, reused>>
    BY HealthConstants DEF Health!Report
  <1>2. position # None
    BY <1>1, HealthConstants
  <1>3. GatheredWasTrue(statuses)
    <2> SUFFICES ASSUME NEW x \in Health!Component PROVE Deserves(Health!Asked, seen, reused, x, statuses[x])
      BY DEF GatheredWasTrue
    <2>1. PICK k \in 1 .. 5 : Health!Components[k] = x
      BY HealthConstants
    <2>2. k < position
      BY <1>1
    <2> QED BY <1>2, <2>1, <2>2 DEF HealthInv
  <1>4. report'.status = verdict /\ report'.dependencies = statuses /\ verdict \in {"healthy", "unhealthy"}
    BY <1>1
  <1>5. Health!AllHealthy(statuses) = Health!AllHealthy(report'.dependencies)
    BY <1>4
  <1> HIDE DEF verdict
  <1>6. Health!TypeOK'
    BY <1>1, <1>4 DEF HealthInv, Health!TypeOK, Health!Gathered
  <1>7. GatheredWasTrue(report.dependencies)'
    BY <1>1, <1>3, <1>4 DEF GatheredWasTrue, Health!Asked
  <1>8. report'.status = (IF Health!AllHealthy(report'.dependencies) THEN "healthy" ELSE "unhealthy")
    BY <1>4, <1>5 DEF verdict
  <1>9. (Health!AllHealthy(report.dependencies))' <=> Health!AllHealthy(report'.dependencies)
    BY DEF Health!AllHealthy
  <1> QED BY <1>1, <1>6, <1>7, <1>8, <1>9 DEF HealthInv

LEMMA HealthChange ==
  ASSUME HealthInv, NEW x \in Health!Component, NEW s \in Health!States(x), Health!Change(x, s)
  PROVE  HealthInv'
  <1> DEFINE r == Health!Status(x, s)
  <1>1. /\ component' = [component EXCEPT ![x] = s]
        /\ seen' = [seen EXCEPT ![x] = seen[x] \union {r}]
        /\ changes < MaxChanges /\ changes' = changes + 1
        /\ UNCHANGED <<enabled, remembered, position, statuses, report, warm, ran, reports, reused>>
    BY DEF Health!Change
  <1>2. /\ component \in [Health!Component -> AllStates] /\ seen \in [Health!Component -> SUBSET AllStatuses]
        /\ \A y \in Health!Component : component[y] \in Health!States(y) /\ seen[y] \subseteq Health!Statuses(y)
    BY DEF HealthInv, Health!TypeOK
  <1>3. s \in AllStates /\ r \in AllStatuses /\ r \in Health!Statuses(x)
    BY StatesHold
  <1>4. /\ component' \in [Health!Component -> AllStates]
        /\ \A y \in Health!Component : component'[y] \in Health!States(y)
        /\ component'[x] = s /\ \A y \in Health!Component : y # x => component'[y] = component[y]
    BY <1>1, <1>2, <1>3
  <1>5. /\ seen' \in [Health!Component -> SUBSET AllStatuses] /\ r \in seen'[x]
        /\ \A y \in Health!Component : seen'[y] \subseteq Health!Statuses(y) /\ seen[y] \subseteq seen'[y]
    <2> HIDE DEF r
    <2> QED BY <1>1, <1>2, <1>3
  <1>6. changes' \in 0 .. MaxChanges
    <2>1. changes \in Nat
      BY DEF HealthInv, Health!TypeOK
    <2> QED BY ONLY <1>1, <2>1, HealthConstants
  <1>7. Health!TypeOK'
    BY <1>1, <1>4, <1>5, <1>6 DEF HealthInv, Health!TypeOK, Health!Gathered
  <1>8. ASSUME NEW y \in Health!Component, NEW t, Deserves(Health!Asked, seen, reused, y, t)
        PROVE  Deserves(Health!Asked', seen', reused', y, t)
    <2> HIDE DEF r
    <2>1. Health!Asked' = Health!Asked /\ reused' = reused /\ seen[y] \subseteq seen'[y]
      BY <1>1, <1>5 DEF Health!Asked
    <2> QED BY <1>8, <2>1 DEF Deserves
  <1>9. ASSUME position # None
        PROVE  \A y \in Health!Component : Health!Status(y, component[y])' \in seen'[y]
    <2> SUFFICES ASSUME NEW y \in Health!Component
                 PROVE  Health!Status(y, component[y])' \in seen'[y]
      OBVIOUS
    <2>1. CASE y = x
      <3>1. Health!Status(y, component[y])' = r
        BY <1>4, <2>1 DEF Health!Status
      <3> QED BY <1>5, <2>1, <3>1
    <2>2. CASE y # x
      <3>1. Health!Status(y, component[y])' = Health!Status(y, component[y])
        BY <1>4, <2>2 DEF Health!Status
      <3> QED BY <1>5, <1>9, <3>1 DEF HealthInv
    <2> QED BY <2>1, <2>2
  <1>10. ASSUME position # None, NEW k \in 1 .. 5, k < position
         PROVE  Deserves(Health!Asked', seen', reused', Health!Components[k],
                         statuses'[Health!Components[k]])
    <2>1. /\ Deserves(Health!Asked, seen, reused, Health!Components[k], statuses[Health!Components[k]])
          /\ Health!Components[k] \in Health!Component
      BY <1>10, HealthConstants DEF HealthInv
    <2> QED BY <1>1, <1>8, <2>1
  <1>11. ASSUME report # None, position = None
         PROVE  GatheredWasTrue(report.dependencies)'
    <2>1. \A y \in Health!Component :
            Deserves(Health!Asked, seen, reused, y, report.dependencies[y])
      BY <1>11 DEF HealthInv, GatheredWasTrue
    <2>2. \A y \in Health!Component :
            Deserves(Health!Asked', seen', reused', y, report.dependencies[y])
      BY <1>8, <2>1
    <2> QED BY <1>1, <2>2 DEF GatheredWasTrue
  <1>12. (report' # None /\ position' = None) =>
           (report.status = (IF Health!AllHealthy(report.dependencies) THEN "healthy" ELSE "unhealthy"))'
    BY <1>1 DEF HealthInv, Health!AllHealthy
  <1> HIDE DEF r
  <1> QED BY <1>1, <1>4, <1>5, <1>7, <1>9, <1>10, <1>11, <1>12 DEF HealthInv

LEMMA HealthNext == HealthInv /\ [Health!Next]_healthVars => HealthInv'
  <1> SUFFICES ASSUME HealthInv, [Health!Next]_healthVars PROVE HealthInv'
    OBVIOUS
  <1>1. ASSUME remembered' \in BOOLEAN, warm' \in BOOLEAN, ran' \in {"fast", "slow", "failed"},
               UNCHANGED <<enabled, component, position, statuses, report, changes, reports, seen, reused>>
        PROVE  HealthInv'
    BY <1>1 DEF HealthInv, Health!TypeOK, Health!Gathered, GatheredWasTrue, Health!Asked,
                Health!AllHealthy, Health!Status
  <1>2. remembered \in BOOLEAN /\ warm \in BOOLEAN /\ ran \in {"fast", "slow", "failed"}
    BY DEF HealthInv, Health!TypeOK
  <1>3. ASSUME NEW result \in {"fast", "slow", "failed"}, Health!WarmUp(result) PROVE HealthInv'
    BY <1>1, <1>2, <1>3 DEF Health!WarmUp
  <1>4. CASE Health!Probe
    BY <1>1, <1>2, <1>4, RememberHolds DEF Health!Probe
  <1>5. CASE Health!Forget
    BY <1>1, <1>2, <1>5 DEF Health!Forget
  <1>6. CASE UNCHANGED healthVars
    BY <1>1, <1>2, <1>6 DEF healthVars
  <1> QED BY <1>3, <1>4, <1>5, <1>6, HealthBegin, HealthCheck, HealthReports, HealthChange
          DEF Health!Next

LEMMA HealthSound == HealthInv => Health!HealthIsHonest
  <1> SUFFICES ASSUME HealthInv PROVE Health!HealthIsHonest
    OBVIOUS
  <1>1. ASSUME report # None, position = None
        PROVE  LET looked == Health!Asked \ (IF reused THEN {"secrets_backend"} ELSE {}) IN
               /\ \A x \in looked : report.dependencies[x] \in seen[x]
               /\ report.status = "healthy" => \A x \in looked : "healthy" \in seen[x]
               /\ report.status = "unhealthy" => \E x \in looked : seen[x] # {"healthy"}
    <2> DEFINE found == report.dependencies
               looked == Health!Asked \ (IF reused THEN {"secrets_backend"} ELSE {})
    <2>1. GatheredWasTrue(found) /\ (report.status = "healthy" <=> Health!AllHealthy(found))
      BY <1>1 DEF HealthInv
    <2>2. \A x \in looked : x \in Health!Component /\ found[x] \in seen[x] /\ found[x] # None
      BY <2>1, HealthConstants DEF GatheredWasTrue, Deserves, Health!Asked, HealthInv, Health!TypeOK
    <2>3. ASSUME NEW x \in Health!Component, found[x] \notin {"healthy", None}
          PROVE  x \in looked
      <3>1. Deserves(Health!Asked, seen, reused, x, found[x])
        BY <2>1 DEF GatheredWasTrue
      <3> HIDE DEF found
      <3>2. x \in Health!Asked /\ ~(reused /\ x = "secrets_backend")
        BY <2>3, <3>1 DEF Deserves
      <3> QED BY <3>2
    <2> HIDE DEF found, looked
    <2>4. report.status = "healthy" => \A x \in looked : "healthy" \in seen[x]
      BY <2>1, <2>2 DEF Health!AllHealthy
    <2>5. report.status = "unhealthy" => \E x \in looked : seen[x] # {"healthy"}
      <3> HAVE report.status = "unhealthy"
      <3>1. PICK x \in Health!Component : found[x] \notin {"healthy", None}
        BY <2>1 DEF Health!AllHealthy
      <3> QED BY <2>2, <2>3, <3>1
    <2> QED BY <2>2, <2>4, <2>5 DEF found, looked
  <1>2. Health!ReportIsHonest
    BY <1>1 DEF Health!ReportIsHonest
  <1>3. Health!ProbesAreOrdered
    <2> DEFINE now == [x \in Health!Component |->
                        IF x = "secrets_backend" THEN Health!SecretsStatus
                        ELSE IF x \in Health!Asked THEN Health!Status(x, component[x]) ELSE None]
    <2>1. ASSUME Health!AllHealthy(now) PROVE Health!SimpleHealthy
      <3>1. now["model"] \in {"healthy", None} /\ now["secrets_backend"] \in {"healthy", None}
        BY <2>1, HealthConstants DEF Health!AllHealthy
      <3>2. now["secrets_backend"] = Health!SecretsStatus
        BY HealthConstants
      <3>3. now["model"] = Health!Status("model", component["model"])
        BY HealthConstants DEF Health!Asked
      <3>4. component["model"] \in Health!States("model")
        BY HealthConstants DEF HealthInv, Health!TypeOK
      <3>5. Health!Status("model", component["model"]) # None
        BY <3>4, HealthConstants, StatesHold
      <3>6. component["model"] = "healthy"
        <4>1. Health!Status("model", component["model"]) = "healthy"
          BY <3>1, <3>3, <3>5
        <4>2. component["model"] # "ready, not described"
          BY <4>1 DEF Health!Status
        <4>3. "model" # "secrets_backend"
          OBVIOUS
        <4> QED BY <4>1, <4>2, <4>3, Zenon DEF Health!Status
      <3>7. Health!SecretsStatus # None
        <4>1. component["secrets_backend"] \in Health!States("secrets_backend")
          BY HealthConstants DEF HealthInv, Health!TypeOK
        <4>2. Health!Status("secrets_backend", component["secrets_backend"]) # None
          BY <4>1, HealthConstants, StatesHold
        <4>3. "healthy" # None
          <5>1. Health!Status("model", "healthy") = "healthy"
            BY DEF Health!Status
          <5> QED BY <5>1, HealthConstants, StatesHold
        <4> QED BY <4>2, <4>3, SecretsStatusHolds
      <3> QED BY <3>1, <3>2, <3>6, <3>7 DEF Health!SimpleHealthy, Health!Ready
    <2> QED BY <2>1 DEF Health!ProbesAreOrdered, Health!SimpleHealthy
  <1> QED BY <1>2, <1>3 DEF Health!HealthIsHonest

-----------------------------------------------------------------------------
(***************************************************************************)
(* All components together.  A behaviour follows one of them while the     *)
(* others rest, so each invariant is kept by its component's own steps.    *)
(***************************************************************************)
Inv ==
  /\ SettingsInv /\ SecretInv /\ VaultInv /\ ScriptInv /\ CacheInv /\ RegistryInv /\ ScalerInv
  /\ ApiInv /\ KpiInv /\ HealthInv

LEMMA InitInv == Init => Inv
  <1> SUFFICES ASSUME Init PROVE Inv
    OBVIOUS
  <1>1. /\ Setting!Init /\ Secret!Init /\ Vault!Init /\ Script!Init /\ Models!Init
        /\ Registry!Init /\ Scaler!Init /\ Api!Init /\ Kpi!Init /\ Health!Init
    BY DEF Init
  <1>2. SettingsInv /\ SecretInv /\ VaultInv /\ ScriptInv
    BY <1>1, SettingsInit, SecretInit, VaultInit, ScriptInit
  <1>3. CacheInv /\ RegistryInv /\ ScalerInv
    BY <1>1, CacheInit, RegistryInit, ScalerInit
  <1>4. ApiInv /\ KpiInv /\ HealthInv
    BY <1>1, ApiInit, KpiInit, HealthInit
  <1> QED BY <1>2, <1>3, <1>4 DEF Inv

LEMMA NextInv == Inv /\ [Next]_vars => Inv'
  <1> SUFFICES ASSUME Inv, [Next]_vars PROVE Inv'
    OBVIOUS
  <1>1. /\ [Setting!Next]_settingsVars /\ [Secret!Next]_secretVars /\ [Vault!Next]_vaultVars
        /\ [Script!Next]_scriptVars /\ [Models!Next]_cacheVars
        /\ [Registry!Next]_versionVars /\ [Scaler!Next]_scalerVars
        /\ [Api!Next]_apiVars /\ [Kpi!Next]_kpiVars /\ [Health!Next]_healthVars
    BY DEF Next, vars
  <1>2. SettingsInv' /\ SecretInv' /\ VaultInv' /\ ScriptInv'
    BY <1>1, SettingsNext, SecretNext, VaultNext, ScriptNext DEF Inv
  <1>3. CacheInv' /\ RegistryInv' /\ ScalerInv'
    BY <1>1, CacheNext, RegistryNext, ScalerNext DEF Inv
  <1>4. ApiInv' /\ KpiInv' /\ HealthInv'
    BY <1>1, ApiNext, KpiNext, HealthNext DEF Inv
  <1> QED BY <1>2, <1>3, <1>4 DEF Inv

LEMMA InvHolds == Spec => []Inv
  <1> QED BY InitInv, NextInv, PTL DEF Spec

-----------------------------------------------------------------------------
\* Every variable of every component keeps its type, whatever operators, clients and
\* failures there are and however they interleave.
THEOREM TypeCorrect == Spec => []TypeOK
  <1>1. Inv => TypeOK
    <2> SUFFICES ASSUME Inv PROVE TypeOK
      OBVIOUS
    <2>1. Setting!TypeOK /\ Secret!TypeOK /\ Vault!TypeOK /\ Script!TypeOK
      BY DEF Inv, SettingsInv, SecretInv, VaultInv, ScriptInv
    <2>2. Models!TypeOK /\ Registry!TypeOK /\ Scaler!TypeOK
      BY ScalerSound DEF Inv, CacheInv, RegistryInv
    <2>3. Api!TypeOK /\ Kpi!TypeOK /\ Health!TypeOK
      BY ApiSound, KpiSound DEF Inv, HealthInv
    <2> QED BY <2>1, <2>2, <2>3 DEF TypeOK
  <1> QED BY <1>1, InvHolds, PTL

\* settings.py, secrets.py, vault_health.py: what the operator gave is in every settings
\* object and in the environment, unless it is spelled otherwise than the profile spells
\* it, the first profile decides the rest, alike in every process; a secret that is read
\* was current within the time the cache keeps it and the time its fetcher took to store
\* it, one's own writes are seen by those who fetch after them, and an outage of Vault is
\* reported within two checks, unless the last answer is a day old or more.
THEOREM ConfigurationIsSound == Spec => []ConfigurationHolds
  <1>1. Inv => ConfigurationHolds
    BY SettingsSound, SecretSound, VaultSound DEF Inv, ConfigurationHolds
  <1> QED BY <1>1, InvHolds, PTL

\* migrate-secrets-to-vault.py, rotate-secrets.py: whatever fails and whichever secret is
\* rotated during the migration, the counts add up and the exit codes are true.
THEOREM ScriptsTellTheTruth == Spec => []ScriptsAreHonest
  <1>1. Inv => ScriptsAreHonest
    BY ScriptSound DEF Inv, ScriptsAreHonest
  <1> QED BY <1>1, InvHolds, PTL

\* persistence.py, mlflow_registry.py, online_normalization.py: a directory that one
\* writer finished holds the model its metadata says, whatever crashed before, and loads
\* without a warning have hashed whole models while no two wrote at a time; a version
\* that was returned is whole and what was promoted stays in production; the scaler is
\* exact for every value it was given, across restarts.
THEOREM ArtifactsSurvive == Spec => []ArtifactsAreSound
  <1>1. Inv => ArtifactsAreSound
    BY CacheSound, RegistrySound, ScalerSound DEF Inv, ArtifactsAreSound
  <1> QED BY <1>1, InvHolds, PTL

\* main.py, middleware.py, kpi.py, health.py: every request is answered once, with a
\* status that has its cause in the state of the process, and is counted; the indicators
\* are those of the predictions made, and what a health report says was so while it was
\* made, but for a Vault that is called healthy on the strength of an earlier answer.
THEOREM ServiceIsTrueOfItself == Spec => []ServiceReportsItself
  <1>1. Inv => ServiceReportsItself
    BY ApiSound, KpiSound, HealthSound DEF Inv, ServiceReportsItself
  <1> QED BY <1>1, InvHolds, PTL

==============================================================================
