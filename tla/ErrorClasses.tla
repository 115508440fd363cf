------------------------------ MODULE ErrorClasses ------------------------------
(***************************************************************************)
(* The exceptions of app.utils.exceptions: each inherits the status of its *)
(* nearest ancestor that declares one.  Messages, codes and contexts are   *)
(* left out.                                                               *)
(***************************************************************************)
EXTENDS Naturals

\* The statuses that classes declare.
Declared ==
  [ServiceError |-> 500, ValidationError |-> 400, AuthenticationError |-> 401,
   NotFoundError |-> 404, ConflictError |-> 409, InternalError |-> 500,
   ServiceUnavailableError |-> 503, ModelError |-> 500, ModelNotLoadedError |-> 503,
   ModelInferenceError |-> 500, ConfigurationError |-> 500, SecretsError |-> 500,
   ModelLoadingError |-> 500]

\* The parent of each class.
GeneralErrors ==
  [ValidationError |-> "ServiceError", AuthenticationError |-> "ServiceError",
   NotFoundError |-> "ServiceError", ConflictError |-> "ServiceError",
   InternalError |-> "ServiceError", ServiceUnavailableError |-> "ServiceError"]

ModelErrors ==
  [ModelError |-> "ServiceError", ModelNotLoadedError |-> "ModelError",
   ModelInferenceError |-> "ModelError", InvalidModelError |-> "ValidationError"]

InputErrors ==
  [TextValidationError |-> "ValidationError", BatchSizeExceededError |-> "ValidationError",
   EmptyBatchError |-> "ValidationError", TextTooLongError |-> "TextValidationError",
   TextEmptyError |-> "TextValidationError"]

ConfigurationErrors ==
  [ConfigurationError |-> "ValidationError", SecurityConfigError |-> "ConfigurationError",
   ModelConfigError |-> "ConfigurationError", SettingsValidationError |-> "ConfigurationError"]

SecretsErrors ==
  [SecretsError |-> "ServiceError", VaultAuthenticationError |-> "AuthenticationError",
   KubernetesAuthenticationError |-> "AuthenticationError",
   InvalidSecretsConfigError |-> "ValidationError"]

LoadingErrors ==
  [ModelLoadingError |-> "ModelError", ModelInitializationError |-> "InternalError",
   ModelCachingError |-> "InternalError", ModelExportError |-> "InternalError",
   ModelMetadataNotFoundError |-> "NotFoundError", InvalidModelPathError |-> "ValidationError",
   UnsupportedBackendError |-> "ValidationError"]

FeatureErrors ==
  [FeatureMismatchError |-> "ValidationError", UnfittedScalerError |-> "ValidationError",
   InvalidScalerStateError |-> "ValidationError", ScalerStatePersistenceError |-> "InternalError"]

AsyncErrors ==
  [AsyncContextError |-> "InternalError", ServiceNotStartedError |-> "InternalError",
   HealthCheckError |-> "InternalError", TracingError |-> "InternalError",
   QueueCapacityExceededError |-> "ServiceUnavailableError",
   CircuitBreakerOpenError |-> "ServiceUnavailableError"]

ParentOf(c) ==
  CASE c \in DOMAIN GeneralErrors -> GeneralErrors[c]
    [] c \in DOMAIN ModelErrors -> ModelErrors[c]
    [] c \in DOMAIN InputErrors -> InputErrors[c]
    [] c \in DOMAIN ConfigurationErrors -> ConfigurationErrors[c]
    [] c \in DOMAIN SecretsErrors -> SecretsErrors[c]
    [] c \in DOMAIN LoadingErrors -> LoadingErrors[c]
    [] c \in DOMAIN FeatureErrors -> FeatureErrors[c]
    [] c \in DOMAIN AsyncErrors -> AsyncErrors[c]

Class ==
  DOMAIN Declared \union DOMAIN ModelErrors \union DOMAIN InputErrors
  \union DOMAIN ConfigurationErrors \union DOMAIN SecretsErrors \union DOMAIN LoadingErrors
  \union DOMAIN FeatureErrors \union DOMAIN AsyncErrors

StatusOf[c \in Class] == IF c \in DOMAIN Declared THEN Declared[c] ELSE StatusOf[ParentOf(c)]

-----------------------------------------------------------------------------
(* Properties *)

\* Errors a request can bring about.
OfRequests ==
  {"ValidationError", "AuthenticationError", "NotFoundError", "ConflictError", "InvalidModelError",
   "ModelMetadataNotFoundError", "UnsupportedBackendError", "FeatureMismatchError"}
  \union DOMAIN InputErrors

\* Errors of the service alone that nevertheless inherit a client's status: 401 from
\* AuthenticationError, 400 from ValidationError (exceptions.py:315-358, 430, 512, 542).
Misfits ==
  {"VaultAuthenticationError", "KubernetesAuthenticationError", "InvalidSecretsConfigError",
   "InvalidModelPathError", "UnfittedScalerError", "InvalidScalerStateError"}

\* Of all classes, the errors of requests and the misfits have a status below 500, and no
\* other: the configuration errors declare 500 against the ValidationError they descend from
\* (exceptions.py:252-260).
StatusesFitCauses == \A c \in Class : StatusOf[c] < 500 <=> c \in OfRequests \union Misfits

==============================================================================
