------------------------------ MODULE MCOperations ------------------------------
(***************************************************************************)
(* A small instance of Operations.  Variables a profile contradicts, as it *)
(* spells them or otherwise, limits a variable exceeds alone or with the   *)
(* file, an alias, a name that is no profile's, and one more profile       *)
(* applied in a process; two threads and a secret that is rotated once, a  *)
(* cache of two ticks, and fetches that last as long as they like; checks  *)
(* of Vault every two ticks, a monitor whose day has four, tokens that     *)
(* need renewal two ticks before they expire; a migration of a good API    *)
(* key and of a Slack webhook, as Slack makes them, which the validator    *)
(* refuses, or of the one segment its pattern asks for, beside a rotation  *)
(* of either; two replicas that cache an old and a new model in one        *)
(* directory; two operators, three versions, MLflow going away once; up to *)
(* four samples in batches of up to two; a request for anything beside one *)
(* for readiness; four predictions on two days, windows of three, two and  *)
(* two, days of two ticks; two reports while a component changes, with or  *)
(* without the optional ones.                                              *)
(***************************************************************************)
EXTENDS Operations, TLC

CONSTANTS c1, c2

SomeEnvironments ==
  {<<>>, [debug |-> TRUE], [workers |-> 4], [cache |-> 100000],
   [redis |-> TRUE, environment |-> "qa"], [model |-> "other"]}
SomeDotenvs == {<<>>, [redis |-> TRUE], [text |-> 10000], [debug |-> FALSE]}
SomeAssignments == {<<"debug", TRUE>>, <<"redis", FALSE>>}

FileOfTwo == <<"api_key", "slack_webhook_url">>
KeywordsOfTwo == "api_key" :> {"api_key"} @@ "slack_webhook_url" :> {"webhook_url", "slack_webhook"}
File(length, shape) ==
  "api_key" :> [length |-> 20, classes |-> {"upper", "lower", "digit"}, shape |-> "none"]
  @@ "slack_webhook_url" :> [length |-> length, classes |-> {}, shape |-> shape]
SomeFiles == {File(80, "slack services/three/segments"), File(60, "slack services/segment")}

Anything ==
  {"predict", "batch submit", "batch status", "batch results", "batch cancel", "batch queue",
   "batch metrics", "model info", "feedback", "health", "health details", "ready",
   "metrics", "metrics json", "kafka metrics", "async batch metrics", "drift", "drift action",
   "drift report", "kpis", "models", "production", "versions", "explain", "explain html",
   "monitoring health", "root", "openapi", "unknown", "preflight"}
Paths == c1 :> Anything @@ c2 :> {"ready"}

Prediction(label, confidence, latency, backend, cached) ==
  [label |-> label, confidence |-> confidence, latency |-> latency, backend |-> backend,
   cached |-> cached]
SomePredictions ==
  {Prediction("POSITIVE", 97, 10, "onnx", FALSE), Prediction("NEGATIVE", 55, 300, "onnx", FALSE),
   Prediction("NEGATIVE", 80, 90, "pytorch", TRUE)}

\* The first client asks every endpoint there is.
ASSUME EveryEndpoint == Anything = Api!Endpoints

\* The statuses of all exception classes, with the misfits named.
ASSUME Statuses == Api!StatusesFitCauses

==============================================================================
