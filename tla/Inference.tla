------------------------------- MODULE Inference -------------------------------
(***************************************************************************)
(* The components around inference on one machine: the prediction endpoint *)
(* with its cache, the Kafka consumer, the models and their factory, the   *)
(* circuit breaker and the load metrics of the load balancer, the drift    *)
(* detector, the GPU batch optimizer and the anomaly buffer.  Each keeps   *)
(* its own state and reads nobody else's, so a behaviour follows one of    *)
(* them (focus) while the others stay where they begin: interleaving them  *)
(* would reach no further state of any.                                    *)
(***************************************************************************)
EXTENDS Streams

CONSTANTS
  BreakerCalls, failure_threshold, recovery_timeout, BreakerTime, MaxFailures,
  Utilizations, ResponseTimes, QueueSizes, Burst, MaxActive, MaxRequests,
  max_response_times,                               \* LoadMetrics
  Texts, TooLong, Backends, Ready, WholeResults, default_backend, redis_enabled, Outages,
  ModelTexts, max_length, cache_size, MaxBatch, MaxPredictions,
  Names, BackendOf, Loadable, MaxInstances, Resets  \* ModelFactory

VARIABLES
  focus,
  state, failure_count, success_count, last_failure_time, breaker_pc, local, breaker_now,
  failures, failed_at, proven, raced,
  active_requests, queue_size, total_requests, failed_requests, response_times, in_flight,
  reachable, outages, client, redis, request, predict_pc, result, status, streamed,
  lru, lru_info, counted, model_pc, text, before, batch, was_hit, cleared,
  model_cache, singleton, built, factory_pc, asked, holds, resets, created

breakerVars ==
  <<state, failure_count, success_count, last_failure_time, breaker_pc, local, breaker_now,
    failures, failed_at, proven, raced>>
loadVars ==
  <<active_requests, queue_size, total_requests, failed_requests, response_times, in_flight>>
predictVars ==
  <<reachable, outages, client, redis, request, predict_pc, result, status, streamed>>
modelVars == <<lru, lru_info, counted, model_pc, text, before, batch, was_hit, cleared>>
factoryVars == <<model_cache, singleton, built, factory_pc, asked, holds, resets, created>>

vars ==
  <<focus, breakerVars, loadVars, driftVars, gpuVars, anomalyVars, predictVars, modelVars,
    factoryVars, kafkaVars>>

Breaker == INSTANCE CircuitBreaker WITH
  Calls <- BreakerCalls, MaxTime <- BreakerTime, pc <- breaker_pc, now <- breaker_now
Load == INSTANCE LoadMetrics
Predict == INSTANCE Predictions WITH pc <- predict_pc
Model == INSTANCE SentimentModel WITH Texts <- ModelTexts, pc <- model_pc
Factory == INSTANCE ModelFactory WITH pc <- factory_pc, returned <- created

\* What these components assume of their constants.
ASSUME Assumptions ==
  /\ Breaker!BreakerAssumption /\ Load!LoadAssumption
  /\ Predict!PredictionAssumption /\ Model!ModelAssumption /\ Factory!FactoryAssumption

\* Choices of the initial state are made only for the component that is followed.
Init ==
  /\ focus \in {"breaker", "load", "drift", "gpu", "anomalies", "predict", "model", "factory",
              "kafka"}
  /\ Breaker!Init /\ Load!Init /\ Drift!Init /\ Gpu!Init /\ Anomalies!Init
  /\ Predict!Init /\ Model!Init /\ Factory!Init /\ Kafka!Init
  /\ focus # "gpu" => strategy = CHOOSE s \in Strategies : TRUE

Next ==
  /\ UNCHANGED focus
  /\ IF focus = "breaker" THEN Breaker!Next ELSE UNCHANGED breakerVars
  /\ IF focus = "load" THEN Load!Next ELSE UNCHANGED loadVars
  /\ IF focus = "drift" THEN Drift!Next ELSE UNCHANGED driftVars
  /\ IF focus = "gpu" THEN Gpu!Next ELSE UNCHANGED gpuVars
  /\ IF focus = "anomalies" THEN Anomalies!Next ELSE UNCHANGED anomalyVars
  /\ IF focus = "predict" THEN Predict!Next ELSE UNCHANGED predictVars
  /\ IF focus = "model" THEN Model!Next ELSE UNCHANGED modelVars
  /\ IF focus = "factory" THEN Factory!Next ELSE UNCHANGED factoryVars
  /\ IF focus = "kafka" THEN Kafka!Next ELSE UNCHANGED kafkaVars

Spec == Init /\ [][Next]_vars

-----------------------------------------------------------------------------
(* Properties, stated and explained in the modules of the components *)

TypeOK ==
  /\ Breaker!TypeOK /\ Load!TypeOK /\ Drift!TypeOK /\ Gpu!TypeOK /\ Anomalies!TypeOK
  /\ Predict!TypeOK /\ Model!TypeOK /\ Factory!TypeOK /\ Kafka!TypeOK

\* kafka_consumer.py: no message leaves the consumer's books.
MessagesAreAccounted == Kafka!MessagesAreAccounted

\* load_balancer.py: the breaker protects for as long as it is asked to, and recovers;
\* the picture of the instance is neither stuck nor contradictory.  Judging an instance
\* takes long, and is done again only where its load changes.
BalancerProtects == Breaker!BreakerRecovers /\ [](focus = "load" => Load!LoadIsJudged)

\* drift_detection.py: what a check compares is enough and is not the same twice.
WindowsAreSound == Drift!WindowsAreSound

\* gpu_batch_optimizer.py: overlapping calls get their own answers, by every strategy.
GpuCallsAreWhole == Gpu!GpuCallsAreWhole

\* anomaly_buffer.py: entries are kept in order while there is room and time.
EntriesAreKept == Anomalies!EntriesAreKept

\* prediction.py, redis_cache.py: Redis coming and going never fails a request.
OutagesCostNothing == Predict!OutagesCostNothing

\* models/base.py: batches answer in place, the cache is bounded and its hits count.
ModelIsSound == Model!ModelIsSound

\* models/factory.py: threads get the right model, races cost one model a thread.
ModelsAreShared == Factory!ModelsAreShared

==============================================================================
