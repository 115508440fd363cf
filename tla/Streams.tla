-------------------------------- MODULE Streams --------------------------------
(***************************************************************************)
(* The components of inference that take texts and predictions by the      *)
(* dozen or watch them go by: the Kafka consumer, the GPU batch optimizer, *)
(* the drift detector and the anomaly buffer.  Inference adds those that a *)
(* request meets and puts all of them together.                            *)
(***************************************************************************)
EXTENDS Naturals

CONSTANTS
  None,
  Calls,                                            \* threads and requests
  Labels, window_size, min_samples, MaxSamples, MayUpdate,
  MaxTexts, gpu_count, batch_size, max_batch_size, Strategies,
  max_size, Ttls, default_ttl, MaxEntries, MaxTime, \* AnomalyBuffer
  Partitions, Offsets, IdAt, MaxSize, MaxRetries, History, FlagOnTop, KafkaSection,
  SendsSucceed, Deliveries, KafkaTime, Window

VARIABLES
  reference, current, baseline_established, blocked, added, last_check,
  strategy, gpu_loads, current_gpu_index, texts, batches, ended, failed,
  buffer, entries, now, served, evicted,
  consuming, pending, recent, tracker, todo, taken, kafka_asked, dead, metrics, kafka_now,
  accepted, handled, late, refused, kafka_failures, givenUp

driftVars == <<reference, current, baseline_established, blocked, added, last_check>>
gpuVars == <<strategy, gpu_loads, current_gpu_index, texts, batches, ended, failed>>
anomalyVars == <<buffer, entries, now, served, evicted>>
kafkaVars ==
  <<consuming, pending, recent, tracker, todo, taken, kafka_asked, dead, metrics, kafka_now,
    accepted, handled, late, refused, kafka_failures, givenUp>>

Drift == INSTANCE DriftWindows
Gpu == INSTANCE GpuBatches
Anomalies == INSTANCE AnomalyBuffer WITH NoTtl <- None
Kafka == INSTANCE KafkaBatches WITH
  MaxTime <- KafkaTime,
  running <- consuming, batch <- pending, current <- taken, asked <- kafka_asked,
  now <- kafka_now, failures <- kafka_failures

\* What the components assume of their constants.
ASSUME StreamsAssumption ==
  /\ Drift!DriftAssumption /\ Gpu!GpuAssumption /\ Anomalies!BufferAssumption
  /\ Kafka!KafkaAssumption

==============================================================================
