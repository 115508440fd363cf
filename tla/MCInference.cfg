\* Each component on its own: its values are explained in MCInference.
SPECIFICATION Spec
CONSTANTS
  None = None
  Calls = {c1, c2}
  BreakerCalls = {c1, c2}
  failure_threshold = 2
  recovery_timeout = 1
  BreakerTime = 3
  MaxFailures = 3
  Utilizations = {0, 60, 90, 91, 100}
  ResponseTimes = {0, 30, 5000}
  QueueSizes = {0, 50, 51, 1000}
  Burst = 51
  MaxActive = 153
  MaxRequests = 255
  max_response_times = 2
  Labels = {pos, neg}
  window_size = 3
  min_samples = 2
  MaxSamples = 6
  MayUpdate = TRUE
  MaxTexts = 5
  gpu_count = 2
  batch_size = 2
  max_batch_size = 3
  Strategies = {"round-robin", "least-loaded"}
  max_size = 2
  Ttls = {0, 1}
  default_ttl = 2
  MaxEntries = 4
  MaxTime = 3
  Texts = {t1, t2, long}
  TooLong = {long}
  Backends = {mock, onnx, pytorch}
  Ready = {mock, onnx}
  WholeResults = {mock}
  default_backend = mock
  redis_enabled = TRUE
  Outages = 1
  ModelTexts <- SomeTexts
  max_length = 1
  cache_size = 1
  MaxBatch = 2
  MaxPredictions = 2
  Names = {"onnx", "ONNX", "mock", "tf"}
  BackendOf <- Spellings
  Loadable = {"onnx"}
  MaxInstances = 6
  Resets = 1
  p1 = p1
  p2 = p2
  id1 = id1
  id2 = id2
  Partitions = {p1, p2}
  Offsets = {1, 2, 3}
  IdAt <- IdsThatRepeat
  MaxSize = 2
  MaxRetries = 2
  History = 1
  FlagOnTop = TRUE
  KafkaSection = TRUE
  SendsSucceed = FALSE
  Deliveries = 4
  KafkaTime = 1
  Window = 1
CHECK_DEADLOCK FALSE
INVARIANTS
  TypeOK
  MessagesAreAccounted
  WindowsAreSound
  GpuCallsAreWhole
  EntriesAreKept
  OutagesCostNothing
  ModelIsSound
  ModelsAreShared
PROPERTY
  BalancerProtects
