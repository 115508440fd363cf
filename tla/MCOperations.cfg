\* Each component on its own: its values are explained in MCOperations.
SPECIFICATION Spec
CONSTANTS
  None = None
  Environments <- SomeEnvironments
  Dotenvs <- SomeDotenvs
  Names = {"local", "dev", "staging", "prod", "qa"}
  Texts = {"production", "development", "staging", "local", "qa", "0.0.0.0", "127.0.0.1",
           "distilbert", "roberta", "other"}
  Assignments <- SomeAssignments
  MaxLoads = 1
  Refused = Refused
  SecretKeys = {k1}
  Readers = {t1, t2}
  cache_ttl = 2
  MaxVersion = 2
  SecretTime = 3
  health_interval = 2
  vault_day = 4
  renew_before = 2
  MaxChecks = 2
  VaultTime = 5
  FileKeys <- FileOfTwo
  Keywords <- KeywordsOfTwo
  Files <- SomeFiles
  timeout = 2
  Replicas = {r1, r2}
  Dirs = {d1}
  Contents = {o1, o2}
  MaxCaches = 2
  Partial = Partial
  Nothing = Nothing
  Torn = Torn
  Operators = {x1, x2}
  MaxVersions = 3
  Outages = 1
  Switchable = {"v2", "v3"}
  Archived = {"v1"}
  Serving = "v3"
  Values = {0, 5}
  Widths = {1, 2}
  MaxBatch = 2
  CutShort = CutShort
  c1 = c1
  c2 = c2
  Calls = {c1, c2}
  MayAsk <- Paths
  MaxRequests = 2
  Predictions <- SomePredictions
  max_history = 3
  max_confidence = 2
  max_latencies = 2
  day = 2
  KpiTime = 2
  MaxPredictions = 4
  MaxChanges = 1
  MaxReports = 2
CHECK_DEADLOCK FALSE
INVARIANTS
  TypeOK
  ConfigurationHolds
  ScriptsAreHonest
  ArtifactsAreSound
  ServiceReportsItself
