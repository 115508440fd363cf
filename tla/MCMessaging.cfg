\* Each component on its own: its values are explained in MCMessaging.
SPECIFICATION Spec
CONSTANTS
  None = None
  MayStop = TRUE
  Records = {r1, r2, r3}
  BatchSize = 2
  Flushers = {f1, f2}
  Failures = 2
  Clients = {c1, c2, c3}
  kafka_enabled = TRUE
  MaxRetries = 2
  Requests = {r1, r2, r3, c1}
  async_dispatch = TRUE
  Signals = {s1, s2}
  Jobs = {1, 2}
  Deadlines = {2}
  Regretted = {1}
  Slots = {1, 2}
  AtOnce <- PollsAtOnce
CHECK_DEADLOCK FALSE
INVARIANTS
  TypeOK
  RecordsAreSafe
  SideWorkIsTracked
  ServicesDrain
  TabTellsTheOutcome
PROPERTIES
  EventuallyStored
  SignalDrains
  OutcomeIsShown
