# A formal model of MoodGuess-MLOps

TLA+ modules for the sentiment-analysis service, the TLC configurations that model-check them,
and theorems that the TLA+ proof system checks. `PROJECT.json` lists the components, the runs,
which definition models which lines, the mutants that show each property can fail, and the
hazards the properties are aimed at.

    tlc -workers 2 -config MCMessaging.cfg MCMessaging      # one run
    tlapm InferenceProofs.tla                               # the proofs of one module

All paths below are relative to the repository; `services/` stands for `src/app/services/`.

## 1. The system

A FastAPI process serves sentiment predictions. Handlers and background tasks share one asyncio
event loop; inference, Kafka and secrets run on threads; models, scaler states and model
metadata are files that replicas share; Redis, Kafka, object storage, Vault and MLflow are
outside and may go away.

| Part | State it keeps | Operations | Talks to |
|---|---|---|---|
| Asynchronous batch service (`async_batch_service.py`, `batch_job_manager.py`, `priority_queue_manager.py`, `result_cache_manager.py`) | jobs and statuses, counters, three bounded queues, workers, clean-up task, cached results | submit, status, results, cancel, metrics, start, stop; worker loop; clean-up | the stream processor, the routes |
| Stream processor (`stream_processor.py`) | queue of requests with futures, batch task, `_processing`, a lock | predict_async, predict_async_batch, shutdown; batch loop | the model; batch service, benchmarks |
| Kafka consumer (`kafka_consumer.py`, `message_batch.py`, `dead_letter_queue.py`) | batch per partition, recent offsets, retry counts, metrics | add, process ready batches, handle results, stop | the model on a thread, the dead-letter topic |
| Data lake writer (`data_writer.py`) | buffer and its lock, flush task | write, flush, periodic loop, start, stop | object storage |
| Feedback service, shadow mode | a producer; pending tasks | submit, close; dispatch, stop | Kafka; a second model |
| Circuit breaker, load metrics (`load_balancer.py`) | breaker state, counts, times; active requests, windows | call, reset; start, end, score | nothing in the tree calls them |
| Drift detector (`drift_detection.py`) | reference and current windows, a thread lock | add, check, reset, update baseline | monitoring routes |
| GPU batch optimizer, anomaly buffer | device loads; bounded map | distribute and merge; add, get, clean up | nothing in the tree calls them |
| Prediction service, Redis client | connection | predict, predict_batch; get, set | `POST /predict`, Redis |
| Models (`models/`) | LRU cache and its counters, instance dictionaries | predict, predict_batch, create, reset | ONNX, PyTorch |
| Model persistence, registry, online normalization | files, memory of metadata; versions in MLflow; running moments | cache, load, invalidate; register, promote, delete; fit, save, load | disk shared by replicas, MLflow |
| Settings (`core/config/`) | `os.environ`, the settings object | import, load_from_profile, setters | `.env`, worker processes, everything above |
| Secrets (`core/secrets.py`, `vault_health.py`, `scripts/ops/`) | cached values, cached health; the scripts' progress | get, set, rotate, health; migrate, rotate | Vault, Kubernetes |
| Application lifecycle (`core/events.py`) | services, a draining flag, a shutdown task | start-up, signal handler, drain | all services |
| HTTP API and middleware (`main.py`, `api/`) | request gauge and counters | every route; key check, metrics, correlation, exception handlers | everything above |
| Batch tab of the front end (`src/frontend/src/tabs/BatchTab.jsx`) | the card, results, an error, one timer | submit, poll, fetch results, cancel, leave | the routes of the batch service |
| Health, indicators (`monitoring/`, `services/monitoring_service.py`) | windows and counters, warm-up flag | record, report, probe | the models, the system |

**What is hard.** A coroutine keeps the loop until it awaits something that is not ready, so
which interleavings exist depends on which calls suspend. `predict_async_batch` does not suspend
in the tree, but its interface is `async` and the tests' doubles do
(`src/tests/unit/test_async_batch_service.py:28`). Statuses are rewritten by four parties and
counters updated by differences. Tasks are started by flags that the task itself sets later, and
named by one variable that the next task overwrites. Threads look, build and store without a
lock, and one thread lock is taken twice. State read before an await is used after it. Answers
reach the front end late and in any order. Failures are swallowed by design (Redis, uploads,
producers), so a failure must cost nothing but what it says. Three writes to disk, or three
calls to MLflow, may be parted by a crash.

**What makes each part correct.**

- Batch service: no accepted job is lost or handed out twice; results are whole or absent; an
  ended job stays ended; counters agree with statuses; every job ends.
- Stream processor: no future is orphaned; a non-empty queue has a task; oldest first; every
  request is settled; shutdown leaves nothing behind.
- Kafka consumer: every message is in a batch, went through the model, or is lost in one of two
  known ways; failures add up to retries and what was given up.
- Data lake writer: what was accepted is buffered, on its way or stored, once.
- Feedback and shadow: True means delivered; stop reaches every task.
- Breaker and load: wherever threads meet, closed with room and open with a time to end; between
  threads that do not meet, protected while open and recovered when proven.
- Batch tab: what is displayed was so; it asks until the job has ended, and says how.
- Drift: comparisons of enough and disjoint predictions; every operation returns.
- Predictions and models: outages cost nothing, answers belong to their texts and to the backend
  asked.
- Settings: what the operator sets stands, profiles fill in the rest, every process agrees.
- Secrets: an answer is behind by no more than the time to live and the time its thread took to
  store it; exit codes of the scripts are true.
- Artifacts: crashes are repaired by doing it again; versions returned are whole.
- Shutdown: each service that is there in time stops once, in order, before the process ends.
- API, health, indicators: answers have reasons and are counted; reports are of their time.

## 2. The modules

| Module | Models | Role |
|---|---|---|
| `AsyncBatch`, `ResultCache` | the batch service, its managers, the result cache | detailed specification |
| `JobLifecycle` | what is promised about a job | abstract specification |
| `AsyncBatchProofs`, `MCAsyncBatch` | | theorems; instances |
| `StreamProcessor` | `stream_processor.py`: single predictions | specification |
| `StreamProcessorProofs` | | theorems |
| `DataWriter`, `FeedbackProducer`, `ShadowMode`, `Shutdown`, `BatchTab` | the parts of that name | specifications |
| `Messaging`, `MCMessaging`; `MessagingProofs` | the five together | composition, instance; theorems |
| `KafkaBatches`, `Predictions`, `SentimentModel`, `ModelFactory`, `CircuitBreaker`, `LoadMetrics`, `DriftWindows`, `GpuBatches`, `AnomalyBuffer` | the parts around inference | specifications |
| `Streams` (four), `Inference` (all nine), `MCInference`; `Induction`, `StreamsProofs`, `InferenceProofs` | the nine together | compositions, instance; theorems |
| `HttpApi`, `ErrorClasses`, `KpiMetrics`, `HealthReport`, `Settings`, `Secrets`, `VaultHealth`, `SecretScripts`, `ModelCache`, `ModelVersions`, `OnlineScaler` | API, reporting, settings, secrets, artifacts | specifications |
| `Administration` (seven: settings, secrets, Vault, scripts, model cache, versions, scaler), `Operations` (all ten), `MCOperations`; `AdministrationProofs`, `OperationsProofs` | the ten together | compositions, instance; theorems |

**Composition and `focus`.** `HttpApi` composes the routes with the middleware, the dependencies
and, by EXTENDS, the error classes; `AsyncBatch` uses `ResultCache` and contains the batch
service's call of the stream processor; `BatchTab` puts the tab of the front end beside
`JobLifecycle`, which `AsyncBatch` is shown to implement for the tree's processor, so what the
tab may conclude rests on the service's promise and not on its queues; `Predictions` composes
route, prediction service and Redis client; `Shutdown` composes the lifespan with the services'
`stop`. The components gathered in `Messaging`, `Inference` and `Operations` keep their own
state and read nobody else's, so interleaving them would reach no further state of any one of
them. A behaviour of these modules therefore follows the one component named by `focus`, chosen
at the start, while the variables of the others keep their initial values. A property of a
component is checked with all of the behaviours of that component. The assumptions of the
instantiated modules are asserted there as one ASSUME.

### AsyncBatch

*State.* `status`, `processed`, `results`, `clock` are the fields of a `BatchJob`; results and
counts are in batches, and `results[j]` is how many batches' results the job holds. `clock[j]`
says whether the elapsed time is below, at or above `timeout_seconds`, all that the comparisons
with `>` (`is_job_expired`) and `>=` (`_has_job_timed_out`) tell apart. `metrics` holds the
counters of `ProcessingMetrics`. `queue[p]` is the `asyncio.Queue` of a priority and `pc[p]`,
`job[p]`, `done[p]`, `stopping[p]` are its worker task, where it is suspended or running, its
job, how many batches it has done, and whether `stop_workers` has cancelled it. `cache` is the
result cache as the sequence of its keys, oldest first, of which the first `stale` are over age.

*Atomicity.* No body of an `asyncio.Lock` of these classes suspends, so the locks are never
contended; they are not modelled. `loop` names the worker that has the event loop. A worker
gives it up in two places: on its queue, and in `predict_async_batch` if `Suspends`. Handlers
and the clean-up run only when nobody has the loop. Time passes at any moment, also between two
statements of a worker, so an action is the code between two readings of the clock.

*Actions and code.*

| Action | Code |
|---|---|
| `Submit` | `submit_batch_job`: create, enqueue, or fail the job when the queue is full |
| `GetStatus`, `GetResults`, `GetMetrics`, `Cancel` | the requests, each with the expiry `get_job` performs |
| `Take`, `Validate` | `dequeue_job`; `is_job_valid`. In Python 3.11 `wait_for` may hold a job already taken when the cancellation arrives and then swallows the cancellation: `pc = "taken"` |
| `Claim`, `Checkpoint`, `Predict`, `BatchDone`, `BadBatch`, `Complete`, `Refresh` | `_process_job` and `_process_job_batches`, statement by statement between readings of the clock |
| `TimeoutExit`, `FailureExit`, `CancelWorker` | the three ways out of `_process_job` |
| `Cleanup` | one round of `_cleanup_expired_jobs` |
| `Start`, `Stop`, `Stopped` | `start`, `stop` up to the `gather`, the rest of `stop` |
| `Tick`, `CacheTick` | time |

`Claim` looks at the job with `get_job` and sets it PROCESSING; when the deadline passes between
the reading in `get_job` and the one before, the job is EXPIRED for a moment nobody else can
observe, and the two writes are one step.

`Start` is taken only when `stop` has returned. The code asks for less: `start` looks at
`_running` alone (`async_batch_service.py:121`), which `stop` clears before it awaits its
workers (`:147`). A `start` in that time would leave a running service whose workers the rest of
`stop` forgets and whose clean-up task it ends, so that an interrupted job never ends. No caller
does so: `events.py:301` starts the service once in a process and makes it known to those who
stop it (`:90`) when `start` has returned (`:302`), and the tests await each in turn. It is an
assumption on callers, and `EventuallyEnded` and the theorems rest on it.

`stop` also calls `StreamProcessor.shutdown`. In a process whose only client of the processor is
the batch service its queue is empty and it has no batch task, so that call changes nothing
here.

### JobLifecycle and the refinement

`JobLifecycle` says what a client may rely on: a job is accepted or rejected, is processed at
most once, gets its results at once and whole, and expires only after its deadline, for good.
`FollowsLifecycle` states that `AsyncBatch` implements it, with `late` the jobs whose deadline
was reached. It holds for the processor of the tree (`Suspends = FALSE`). With a processor that
suspends it does not: see the findings.

### StreamProcessor

*State.* `client[r]` is where the call of `predict_async` for `r` is: not made, waiting for the
lock, awaiting its future, or settled (answered, failed with the batch's exception, or gone,
when the caller was cancelled). `queue` is `self.queue`; `waited` is the age of its head against
half of and all of `max_wait_time_ms`. `predict_async` can create a task while others live, so
there is a `pc[t]` per task, named after the request that created it; `processing` and
`batchTask` are `_processing` and `_batch_task`. `lock` is the task that sleeps with the lock
and `waiters` the queue of the lock: `asyncio.Lock` is fair, a coroutine acquires it at once
only if nobody waits. `sd` and `awaited` are the call of `shutdown` and the task it awaits.

*Actions and code.* `Arrive`, `Enter`, `Abandon`: `predict_async`. `TaskStart`, `Wake`,
`CollectLocked`, `RestLocked`, `IdleEnd`, `TaskCancelled`: `_process_batches` with the functions
it calls, one action per stretch between suspensions. `Shutdown`, `ShutdownLocked`,
`ShutdownEnd`: `shutdown`. `Serve(n)` takes the first n requests off the queue and resolves
their futures: of each batch a prefix is answered and the rest gets the exception, which covers
a model that raises, answers too little (`zip(strict=True)`) or answers all.

### Around the event loop: MCMessaging

- **`DataWriter`**. `Write`, and `Flush` / `Uploaded` / `UploadFailed` of the periodic loop and
  of the tasks a full buffer creates; `StopCancels`, `StopFlushes`, `StopReturns` are the
  stretches of `stop()`. `batch_task` is the one name that all tasks share.
- **`FeedbackProducer`**. Submissions that find the service not started create producers
  concurrently; `open` is the set of producers not closed, which the code does not know.
- **`ShadowMode`**. Tasks enter `pending_tasks` before the request is answered; `stop()` gathers
  those it knows and cancels the rest at its time limit.
- **`Shutdown`**. `StartNext` is the start-up, service after service in the order of the
  lifespan (which is not that of the drain); a service that is not enabled or fails to start
  does not become an attribute. Signals come from the registration of their handlers on
  (`events.py:139`), also between two starts. One creates a drain task and replaces the name of
  the task before; the lifespan exit awaits the one it knows, or drains itself. `missed` are the
  services that became attributes when a drain had passed their place.
- **`BatchTab`**. Each callback of the component is two or three actions: up to its `await`, and
  when the answer comes. Requests wait in `submission`, `polls` and `cancelling`; the service
  answers them in any order (`ServeSubmission`, `Serve`, `ServeCancel`), the tab handles the
  answers in any order, and either way a request may fail although the service acted. Handlers
  run while no worker has the event loop, so they never meet a PROCESSING job (`Listening`).
  After `Leave` the setters do nothing but callbacks go on. `latest` and `crossed` are
  histories: the job submitted last, and whether an answer came that the tab was no longer
  about.

### Around inference: MCInference

- **`KafkaBatches`**. The poll loop is external: nothing in `src/app` calls `add_message` or
  `_is_duplicate_message`. `Deliver` asks for the offset, which remembers it, and then adds the
  message, whether or not the batch has room (as
  `tests/integration/test_kafka_consumer.py:282-295` adds); a full batch refuses it, and it is a
  duplicate from then on: `refused`. A round (`StartRound`, `Ask`, `AnswerOk`, `AnswerFailed`)
  lists the partitions once and awaits a prediction per batch; deliveries, `Stop` and time come
  in between, and what joins the batch meanwhile is cleared with it: that loss is in the
  variable `late`. `tracker` is the retry count by message id, `recent` the bounded window of
  offsets, `dead` the dead-letter topic.
- **`Predictions`**. Choice of backend and cache, look-up, inference, store, the response.
  `WholeResults` are the backends whose results have every field of `PredictionResponse`.
- **`SentimentModel`**. `lru_cache` with its hit counter read before and after the call;
  `PredictBatch` takes blank texts out and puts placeholders back.
- **`ModelFactory`**. Look, build and write, in two levels of dictionaries without locks;
  `Reset` only when nobody is inside `create_model`, as the tests use it. `BestFile` is the
  choice of the model file.
- **`CircuitBreaker`**, **`LoadMetrics`**. The breaker has no lock, so a step is one access to
  one attribute: threads come between a test and what follows from it, between the load and the
  store of `+= 1`, and between two assignments; `reset` is one more caller. `raced` remembers
  whether calls, or a reset and a call, met within the breaker's lines. Scores are in
  thousandths, with the caps and weights of the code.
- **`DriftWindows`**, **`GpuBatches`**, **`AnomalyBuffer`**. Windows of identified predictions
  with the lock as a fact about its holder (`blocked`); slices, devices and the CPU fallback,
  for several GPUs with dynamic batching; a sequence with times to live.

### Around serving: MCOperations

- **`HttpApi`** with **`ErrorClasses`**. Each client has endpoints it may ask (`MayAsk`, all of
  them but for the bound of the run). A request passes metrics, key check, dependencies and
  handler; each handler answers or raises what it can, and the exception handlers turn it into a
  status, with and without `debug`. `ErrorClasses` is the class hierarchy.
- **`KpiMetrics`**, **`HealthReport`**. Counters of all time beside bounded windows; the
  detailed report asks one component after the other while they change. Vault, once it has
  answered anything, is called healthy for a minute without being asked (`remembered`, set by
  the report and by the simple probe, ended by `Forget`); a model may be ready and unable to
  describe itself.
- **`Settings`**. `Texts` is what a field of text may hold: any text may be in the environment
  or in `.env`. `environ` is `os.environ`: `Applied` keeps what is there (`settings.py:351`).
  `lower` are the operator's variables that are not spelled in upper case: the settings read
  them, a profile does not see them. `Read` is the order of pydantic-settings: environment,
  file, defaults of the fields. `Import` makes the module-level object or refuses to start,
  `Load` a further one, `StartWorker` imports again in the environment the process has by then;
  the setters check nothing. The ten keys are those the checks read and some that not all
  profiles set.
- **`Secrets`**, **`VaultHealth`**, **`SecretScripts`**. A shared cache without a lock:
  `get_secret` is a question, a look, a comparison with the clock, a fetch and a store,
  `set_secret` a write, a question and a removal, and other threads, rotations and time come
  between any two. Two stacked caches of health, of which the monitor's forgets the days of a
  difference (`vault_health.py:69`). The two scripts with every exit. What the file to migrate
  holds (`values`) is chosen from `Files` at the start.
- **`ModelCache`**, **`ModelVersions`**, **`OnlineScaler`**. A copy begun and completed, a hash,
  a metadata file opened (`Torn`) and written, each of which a crash, a full disk or another
  replica may part from the next; a load that hashes before it opens; three MLflow calls that
  may fail one by one; Welford's update in exact fractions (twelfths), for one coordinate.

Variables named after no attribute of the code are histories (`accepted`, `handled`, `stored`,
`seen`, ...): they record what happened for the properties and decide nothing.

## 3. The runs

| Run | Instance | Shows |
|---|---|---|
| `batch_in_tree` | 2 jobs of 2 batches, 2 priorities, queues of 1, one restart, `Suspends = FALSE` | `FollowsLifecycle`, `CountsAreExact` |
| `batch_suspending` | 3 jobs (one of 2 batches, with a deadline) on one queue of 2, cache of 2, malformed answers, one restart, suspending | the type invariant and the eight safety properties of section 4 |
| `batch_liveness` | 2 jobs, one queue, one restart, suspending, fair | `EventuallyEnded` |
| `stream_shutdown` | 3 requests, batches of 2, minimum 2, shutdown, fair | safety and `EveryRequestSettled` |
| `messaging` | 3 records, 2 failing uploads; 3 submissions; 4 shadowed requests; 2 signals, during the start-up too, and any subset of services; 2 jobs in the tab | `RecordsAreSafe`, `SideWorkIsTracked`, `ServicesDrain`, `TabTellsTheOutcome`; `EventuallyStored`, `SignalDrains`, `OutcomeIsShown` |
| `inference` | 2 partitions, 4 deliveries to batches of 2, 2 retries; 2 threads in the breaker, 3 failures, a threshold of 2; bursts of 51 requests; windows of 3; 2 calls on 2 GPUs; room for 2 of 4 entries; 2 requests; 2 threads | one property a component, breaker and load in one |
| `operations` | 2 requests over all endpoints; 4 predictions on 2 days, in windows of 3 and 2; 2 reports; 6 environments and as many of lower case, 4 files, 5 names of profiles, 1 more load; 2 threads with a secret rotated once, 4 ticks; Vault for 6 ticks, a day of 4; both scripts; 2 replicas and 2 contents in 1 directory; 3 versions; 4 samples | `ConfigurationHolds`, `ScriptsAreHonest`, `ArtifactsAreSound`, `ServiceReportsItself` |
| `batch_active_metric`, `batch_cancel_during`, `stream_drain`, `drift_update`, `prediction_cache` | the smallest instance | violations, section 6 |

*Why the bounds are enough to be interesting.* Two batches per job give a suspension and a
checkpoint inside a job; two jobs let one wait while the other is processed, and on two
priorities be processed at once; three jobs fill a queue of two, and a cache of two evicts.
`MaxStarts = 2` allows one restart. Three requests make two batch tasks with one request waiting
at the lock. In the consumer one offset window of 1 forgets, message ids repeat over partitions
and offsets, and two failures give up an id. Three records and a batch size of two leave one for
the loop; two failures put a batch back behind newer data. Two threads of the breaker meet at
every pair of its lines, and three failures open it, fail its recovery or come late; in three
ticks it can recover once, fail, and wait again. A burst of 51 is the distance between the
limits at 50 queued and 100 active. Windows of three roll over with six predictions. Slices of
at most three of five texts give several batches on one device. A batch of two is full with four
deliveries, and refuses. A secret can be replaced, expire (two ticks) and be asked for again
while another thread holds the old value it fetched. The indicators cross the end of a day. Two
replicas copy two models into one directory, and one of them can be loading meanwhile. In the
tab one job may be cancelled, the other may pass its deadline and have two polls on their way:
late answers, of this job and of the one before, exist with fewer than 200,000 states. Every
bound is a constant (`Max...`, `Deliveries`, `Failures`, `Outages`, `Resets`, `MaxLoads`,
`Offered`, `Expiring`, `Deadlines`, `Regretted`, `Slots`, `AtOnce`) or a set of requests, each
made once. Symmetry is used for safety only, and only in the batch runs; jobs with and without a
deadline are not exchanged.

*Functions.* `MCInference` and `MCOperations` also evaluate, as assumptions, pure parts of the
code for all inputs within a bound: the merge of valid and invalid texts of a batch
(`BatchKeepsPlaces`), the choice of a model file (`QuantizedFirst`), the statuses of all
exception classes (`StatusesFitCauses`, with the six misfits of section 6). The first two are
proved as well.

*Deadlock.* TLC checks it in the batch runs: a client may ask for the metrics whenever nobody
has the loop, so a deadlock would be a worker that has the loop and no next statement. In the
other runs a component at its bound, or whose requests are answered and whose tasks have ended,
is at rest, so they do not check it; that the stream processor does not rest too early is
`EveryRequestSettled`, the writer `EventuallyStored`. The one lock that its holder takes again
is a state of `DriftWindows` (`drift_update`).

*Fairness.* The event loop resumes every coroutine that is ready: weak fairness of each worker,
batch task, flush, drain task, of a client at the head of the lock's waiters and of shutdown.
The clean-up task and the writer's loop sleep a fixed interval: weak fairness of their next
round. Time passes: weak fairness of `Tick`. Predictions and uploads return: part of the step.
Clients, signals, stops and the start-up are never fair: `EventuallyEnded` is conditional on the
service being, from some time on, running, `EveryRequestSettled` on no shutdown,
`EventuallyStored` on no stop. Uploads fail at most `Failures` times: storage that never comes
back stores nothing. `SignalDrains` lets the lifespan end under the signal, for then the process
is gone, and excepts services that became attributes behind the drain. `OutcomeIsShown` assumes
that the timer goes off, that every request is answered, with an error at worst, and that the
service works on what it began; a user who submits again, leaves or cancels is never assumed.

## 4. The properties

Batch service.

- `PendingIsReachable`, `OneHolder`: a pending job is in a queue or has just been taken, and no
  job is in two places. What could break it: a worker cancelled with a job in hand, a full
  queue, a restart.
- `ResultsAreWhole`: all batches or none, whatever the interleaving of the progress updates with
  cancellations and expiries.
- `CompletedCountsResults`, `CountsAreExact`: the counters, kept by differences by four parties,
  agree with the jobs: the number of completed jobs always, the others until a deadline is
  reached. After that they do not (section 6).
- `ProcessingIsHeld`: a PROCESSING job is in a worker's hands, unless `stop` interrupted a
  suspended prediction.
- `StoppedIsQuiet`, `EndedIsFinal`: nothing is processed after `stop` returned; a job that ended
  while no worker processed it is never processed.
- `CacheIsSound`: size, no duplicates, and only whole results.
- `EventuallyEnded`: also a job a `stop` interrupted ends, by the clean-up.
- `FollowsLifecycle`: the refinement of `JobLifecycle`.

Stream processor: as in section 1, with `NothingEntersIdleQueue` for the sleep with the lock:
the second look at the queue (`stream_processor.py:214`) can find nothing new, and a request
that arrives during the sleep waits it out.

The others have one property each in the runs, a conjunction whose parts their modules name and
explain.

- `MessagesAreAccounted`: of what was taken for new only that is lost which joined during an
  await or met a full batch; failures are retries plus `MaxRetries` times what was given up; an
  offset repeats only outside the window; counters agree.
- `RecordsAreSafe`: nothing vanishes, nothing is held twice by overlapping flushes.
- `SideWorkIsTracked` (`FeedbackIsHonest`, `ShadowsAreTracked`): True is an acknowledgement, the
  producer held is open; `stop` sees every shadow task and leaves none of those it saw.
- `ServicesDrain`: stops happen once and in order, and with one signal, whenever it comes, the
  process ends after them; only a signal makes a drain pass a service.
- `BalancerProtects` (`BreakerRecovers`, `LoadIsJudged`): wherever threads meet, a closed
  breaker has its tolerance or somebody is about to see to it, and an open one knows since when,
  unless a reset ran beside a call. As long as no two threads met within it, it is quiet for the
  time-out after the latest failure of any call, and closes only when proven. With threads that
  met neither of these two holds (`OpenBlocks`, section 6). The floor of the load score is what
  the code's comment computes; an idle instance on an idle machine accepts; load is judged
  monotonically.
- `TabTellsTheOutcome`: results displayed are of a job that completed, a card that says
  cancelled is of a job the service gave up; and when the timer is off and nothing about the
  latest job is under way, the tab has said how it ended. `OutcomeIsShown`: that comes about.
  Both exclude, by `crossed`, the late answers section 6 reports.
- `WindowsAreSound`, `GpuCallsAreWhole`, `EntriesAreKept`: see section 1.
- `OutagesCostNothing`, `ModelIsSound`, `ModelsAreShared`: Redis never fails a request; batches
  are aligned, the cache is bounded, a hit is never called a miss until the cache is cleared;
  racing threads get the right model.
- `ConfigurationHolds` (`ProfilesHold`, `SecretsAreFresh`, `OutagesAreReported`): a variable the
  operator spelled as the profiles do holds through every profile and process, other variables
  are the first profile's that knows them, a worker has the settings of its parent, every
  profile starts. An answer was replaced less than a time to live ago, plus the time its thread
  took to store it: the entry is stamped when it is stored (`secrets.py:311`), not when Vault
  answered. Own writes are seen by who fetches after them. A dead Vault is called healthy for
  less than twice the interval, but to who asks the monitor a day later.
- `ScriptsAreHonest`: exit 0 means every secret was written and none is the old one, whatever
  the rotation does beside it.
- `ArtifactsAreSound`: a model that one replica caches alone is whole and described, whatever
  crashed before; in a directory that no two replicas wrote at a time, a load without a warning
  has hashed a whole model; a registered version that was returned is whole; the moments are
  those of the samples, through saves and restarts.
- `ServiceReportsItself`: the gauge counts the requests inside through cancellations and
  exceptions; answers have reasons; indicators are true of their windows; what a report says of
  a component was so since it began, but for a Vault called healthy from memory.

## 5. What is proved

Eight modules hold theorems. What they state holds for every value of the constants that the
assumptions of the modules allow, not only for the instances of section 3. `PROJECT.json` lists
the theorems; each names the property of a run that it states.

| Module | About | Theorems |
|---|---|---|
| `AsyncBatchProofs` | `AsyncBatch` | `TypeCorrect`, `StoppedMeansQuiet`, `EachJobHasOneHolder`, `NoPendingJobIsLost`, `EndedStaysEnded`, `ResultsAreAllOrNothing`, `CachedResultsAreSound`, `CompletionsAreCounted`, `ProcessingJobsAreHeld`, `MetricsAreExact`, `JobsFollowTheLifecycle` |
| `StreamProcessorProofs` | `StreamProcessor` | `TypeCorrect`, `NoRequestIsForgotten`, `QueueHasATask`, `IdleQueueStaysEmpty`, `ServedInOrder` |
| `MessagingProofs` | `Messaging` (the five components of `MCMessaging`) | `TypeCorrect`, `RecordsAreNotLost`, `SideWorkIsSeen`, `ServicesAreDrained`, `OutcomesAreTold` |
| `Induction` | nothing of the program | induction over numbers and finite sets, folds, sums, counts |
| `StreamsProofs` | drift, GPU batches, anomalies, Kafka | lemmas: each component's invariant holds at first, is kept, and is enough |
| `InferenceProofs` | `Inference` (the nine components of `MCInference`) | `TypeCorrect`, `BreakerProtects`, `ChecksAreSound`, `OverlapsAreHarmless`, `BufferKeepsEntries`, `RedisMayGo`, `ModelAnswersInPlace`, `RacesAreCheap`, `BooksAreBalanced`; `BatchesKeepPlaces`, `QuantizedIsPreferred` of pure functions |
| `AdministrationProofs` | settings, secrets, Vault, scripts, model cache, versions, scaler | lemmas, as in `StreamsProofs` |
| `OperationsProofs` | `Operations` (the ten components of `MCOperations`) | `TypeCorrect`, `ConfigurationIsSound`, `ScriptsTellTheTruth`, `ArtifactsSurvive`, `ServiceIsTrueOfItself` |

*Assumptions.* Only those named in the modules, which TLC evaluates in the runs:
`ConstantsAssumption`, `CacheMaxAssumption`, `StreamAssumption`, `Assumptions` of `Messaging`,
of `Inference` and of `Operations`, `StreamsAssumption`, `AdministrationAssumption`. They say
that the sets of actors are finite, that limits are numbers and positive where the settings
require it, and that `None` is none of the values it stands beside. Further: what a user may set
has the types of the fields (pydantic refuses anything else); the file to migrate has a value
for each key, which is read from it once; windows of the indicators hold something, and the
window of confidences is not the longer.

*Batch service.* No property is inductive alone. The invariant is built in layers, each using
the one below.

1. `Typed`: `TypeOK`, and for each worker that it has a job exactly when it is neither idle nor
   off, that the worker that has the loop is not suspended, that one in the middle of
   `_process_job` has the loop, and that a stopped service has no worker. `StoppedIsQuiet`
   follows.
2. `Custody`: `OneHolder`, `PendingIsReachable`, and `Known`: a job that waits in a queue or has
   just been taken is PENDING, or was cancelled or expired, and a job a worker holds was
   submitted. Without `Known` a worker could take a job that is already COMPLETED. All steps
   except a submission and a dequeue are `Handling`s: they leave the queues alone, keep or drop
   a worker's job, and change a status only as its holder or to end it; that a `Handling`
   preserves `Custody` is proved once. `EndedIsFinal` follows from both layers.
3. `Whole`: `ResultsAreWhole` and `Progress`, which ties `done` to the program counter and says
   that a worker at the checkpoint never finds its job CANCELLED: the progress update just
   before wrote PROCESSING. This is why the cancellation test of `_process_job_batches` (line
   433) never ends a job halfway, and it is the price of the divergence `CancelSticks` reports.
4. `CacheIsSound` needs `FreshResults`: a worker about to store results has whole ones.
   `CompletedCountsResults` counts jobs with results; each step changes that set by the job it
   completes or by none.
5. `ProcessingIsHeld` needs `LeftByStop` and `Minded`: only a `stop()` that met a suspended
   prediction leaves a PROCESSING job without a worker.
6. For a processor that does not suspend (`Undisturbed`), the statuses of held jobs are known,
   so each counter moves as the sets it counts (`Accounted`): `CountsAreExact`. The same facts
   make every step a step of `JobLifecycle` or none (`JobsFollowTheLifecycle`, one lemma an
   action). For a processor that suspends neither is true, which the runs `batch_active_metric`
   and `batch_cancel_during` show.

*Stream processor.* The invariant adds `LockOK`, an idle task has the lock over an empty queue;
`FlagOK`, before shutdown cancels no task is cancelled and a set `_processing` stands for a task
that has started, without which `QueueIsServed` breaks when a request finds the flag of a task
that has ended; and `Once` and `Kept`, the queue holds a request once, after its caller began to
await and as long as it awaits. Once shutdown has begun to cancel, `FlagOK` and `QueueIsServed`
say nothing: there `stream_drain` shows they fail. The order of the waiters of the lock plays a
part only in their type.

*The compositions.* `Messaging`, `Inference` and `Operations` choose a component by `focus`
(section 2); their invariants are the conjunctions of the components' invariants, and a step of
one leaves the others' variables alone. So a theorem about the composition is about the full
behaviour of every component in it. `Inference` extends `Streams`, which holds four of its nine
components, so that the provers meet four instances at a time in `StreamsProofs`; `Operations`
extends `Administration` likewise. What makes each invariant inductive:

- *Data lake writer* (`Custody`): no batch in an upload shares a record with the buffer or
  another batch, whoever put what back in which order; the sets of places partition what was
  accepted.
- *Feedback, shadow mode*: nobody makes more attempts than there are; who has not begun to
  dispatch was not answered, so `stop()` gathers all that ran before it.
- *Shutdown*: at most one task drains (`OneDrains`), the latest signal's task is the known one
  (`TaskIsKnown`), and without a second signal who drains is the known task or the exit
  (`AloneDrains`). Without the last, the exit may await a task that does nothing. A drain has
  passed what it stopped and what was not there; a service that comes later is `missed`.
- *Batch tab*: an answer is of an earlier moment than its handling, so `AnswersWereSo` says of
  each answer on its way something that stays so: results are not taken back, a cancelled job
  can only expire. `ClearedHasReason`: a timer that is off leaves a request for results on its
  way or a tab that has told the end.
- *Circuit breaker*: what a thread is about to do says what it has just seen, as far as nobody
  has come between. Two layers: facts that hold however threads meet (a count that reaches the
  threshold has a thread behind it that will look), and facts under `raced = {}`, where at most
  one thread is within the breaker's lines and its place determines the counters.
  `BalancerProtects` has two action properties, proved of every step from these.
- *Load*: as many requests are counted active as are in flight; every part of a score is bounded
  by its weight whatever was measured, which gives the floor in the code's comment.
- *Drift*: each window holds samples in the order in which they came, so nothing is in it twice,
  and none is in both until the baseline is replaced.
- *GPU batches*: the batches of a call are the slices of its texts (`Cut`), device `(i + j) % n`
  takes batch `j` (`TakesTurns`), and a device's load is at least the sum of what its unfinished
  batches put on it, by sums over finite sets.
- *Anomalies*: ids count upwards, so a full buffer spans at least `max_size` of them.
- *Predictions*: who looks or infers has no result, who stores or answers has one. *Model*: a
  hit seen by a thread raised the counter after that thread read it. *Factory*: what is built
  and kept was numbered; threads that store and build are counted against the bound, which is
  what makes "at most one instance a thread between two resets" inductive.
- *Kafka*: a remembered window is the end of what was accepted (`Remembers`); everything in a
  batch in hand was asked or came late (`BatchWasAsked`); the sum over messages of what was
  handled is `consumed`; failures are retries counted plus `MaxRetries` for each id given up.
- *Settings*: `environ` is always the operator's variables over those of the profiles in the
  order in which they were applied (`Keeps`), so the first profile that knows a key has decided
  it; every object of the process was read from an environment that this one agrees with, except
  where a setter was used.
- *Secrets*: a value knows when it was replaced, and an entry when Vault answered and when it
  was stored: a version was replaced no earlier than it was last fetched, so an entry is behind
  by at most its age and the time from answer to store. A write is settled in the cache when no
  older fetch is on its way, and what is fetched later is not older. *Vault*: the gauge is up
  only for an answer less than an interval older than the check behind it, whence the two
  intervals of who was told last and not a day later.
- *Scripts*: a key that was passed is migrated, failed or skipped, once (`MigrationAccounts`);
  what the store holds of the migration is what was counted (`MigrationWrites`), although the
  rotation writes beside it; pods restart only for what the rotation wrote (`RotationRestarts`).
- *Model cache*: two writers of a directory know that they overlap, so a writer that does not
  know it finds what it copied, and a directory finished without overlap has no writer. In a
  directory that is not `mixed`, a whole hash in a metadata file or in a memory is a content's,
  or the file is partial and its hash another. *Registry*: what was promoted stays until
  somebody demotes. *Scaler*: Welford's recurrence over a batch and the sums over the whole
  sequence are folds that agree step by step (`Stands`), for any integers, but only up to the
  four samples for which twelfths are exact.
- *API* (`CallHolds`): a request that a handler has seen had the world and the key for it, and
  neither changes until it has its answer, so each status has its cause (`Explained`); active
  requests are the callers that were seen and have not left, and the sums of what was recorded
  and answered agree (`Accounts`).
- *Indicators*: windows are the ends of what was recorded, the counters of each kind sum to its
  length; the sorted window is the window in another order, so a percentile is one of its values
  with that share of them not above it. *Health*: what was gathered from a component was
  deserved at some moment since the report began, or comes from memory, which the report knows
  (`reused`).
- *Pure functions*: the place of a result among the valid texts is the number of valid texts up
  to it.

*Induction over data.* The library's induction theorems take a predicate as an operator, which
the provers cannot instantiate. `Induction` takes it as a set: from the well-foundedness of `<`
every set of numbers that is not empty has a least member, from that follow induction on numbers
and on finite sets, that a fold of the community modules exists and satisfies its equation, and
that sums and counts do not depend on an order.

*What the attempts to prove changed in the models.* `KafkaBatches` counted a message once
however often it stood in one batch, and the sum of what was handled was then not `consumed`: it
counts every occurrence now. `PredictionAssumption` and `KafkaAssumption` lacked what keeps
`None` apart from results, and that partitions and offsets are finitely many. `AnomalyBuffer`
and `SentimentModel` remove one element and fold, where they used `SelectSeq`, about which
nothing can be proved; `GpuBatches` has its strategy as a variable that `Init` chooses, so that
one instance covers all strategies.

The same around serving. In `HttpApi` two arms of the `CASE` that says what an endpoint lacks
overlapped, which leaves the choice between them open: what a missing model answers now goes
first. `Settings` has a type for each field, with `Texts` for those of text. `SecretScripts` had
the value of each secret as a constant; it is a variable that `Init` chooses from `Files`.
`KpiMetrics` defines the sorted window, where it used an operator that is not defined in TLA+;
the endpoints a client asks are a function. `Settings`, `HttpApi`, `HealthReport` and
`ModelCache` did not say that `None` is apart from what it stands beside, nor `KpiMetrics` that
confidences and latencies are numbers. `Predictions` picks the places of valid texts by a fold,
as the model does.

*Model-checked only.* Liveness, which is out of the prover's reach: `EventuallyEnded`,
`EveryRequestSettled`, `EventuallyStored`, `SignalDrains`, `OutcomeIsShown`. Every invariant,
every safety action property and the refinement that the passing runs check is stated by a
theorem.

## 6. What the code does not do

Five runs are expected to fail; each checks one sentence of the repository.

- `batch_active_metric`: "active_jobs: Number of currently active jobs"
  (`src/app/api/schemas/responses.py:330`). A job cancelled, then found past its deadline by the
  clean-up, is subtracted twice: -1.
- `batch_cancel_during`: a job "cancelled during processing" ends CANCELLED
  (`src/tests/unit/test_async_batch_service.py:236`). Cancelled during a suspended prediction it
  becomes PROCESSING again and COMPLETED.
- `stream_drain`: shutdown "ensures that any remaining requests in the queue are processed
  before stopping the batch processing task" (`services/stream_processor.py:398`). A request
  that arrives between the drain and the end of the cancelled task is queued without a task and
  never answered.
- `drift_update`: "Drift baseline updated successfully"
  (`src/app/api/routes/monitoring_routes.py:297`). The call waits for the lock it holds, and
  with it the event loop.
- `prediction_cache`: the key "includes the model backend name so switching backends ... can't
  serve a stale prediction" (`services/prediction.py:66`). It includes the model name, which all
  backends share.

The modules state further sentences of the repository that their models do not keep. They are
definitions, in the module named, that TLC refutes when they are given as the property of a run:

| Sentence | What happens |
|---|---|
| `AsyncBatch.CompletedCanBeFetched` (`async_batch.py:244`) | past its time-out a completed job turns EXPIRED at the next look |
| `KafkaBatches.ExactlyOnce` (`docs/kafka-high-throughput.md:10`, `:149`, `:385`) | a message that joins a batch during its prediction, or meets a full batch, was remembered and is lost; outside the window of offsets a redelivery is handled again |
| `KafkaBatches.StopProcessesTheRest` (`kafka_interface.py:34`) | `stop` touches no batch |
| `KafkaBatches.GivenUpIsDeadLettered` (`config/kafka.py:143`) | without the queue, or when sending fails, the id is forgotten |
| `KafkaBatches.ThroughputIsKnown` (`kafka_consumer.py:364`) | the time since the last commit is measured after it was set to now: zero |
| `DataWriter.StopEndsTheLoop` (`data_writer.py:138`) | `batch_task` names a size-triggered flush, the loop goes on |
| `FeedbackProducer.StopCloses` (`feedback_service.py:53`) | two creations race, one producer is never closed |
| `ShadowMode.StopCleansUp` (`shadow_mode.py:94`) | a task dispatched while `stop` waits is not gathered |
| `Shutdown.EndsDrained` (`events.py:67`) | with two signals the exit awaits the second task, which returns at once |
| `Shutdown.EverythingIsReleased` (`events.py:125-128`, `:138`) | a signal during the start-up drains what is there; services started behind the drain are never stopped, for `_is_shutting_down` is set for good |
| `CircuitBreaker.OpenBlocks` (`load_balancer.py:114-117`) | a thread that found the time-out passed makes the breaker half open after another has failed; one that counted its success closes it after another reopened it. A reset beside a failing call can leave it open without a time, and then for ever |
| `BatchTab.TimerOutlivesOldAnswers` (`BatchTab.jsx:93`) | a late answer about an earlier job clears the later job's timer (`BatchTab.jsx:62`, `:67`, `:71`, `:81`): its outcome is never shown |
| `BatchTab.ResultsMatchCard` (`BatchTab.jsx:136`) | the results of an earlier job appear below the card of the later |
| `BatchTab.TimerEndsWithTab` (`BatchTab.jsx:23`) | a submission under way when the tab is left starts a timer that nobody clears |
| `DriftWindows.NewLabelsAreDrift` (`drift_detection.py:6`) | windows of different lengths make the chi-square test raise, which is swallowed and answered as no drift |
| `GpuBatches.IdleIsUnloaded` (`gpu_batch_optimizer.py:188`) | the load of a batch that fell back to the CPU stays |
| `AnomalyBuffer.DefaultApplies` (`anomaly_buffer.py:85`) | an entry added without a time to live does not get the default |
| `SentimentModel.HitMeansCached` (`models/base.py:145`) | a miss beside another thread's hit is called a hit |
| `ModelFactory.BuiltOnce` (`models/factory.py:34`) | threads and spellings build again |
| `Settings.LowerCaseOverrides` (`settings.py:324-325`) | a variable in lower case is read (`case_sensitive = False`, `:396`), but a profile does not see it (`:351`) and overrides it |
| `Settings.DotenvBeforeProfile` (`docs/configuration/PROFILES.md:404-407`) | a profile is written into the environment, which goes before the file `.env`; `MLOPS_PROFILE` itself is not looked up in the file |
| `Settings.ProfileIsApplied` (`core/config/settings.py:333`) | of a second profile only the keys the first does not know are applied: after `local`, `production` listens on 127.0.0.1 |
| `Settings.OverridesStart` (`PROFILES.md:24`) | `MLOPS_DEBUG=true` alone stops a process with the profile of staging or production, which asks for several workers |
| `Settings.SettingsStayConsistent` (`settings.py:170`) | setters do not check |
| `Secrets.ValueOrDefault` (`secrets.py:297`) | an entry dropped by another thread between 299 and 300 raises `KeyError` to the caller |
| `Secrets.TrueIfWritten` (`secrets.py:332`) | between 340 and 341 likewise: False, though the secret was written |
| `VaultHealth.CachedForAnInterval` (`vault_health.py:60-61`) | `.seconds` leaves the days out: a day later the gauge of then is given again |
| `VaultHealth.HealthyMeansAuthenticated` (`secrets.py:375`) | within the interval of an unhealthy check the answer is True |
| `VaultHealth.RenewalsRenew` (`vault_health.py:32`) | the counter counts, nothing is renewed |
| `SecretScripts.BackupSaved` (`migrate-secrets-to-vault.py:602`) | logged although the backup failed |
| `SecretScripts.ZeroMeansRolledOut` (`rotate-secrets.py:4`) | exit 0 also when the roll-out did not complete |
| `ModelCache.CachedIsWhole` (`persistence.py:348`) | a directory whose copy was cut short counts, or whose metadata file was opened and not written |
| `ModelCache.OpenedIsHashed` (`persistence.py:258`) | another replica caches again between the hash and the opening: what was validated is not what is loaded |
| `ModelVersions.NoneMeansFailed`, `AllProductionIsAll`, `LatestIsNewest` (`mlflow_registry.py:113`, `:215`, `:178`) | a version is left behind; one is returned; "9" sorts after "10" |
| `HttpApi.ServiceErrorsKeepStatus` (`main.py:153`) | with `debug`, Starlette answers 500 itself |
| `HttpApi.HealthIsPublic` (`auth.py:48`) | the paths to skip lack the prefix `/api/v1` |
| `HttpApi.EveryAnswerIsCorrelated` (`correlation.py:25`) | refusals and exceptions are answered outside of that middleware |
| `KpiMetrics.RejectionIsOfWindow`, `GaugeIsCurrent` (`advanced_metrics.py:132`, `:164`) | the counts have windows of different lengths; gauges are set when asked |
| `HealthReport.HealthyIsAccessible` (`health.py:57-58`) | within a minute of Vault's last answer, also one that it is sealed, the report calls it healthy without asking (`secrets.py:378-383`) |
| `HealthReport.WarmMeansServed`, `ReadyMeansWarm` (`model_warmup.py:38`, `:136`) | also when every iteration failed; readiness does not ask |

Seen on the way:

- six errors of the service alone inherit a client's status (`ErrorClasses.Misfits`): a failed
  login to Vault or Kubernetes is a 401, a wrong secrets configuration, model path or scaler
  state a 400 (`exceptions.py:315-355`, `:430`, `:512`, `:542`);
- finished jobs are never removed from `_jobs` (`batch_job_manager.py:141`): a growth that a
  bounded instance cannot show; the clean-up of a pending job leaves `queue_size` to be
  corrected by the next `get_batch_metrics`; a job timed out exactly at its deadline stays
  counted in `active_jobs`; the items of a failed batch share one error dictionary
  (`stream_processor.py:474`);
- results of ONNX and PyTorch lack fields that `PredictionResponse` requires, so `/predict`
  answers 500 with them; a text over the limit is answered 500 as well;
- a `ServiceError` is recorded as 500 by the metrics and answered with its own status;
  "correlation first" (`main.py:66`) is added first and so innermost, and
  `request.state.correlation_id` is never set;
- an idle batch service makes the detailed health "unhealthy"; `check_system_health` blocks the
  event loop for a second (`psutil` with `interval=1`);
- the batch tab polls a job that expired, or that somebody else cancelled, for as long as it is
  open: only `completed` and `failed` end the timer (`BatchTab.jsx:61`);
- feedback answered after the next analysis has begun marks that one as sent
  (`PredictTab.jsx:41`);
- profiles set variables that no field reads (`MLOPS_ASYNC_BATCH_SIZE`,
  `MLOPS_ASYNC_MAX_WORKERS`, `MLOPS_DATA_LAKE_FLUSH_INTERVAL`, `MLOPS_DRIFT_CHECK_INTERVAL`,
  ...);
- the webhook validator refuses the three segments Slack makes;
- names of models "a/b" and "a_b" share one directory of the model cache;
- nothing in `src/app` calls `add_prediction`, the circuit breaker, `get_load_metrics`, the GPU
  optimizer, the anomaly buffer, `ModelPersistenceManager` or `register_model`; the router of
  the model versions is not mounted; no route calls `PredictionService.predict_batch`; the
  shadow's `create_model` ignores its model name.

## 7. What is not modelled

In the modelled parts: a `start` of the batch service within its `stop` (section 2); one GPU,
and GPUs without dynamic batching (`gpu_batch_optimizer.py:132`, `:225-232`); that
`asyncio.gather` returns results in the order of its tasks, which the order of GPU results rests
on; a drift window after `update_baseline`, which never returns (`drift_update`); texts, labels
and scores, pagination, wording and error formatting, average times, the stream processor's
statistics and the scaler file it saves, the `clear_cache` of the result cache and of the model
persistence (no caller), `delete` of the Redis client (no caller), `log_prediction_metrics`. A
`predict_async_batch` that itself raises `CancelledError` is the cancellation of the worker. Not
modelled at all, and why:

- floating-point statistics and inference: PSI, Kolmogorov-Smirnov and chi-square of drift,
  feature extraction, the scaler's `transform`, attention attribution, the mock's word lists;
- declarations without behaviour: most fields of the settings, interfaces, schemas; the bounds
  of the fields are the assumptions on the constants; the flat arguments of older callers
  (`map_legacy_fields`);
- pure formatting and exporting: tracing, logging, the Prometheus scrape cache;
- the distributed Kafka consumer, a stub that only logs; detection of devices and memory;
- offline programs without a protocol: ONNX export, benchmarks with their cost and report
  generators, the set-up scripts, the deployment manifests;
- the other tabs of the front end: one request and its answer each.

The benchmarks, set-up scripts, exporters and tests are a large share of the lines of the
repository; they are sequences of measurements and prints in which nothing competes.

## 8. Where it stands

What keeps state and decides something is modelled, within the limits of section 7; of the
start-up, which services start, in which order and when signals meet them, not what each does to
start. Every safety property of the runs is proved for all values of the constants. The five
liveness properties stay with TLC: `EventuallyEnded`, `EveryRequestSettled`, `EventuallyStored`,
`SignalDrains`, `OutcomeIsShown`. When the code changes, the run of the component concerned
shows first whether its invariant (`...Inv` in the module of the proofs, which TLC can check as
an invariant) still holds; its lemma about the action that changed is what has to be proved
again.
