------------------------------ MODULE AsyncBatch ------------------------------
(***************************************************************************)
(* The asynchronous batch service: AsyncBatchService and the three         *)
(* collaborators it orchestrates, BatchJobManager, PriorityQueueManager    *)
(* and ResultCacheManager.                                                 *)
(*                                                                         *)
(* Everything runs on one asyncio event loop.  No body of an asyncio.Lock  *)
(* of these classes suspends, so the locks are never contended and a       *)
(* coroutine keeps the loop until it awaits something that is not ready.   *)
(* `loop` names the worker that has the loop, or Free: handlers and other  *)
(* tasks run only when it is Free, while time passes at any moment.  One   *)
(* action is the code between two readings of the clock or suspensions.    *)
(*                                                                         *)
(* A definition marked "mutant" is a plausible slip in the code the next   *)
(* definition models; nothing here uses it, PROJECT.json names the         *)
(* property it breaks.                                                     *)
(*                                                                         *)
(* A worker suspends on its queue and, if Suspends, in                     *)
(* predict_async_batch.  StreamProcessor, the implementation in the tree,  *)
(* computes there without ever suspending (Suspends = FALSE); the          *)
(* interface is async and the test doubles do suspend (Suspends = TRUE).   *)
(***************************************************************************)
EXTENDS ResultCache, FiniteSets

CONSTANTS
  Jobs,         \* the jobs clients may submit
  NoJob,        \* a worker's job when it has none
  Batches,      \* Batches[j]: batches of max_batch_size texts in job j
  Limit,        \* Limit[p]: capacity of the queue of priority p
  Offered,      \* priorities clients ask for (bound)
  Suspends,     \* does predict_async_batch yield the event loop?
  Malformed,    \* may it return something else than a list of dicts?
  Expiring,     \* jobs whose timeout may pass during a behaviour (bound)
  MaxStarts     \* calls of start() (bound)

Priority == {"high", "medium", "low"}

ASSUME ConstantsAssumption ==
  /\ IsFiniteSet(Jobs)
  /\ NoJob \notin Jobs
  /\ Batches \in [Jobs -> Nat \ {0}]
  /\ Limit \in [Priority -> Nat \ {0}]
  /\ Offered \subseteq Priority
  /\ Suspends \in BOOLEAN /\ Malformed \in BOOLEAN
  /\ Expiring \subseteq Jobs
  /\ MaxStarts \in Nat

Live == {"pending", "processing"}
Terminal == {"completed", "failed", "cancelled", "expired"}
Status == {"none"} \union Live \union Terminal      \* "none": not submitted yet
Clock == {"before", "at", "past"}       \* elapsed <, = or > timeout_seconds
PC == {"off", "idle", "taken", "claim", "checkpoint", "deadline", "predict",
       "finish", "refresh", "timeout", "failure"}
Counters == {"total", "active", "completed", "failed", "queued"}
Free == "free"
NoResults == -1

VARIABLES
  status,      \* job.status
  clock,       \* where time.time() - job.created_at stands
  processed,   \* job.processed_count, in batches
  results,     \* job.results: how many batches' results it holds
  metrics,     \* ProcessingMetrics
  queue,       \* the asyncio.Queue of each priority
  pc,          \* where the worker of each priority is
  job,         \* the job it holds
  done,        \* len(all_results) of its current job, in batches
  stopping,    \* has stop_workers() cancelled it and the task not seen it?
  loop,        \* the worker that has the event loop
  service,     \* AsyncBatchService: "stopped", "running", "stopping"
  starts,      \* calls of start() so far
  cache,       \* ResultCacheManager: its keys, oldest first
  stale        \* how many of them are past their time to live

jobVars == <<status, processed, results, metrics>>
workerVars == <<pc, job, done, stopping>>
serviceVars == <<service, starts>>
cacheVars == <<cache, stale>>
vars == <<jobVars, clock, queue, workerVars, loop, serviceVars, cacheVars>>

Init ==
  /\ status = [j \in Jobs |-> "none"]
  /\ clock = [j \in Jobs |-> "before"]
  /\ processed = [j \in Jobs |-> 0]
  /\ results = [j \in Jobs |-> NoResults]
  /\ metrics = [c \in Counters |-> 0]
  /\ queue = [p \in Priority |-> << >>]
  /\ pc = [p \in Priority |-> "off"]
  /\ job = [p \in Priority |-> NoJob]
  /\ done = [p \in Priority |-> 0]
  /\ stopping = [p \in Priority |-> FALSE]
  /\ loop = Free
  /\ service = "stopped"
  /\ starts = 0
  /\ cache = << >>
  /\ stale = 0

------------------------------------------------------------------------------
(***************************************************************************)
(* BatchJobManager: what its methods do to a job's status and to the       *)
(* metrics.                                                                *)
(***************************************************************************)
One(c, S) == IF c \in S THEN 1 ELSE 0

\* The counters in `up` are incremented, those in `down` decremented.
Bump(m, up, down) ==
  [c \in Counters |-> m[c] + One(c, up) - One(c, down)]

\* queue_size counts the pending jobs, active_jobs the live ones.
QueueCounter(old) == IF old = "pending" THEN {"queued"} ELSE {}
LiveCounters(old) ==
  QueueCounter(old) \union IF old \in Live THEN {"active"} ELSE {}

\* is_job_expired (>) and _has_job_timed_out (>=) differ at the deadline itself.
Overdue(j) == clock[j] = "past"
TimedOutNever(j) == FALSE                                    \* mutant
TimedOut(j) == clock[j] \in {"at", "past"}

\* The metrics after a job with status `old` was found past its deadline by
\* get_job or by is_job_valid.
ExpireDownwards(m, old) ==                                   \* mutant
  Bump(m, {}, LiveCounters(old) \union {"failed"})
Expire(m, old) == Bump(m, {"failed"}, LiveCounters(old))

\* get_job: the status it returns, and leaves, and the metrics it leaves.
Seen(j) == IF Overdue(j) THEN "expired" ELSE status[j]
SeenMetrics(j) ==
  IF Overdue(j) /\ status[j] # "expired" THEN Expire(metrics, status[j])
                                         ELSE metrics

\* A job that ends leaves the active ones, unless cancelling it already did.
SettlesRunning(old) == old = "processing"                    \* mutant
SettlesUnexpired(old) == old \notin {"cancelled", "expired"} \* mutant
Settles(old) == old # "cancelled"

\* update_job_status: the metrics after a change from `old` to `new`.
Updated(m, old, new) ==
  CASE new = "processing" -> Bump(m, {}, QueueCounter(old))
    [] new = "completed" /\ Settles(old) -> Bump(m, {"completed"}, {"active"})
    [] new = "failed" /\ Settles(old) ->
         Bump(m, {"failed"}, {"active"} \union QueueCounter(old))
    [] OTHER -> m

\* The effect of get_job(j) alone.
Look(j) ==
  /\ status' = [status EXCEPT ![j] = Seen(j)]
  /\ metrics' = SeenMetrics(j)

\* get_job(j), then update_job_status(j, new) unless it was cancelled.
LookAndSet(j, new) ==
  /\ status' = [status EXCEPT ![j] = IF Seen(j) = "cancelled" THEN @ ELSE new]
  /\ metrics' = IF Seen(j) = "cancelled" THEN metrics
                ELSE Updated(SeenMetrics(j), Seen(j), new)

------------------------------------------------------------------------------
(***************************************************************************)
(* Requests handled by the API routes.                                     *)
(***************************************************************************)
Submitted(j) == status[j] # "none"

\* create_job counts the job.
Created == Bump(metrics, {"total", "active", "queued"}, {})

\* enqueue_job: put_nowait does not raise QueueFull.
HasRoom(p) == Len(queue[p]) < Limit[p]

\* submit_batch_job: create_job, then enqueue_job; a full queue fails the job.
Submit(j, p) ==
  /\ loop = Free
  /\ ~Submitted(j)
  /\ \/ /\ HasRoom(p)
        /\ status' = [status EXCEPT ![j] = "pending"]
        /\ metrics' = Created
        /\ queue' = [queue EXCEPT ![p] = Append(@, j)]
     \/ /\ ~HasRoom(p)
        /\ status' = [status EXCEPT ![j] = "failed"]
        /\ metrics' = Updated(Created, "pending", "failed")
        /\ UNCHANGED queue
  /\ UNCHANGED <<clock, processed, results, workerVars, loop, serviceVars,
                 cacheVars>>

\* get_job_status
GetStatus(j) ==
  /\ loop = Free
  /\ Submitted(j)
  /\ Look(j)
  /\ UNCHANGED <<clock, processed, results, queue, workerVars, loop,
                 serviceVars, cacheVars>>

\* get_job_results: looks the cache up, dropping the entry if it is past its
\* time to live, then calls get_job; the answer changes nothing more.
GetResults(j) ==
  /\ loop = Free
  /\ Submitted(j)
  /\ Look(j)
  /\ \/ \E i \in 1..stale : /\ cache[i] = j
                            /\ cache' = Without(cache, i)
                            /\ stale' = stale - 1
     \/ /\ \A i \in 1..stale : cache[i] # j
        /\ UNCHANGED cacheVars
  /\ UNCHANGED <<clock, processed, results, queue, workerVars, loop,
                 serviceVars>>

\* cancel_job: a job that is neither pending nor processing is left alone.
Cancel(j) ==
  /\ loop = Free
  /\ status[j] \in Live
  /\ status' = [status EXCEPT ![j] = "cancelled"]
  /\ metrics' = Bump(metrics, {}, LiveCounters(status[j]))
  /\ UNCHANGED <<clock, processed, results, queue, workerVars, loop,
                 serviceVars, cacheVars>>

\* get_batch_metrics overwrites the queue size with what the queues hold.
GetMetrics ==
  /\ loop = Free
  /\ metrics' = [metrics EXCEPT !["queued"] =
       Len(queue["high"]) + Len(queue["medium"]) + Len(queue["low"])]
  /\ UNCHANGED <<status, clock, processed, results, queue, workerVars, loop,
                 serviceVars, cacheVars>>

------------------------------------------------------------------------------
(***************************************************************************)
(* A worker: _process_priority_queue and, inside it, _process_job.         *)
(***************************************************************************)
Goto(p, c) == pc' = [pc EXCEPT ![p] = c]

\* The worker is done with its job: `while self._running`, then dequeue_job.
NextJob(p) ==
  /\ Goto(p, IF service = "running" THEN "idle" ELSE "off")
  /\ job' = [job EXCEPT ![p] = NoJob]
  /\ done' = [done EXCEPT ![p] = 0]
  /\ loop' = Free

\* asyncio.Queue.get
PoppedNot(q) == q                                            \* mutant
Popped(q) == Tail(q)

\* The task wait_for made for queue.get() takes the oldest job; the worker
\* itself resumes later.
Take(p) ==
  /\ loop = Free
  /\ pc[p] = "idle"
  /\ queue[p] # << >>
  /\ job' = [job EXCEPT ![p] = Head(queue[p])]
  /\ queue' = [queue EXCEPT ![p] = Popped(@)]
  /\ Goto(p, "taken")
  /\ UNCHANGED <<jobVars, clock, done, stopping, loop, serviceVars, cacheVars>>

\* is_job_valid refuses these whatever the clock says.
RefusedExpired == {"expired"}                                \* mutant
Refused == {"cancelled", "expired"}

\* dequeue_job returns the job, a pending cancellation being swallowed by
\* wait_for as its task is done; then is_job_valid.
Validate(p) ==
  LET j == job[p] IN
  /\ loop = Free
  /\ pc[p] = "taken"
  /\ stopping' = [stopping EXCEPT ![p] = FALSE]
  /\ \/ /\ status[j] \in Refused
        /\ NextJob(p)
        /\ UNCHANGED <<status, metrics>>
     \/ /\ status[j] \notin Refused /\ Overdue(j)
        /\ Look(j)
        /\ NextJob(p)
     \/ /\ status[j] \notin Refused /\ ~Overdue(j)
        /\ Goto(p, "claim")
        /\ loop' = p
        /\ UNCHANGED <<status, metrics, job, done>>
  /\ UNCHANGED <<clock, processed, results, queue, serviceVars, cacheVars>>

\* _process_job up to the try: get_job, return if it was cancelled, else
\* PROCESSING.
Claim(p) ==
  /\ loop = p /\ pc[p] = "claim"
  /\ LookAndSet(job[p], "processing")
  /\ IF Seen(job[p]) = "cancelled"
     THEN NextJob(p)
     ELSE Goto(p, "checkpoint") /\ UNCHANGED <<job, done, loop>>
  /\ UNCHANGED <<clock, processed, results, queue, stopping, serviceVars,
                 cacheVars>>

\* The head of the loop of _process_job_batches: get_job and the cancellation
\* checkpoint.
Checkpoint(p) ==
  /\ loop = p /\ pc[p] = "checkpoint"
  /\ Look(job[p])
  /\ Goto(p, IF Seen(job[p]) = "cancelled" THEN "finish" ELSE "deadline")
  /\ UNCHANGED <<clock, processed, results, queue, job, done, stopping, loop,
                 serviceVars, cacheVars>>

\* The timeout enforcement, then the call of predict_async_batch.
Predict(p) ==
  /\ loop = p /\ pc[p] = "deadline"
  /\ \/ /\ TimedOut(job[p])
        /\ Goto(p, "timeout")
        /\ UNCHANGED loop
     \/ /\ ~TimedOut(job[p])
        /\ Goto(p, "predict")
        /\ loop' = IF Suspends THEN Free ELSE p
  /\ UNCHANGED <<jobVars, clock, queue, job, done, stopping, serviceVars,
                 cacheVars>>

\* predict_async_batch returns (or fails: its error becomes ERROR results).
Answered(p) ==
  /\ pc[p] = "predict"
  /\ loop = IF Suspends THEN Free ELSE p
  /\ ~stopping[p]
  /\ loop' = p

\* The progress update sets PROCESSING whatever the status has become.
ProgressedUnlessCancelled(s) ==                              \* mutant
  IF s = "cancelled" THEN s ELSE "processing"
Progressed(s) == "processing"

\* range(0, total_texts, batch_size) is exhausted.
LastBatch(p) == done[p] + 1 = Batches[job[p]]

\* The batch's results are added and the progress is written.
BatchDone(p) ==
  LET j == job[p] IN
  /\ Answered(p)
  /\ done' = [done EXCEPT ![p] = @ + 1]
  /\ processed' = [processed EXCEPT ![j] = done[p] + 1]
  /\ status' = [status EXCEPT ![j] = Progressed(@)]
  /\ metrics' = Updated(metrics, status[j], "processing")
  /\ Goto(p, IF LastBatch(p) THEN "finish" ELSE "checkpoint")
  /\ UNCHANGED <<clock, results, queue, job, stopping, serviceVars, cacheVars>>

\* Handling a malformed answer raises: `except Exception` of _process_job.
BadBatch(p) ==
  /\ Malformed
  /\ Answered(p)
  /\ Goto(p, "failure")
  /\ UNCHANGED <<jobVars, clock, queue, job, done, stopping, serviceVars,
                 cacheVars>>

\* After the loop: get_job, COMPLETED with the results unless it was cancelled.
Complete(p) ==
  LET j == job[p] IN
  /\ loop = p /\ pc[p] = "finish"
  /\ LookAndSet(j, "completed")
  /\ IF Seen(j) = "cancelled"
     THEN NextJob(p) /\ UNCHANGED <<processed, results>>
     ELSE /\ results' = [results EXCEPT ![j] = done[p]]
          /\ processed' = [processed EXCEPT ![j] = done[p]]
          /\ Goto(p, "refresh")
          /\ UNCHANGED <<job, done, loop>>
  /\ UNCHANGED <<clock, queue, stopping, serviceVars, cacheVars>>

\* get_job once more; the results are cached if it is still COMPLETED.
Refresh(p) ==
  /\ loop = p /\ pc[p] = "refresh"
  /\ Look(job[p])
  /\ IF Seen(job[p]) = "completed"
     THEN cache' = CacheResult(cache, stale, job[p]) /\ stale' = 0
     ELSE UNCHANGED cacheVars
  /\ NextJob(p)
  /\ UNCHANGED <<clock, processed, results, queue, stopping, serviceVars>>

\* The two exception handlers of _process_job.
TimeoutExitLogging(p) ==                                     \* mutant
  /\ loop = p /\ pc[p] = "timeout"
  /\ Look(job[p])
  /\ NextJob(p)
  /\ UNCHANGED <<clock, processed, results, queue, stopping, serviceVars,
                 cacheVars>>

TimeoutExit(p) ==
  /\ loop = p /\ pc[p] = "timeout"
  /\ LookAndSet(job[p], "expired")
  /\ NextJob(p)
  /\ UNCHANGED <<clock, processed, results, queue, stopping, serviceVars,
                 cacheVars>>

FailureExit(p) ==
  /\ loop = p /\ pc[p] = "failure"
  /\ LookAndSet(job[p], "failed")
  /\ NextJob(p)
  /\ UNCHANGED <<clock, processed, results, queue, stopping, serviceVars,
                 cacheVars>>

\* Where a worker task is suspended and task.cancel() is not swallowed.
InterruptibleTaken == {"idle", "taken", "predict"}           \* mutant
Interruptible == {"idle", "predict"}

\* CancelledError reaches a worker that waits for a job or for a prediction;
\* the job it was processing is left as it is.
CancelWorker(p) ==
  /\ loop = Free
  /\ stopping[p]
  /\ pc[p] \in Interruptible
  /\ stopping' = [stopping EXCEPT ![p] = FALSE]
  /\ Goto(p, "off")
  /\ job' = [job EXCEPT ![p] = NoJob]
  /\ done' = [done EXCEPT ![p] = 0]
  /\ UNCHANGED <<jobVars, clock, queue, loop, serviceVars, cacheVars>>

------------------------------------------------------------------------------
(***************************************************************************)
(* The service's own tasks, and time.                                      *)
(***************************************************************************)

\* The statuses the clean-up round does not leave out.
CleanedQueued == {"pending", "cancelled"}                    \* mutant
Cleaned == {"pending", "processing", "cancelled"}

\* One round of _cleanup_expired_jobs.
Cleanup ==
  LET old == {j \in Jobs : Overdue(j) /\ status[j] \in Cleaned}
  IN /\ loop = Free
     /\ service # "stopped"
     /\ old # {}
     /\ status' = [j \in Jobs |-> IF j \in old THEN "expired" ELSE status[j]]
     /\ metrics' = [metrics EXCEPT !["active"] = @ - Cardinality(old),
                                   !["failed"] = @ + Cardinality(old)]
     /\ UNCHANGED <<clock, processed, results, queue, workerVars, loop,
                    serviceVars, cacheVars>>

StartWorkers == pc' = [p \in Priority |-> "idle"]
StopWorkers == stopping' = [p \in Priority |-> TRUE]

\* start: the cleanup task and one worker per priority.  Assumed of its callers:
\* nobody calls it while stop() is awaited, though _running is False then
\* (async_batch_service.py:121, :147).  The program has one caller of each:
\* events.py:301 calls start() once in a process, and hands the service to those
\* who stop it (:90) when start() has returned; the tests await each in turn.
\* A caller that did overlap them would be left with a running service whose
\* workers stop_workers() forgets and whose clean-up task job_manager.stop() ends.
Start ==
  /\ loop = Free
  /\ service = "stopped"
  /\ starts < MaxStarts
  /\ service' = "running"
  /\ starts' = starts + 1
  /\ StartWorkers
  /\ UNCHANGED <<jobVars, clock, queue, job, done, stopping, loop, cacheVars>>

\* stop up to the gather of stop_workers: every worker task is cancelled.
Stop ==
  /\ loop = Free
  /\ service = "running"
  /\ service' = "stopping"
  /\ StopWorkers
  /\ UNCHANGED <<jobVars, clock, queue, pc, job, done, loop, starts, cacheVars>>

\* gather of stop_workers returns when every worker task has ended.
GatheredAtOnce == TRUE                                       \* mutant
Gathered == \A p \in Priority : pc[p] = "off"

\* The gather returns and job_manager.stop() ends the cleanup task.
Stopped ==
  /\ loop = Free
  /\ service = "stopping"
  /\ Gathered
  /\ service' = "stopped"
  /\ UNCHANGED <<jobVars, clock, queue, workerVars, loop, starts, cacheVars>>

\* Time reaches, then passes, the deadline of a job.
Tick(j) ==
  /\ j \in Expiring /\ Submitted(j)
  /\ \/ clock[j] = "before" /\ clock' = [clock EXCEPT ![j] = "at"]
     \/ clock[j] \in {"before", "at"} /\ clock' = [clock EXCEPT ![j] = "past"]
  /\ UNCHANGED <<jobVars, queue, workerVars, loop, serviceVars, cacheVars>>

\* Time passes the time to live of the oldest cached entry that was within it.
CacheTick ==
  /\ stale < Len(cache)
  /\ stale' = stale + 1
  /\ UNCHANGED <<jobVars, clock, queue, workerVars, loop, serviceVars, cache>>

------------------------------------------------------------------------------
Request ==
  \/ \E j \in Jobs, p \in Offered : Submit(j, p)
  \/ \E j \in Jobs : GetStatus(j) \/ GetResults(j) \/ Cancel(j)
  \/ GetMetrics

WorkerStep(p) ==
  \/ Take(p) \/ Validate(p) \/ Claim(p) \/ Checkpoint(p) \/ Predict(p)
  \/ BatchDone(p) \/ BadBatch(p) \/ Complete(p) \/ Refresh(p)
  \/ TimeoutExit(p) \/ FailureExit(p) \/ CancelWorker(p)

Time == (\E j \in Jobs : Tick(j)) \/ CacheTick

Next ==
  \/ Request
  \/ \E p \in Priority : WorkerStep(p)
  \/ Cleanup \/ Start \/ Stop \/ Stopped
  \/ Time

Spec == Init /\ [][Next]_vars

\* The event loop runs every ready task, predictions return, time passes, the
\* cleanup task wakes up every interval.  Clients and start/stop are not fair.
Fairness ==
  /\ \A p \in Priority : WF_vars(WorkerStep(p))
  /\ WF_vars(Cleanup) /\ WF_vars(Stopped)
  /\ \A j \in Jobs : WF_vars(Tick(j))

FairSpec == Spec /\ Fairness

------------------------------------------------------------------------------
(***************************************************************************)
(* Properties.                                                             *)
(***************************************************************************)
Metrics == {m \in [Counters -> Int] :
              \A c \in {"total", "completed", "failed"} : m[c] >= 0}

\* The values the fields can take; total, completed and failed only grow.
TypeOK ==
  /\ status \in [Jobs -> Status]
  /\ clock \in [Jobs -> Clock]
  /\ processed \in [Jobs -> Nat]
  /\ results \in [Jobs -> Nat \union {NoResults}]
  /\ metrics \in Metrics
  /\ queue \in [Priority -> Seq(Jobs)]
  /\ pc \in [Priority -> PC]
  /\ job \in [Priority -> Jobs \union {NoJob}]
  /\ done \in [Priority -> Nat]
  /\ stopping \in [Priority -> BOOLEAN]
  /\ loop \in Priority \union {Free}
  /\ service \in {"stopped", "running", "stopping"}
  /\ starts \in 0..MaxStarts
  /\ cache \in Seq(Jobs)
  /\ stale \in 0..Len(cache)

Queued(j, p) == \E i \in 1..Len(queue[p]) : queue[p][i] = j
Held(j) == \E p \in Priority : job[p] = j
\* A worker has accepted j and is inside _process_job with it.
InProcess(j) == \E p \in Priority : job[p] = j /\ pc[p] # "taken"

\* No accepted job is lost: as long as it is PENDING it is in a queue, or a
\* worker has just taken it out.  It survives stop() cancelling the workers at
\* any moment and a later start() (_process_priority_queue, dequeue_job).
PendingIsReachable ==
  \A j \in Jobs : status[j] = "pending" =>
    \E p \in Priority : \/ Queued(j, p)
                        \/ (job[p] = j /\ pc[p] \in {"taken", "claim"})

\* A job is handed out at most once: it is at one position of one queue or
\* with one worker, never both, whatever is submitted, stopped or restarted.
OneHolder ==
  \A j \in Jobs, p, q \in Priority :
    /\ Queued(j, p) => job[q] # j
    /\ Queued(j, p) /\ Queued(j, q) => p = q
    /\ job[p] = j /\ job[q] = j => p = q
    /\ \A a, b \in 1..Len(queue[p]) :
         queue[p][a] = j /\ queue[p][b] = j => a = b

\* Results are all or nothing: a job that has results has those of every
\* batch, also when a cancellation, an expiry or the clean-up came in between
\* (the checkpoints of _process_job_batches and the test after it).
ResultsAreWhole ==
  \A j \in Jobs : /\ results[j] \in {NoResults, Batches[j]}
                  /\ status[j] = "completed" => results[j] = Batches[j]

\* completed_jobs counts the jobs that produced results, each once, although
\* update_job_status counts by the status it finds.
CompletedCountsResults ==
  metrics["completed"] = Cardinality({j \in Jobs : results[j] # NoResults})

\* A PROCESSING job is being processed.  Only stop() can break this, and only
\* when it interrupts a prediction that has yielded the loop.
ProcessingIsHeld ==
  \A j \in Jobs : status[j] = "processing" =>
    \/ InProcess(j)
    \/ (Suspends /\ (service # "running" \/ starts > 1))

\* As long as no deadline was reached the counters are those of the statuses
\* (schemas/responses.py, AsyncBatchMetricsResponse), however many jobs were
\* refused, cancelled or processed.
CountsAreExact ==
  (\A j \in Jobs : clock[j] = "before") =>
    LET Number(S) == Cardinality({j \in Jobs : status[j] \in S}) IN
    /\ metrics["total"] = Number(Status \ {"none"})
    /\ metrics["active"] = Number(Live)
    /\ metrics["completed"] = Number({"completed"})
    /\ metrics["failed"] = Number({"failed"})

\* The result cache stays within its size, holds a job once and only jobs
\* whose results are whole, so a cached answer is never stale or partial.
CacheIsSound ==
  /\ Len(cache) <= CacheMax
  /\ \A i \in 1..Len(cache) : results[cache[i]] = Batches[cache[i]]
  /\ \A a, b \in 1..Len(cache) : cache[a] = cache[b] => a = b

\* Once stop() has returned no worker runs a job; as assumed at Start, nobody
\* started the service again meanwhile.
StoppedIsQuiet ==
  service = "stopped" => loop = Free /\ \A j \in Jobs : ~Held(j)

\* A job that reached an end and that no worker is processing stays ended and
\* is never processed: cancelling or expiring a queued job is final.
EndedIsFinal ==
  [][\A j \in Jobs : status[j] \in Terminal /\ ~InProcess(j) =>
       status'[j] \in Terminal /\ ~(InProcess(j)')]_vars

\* Every submitted job ends for good if the service is, from some time on,
\* running: also a job a stop() left PROCESSING, for callers that do not start
\* the service while they stop it (see Start).
EventuallyEnded ==
  <>[](service = "running") =>
    \A j \in Jobs : Submitted(j) ~> [](status[j] \in Terminal)

\* With the processor of the tree each job follows the lifecycle.
EveryBatch(j) == Batches[j]
Lifecycle == INSTANCE JobLifecycle
  WITH late <- {j \in Jobs : clock[j] # "before"}, All <- EveryBatch
FollowsLifecycle == Lifecycle!Spec

------------------------------------------------------------------------------
(***************************************************************************)
(* What the documentation and the tests say, and the code does not do.     *)
(***************************************************************************)

\* AsyncBatchMetricsResponse: "active_jobs: Number of currently active jobs."
ActiveIsANumberOfJobs == metrics["active"] >= 0

\* get_batch_results: "Once a batch job has been completed, this endpoint can
\* be used to fetch the sentiment analysis results."
CompletedCanBeFetched ==
  [][\A j \in Jobs : status[j] = "completed" => status'[j] = "completed"]_vars

\* test_cancel_job_during_processing: a job cancelled during processing ends
\* CANCELLED; no deadline passes there.
CancelSticks ==
  [][\A j \in Jobs : status[j] = "cancelled" /\ clock'[j] = "before" =>
       status'[j] = "cancelled"]_vars

==============================================================================
