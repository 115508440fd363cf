---------------------------- MODULE StreamProcessor ----------------------------
(***************************************************************************)
(* StreamProcessor: single predictions collected into batches.  Clients    *)
(* call predict_async, which queues a request and awaits its future; a     *)
(* batch task started on demand takes requests off the queue and resolves  *)
(* their futures; shutdown drains the queue and cancels the task.          *)
(*                                                                         *)
(* All of them share one asyncio.Lock, which is held across a suspension   *)
(* in one place only: the batch task sleeps with it when the queue is      *)
(* empty.  The lock is fair: whoever finds it taken, or finds others       *)
(* waiting for it, waits behind them.  An action is the code a coroutine   *)
(* runs between two suspensions.                                           *)
(*                                                                         *)
(* predict_async may create a batch task while others still live, so a     *)
(* task is named after the request whose arrival created it.               *)
(*                                                                         *)
(* A definition marked "mutant" is a plausible slip in the code the next   *)
(* definition models; nothing here uses it, PROJECT.json names the         *)
(* property it breaks.                                                     *)
(***************************************************************************)
EXTENDS Naturals, Sequences

CONSTANTS
  Requests,     \* the requests clients may make, and the names of the tasks
  None,         \* no request, no task
  MaxBatch,     \* BatchConfig.max_batch_size
  MinBatch,     \* BatchConfig.min_batch_size
  Shutdowns     \* may shutdown() be called?

ASSUME StreamAssumption ==
  /\ None \notin Requests
  /\ MaxBatch \in Nat \ {0}
  /\ MinBatch \in Nat
  /\ Shutdowns \in BOOLEAN

Settled == {"answered", "error", "gone"}
ClientState == {"new", "lock", "await"} \union Settled
TaskState == {"none", "created", "sleep", "lockA", "lockB", "idle", "done"}
Waits == 0..2     \* the head waits < half of, >= half of, >= max_wait_time_ms
Waiter == {"client", "task"} \X Requests \union {<<"shutdown", None>>}

VARIABLES
  client,       \* where each call of predict_async is
  queue,        \* self.queue
  waited,       \* how long the oldest request of the queue has waited
  pc,           \* where each batch task is
  cancelled,    \* tasks cancelled that have not run since
  processing,   \* self._processing
  batchTask,    \* self._batch_task
  lock,         \* the task that sleeps with self._lock, or None
  waiters,      \* the waiters of self._lock, first come first served
  sd,           \* where the call of shutdown is
  awaited       \* the task it awaits

taskVars == <<pc, cancelled, processing, batchTask, lock>>
sdVars == <<sd, awaited>>
vars == <<client, queue, waited, taskVars, waiters, sdVars>>

Init ==
  /\ client = [r \in Requests |-> "new"]
  /\ queue = << >>
  /\ waited = 0
  /\ pc = [t \in Requests |-> "none"]
  /\ cancelled = {}
  /\ processing = FALSE
  /\ batchTask = None
  /\ lock = None
  /\ waiters = << >>
  /\ sd = "no"
  /\ awaited = None

------------------------------------------------------------------------------
(***************************************************************************)
(* The lock and the queue.                                                 *)
(***************************************************************************)
\* asyncio.Lock.acquire: nobody has it and nobody is ahead.
Available == lock = None /\ waiters = << >>
\* It is w's turn.
Granted(w) == lock = None /\ waiters # << >> /\ Head(waiters) = w
\* The waiters without w, who waits at most once and leaves from anywhere.
Without(w) ==
  IF \E i \in 1..Len(waiters) : waiters[i] = w
    THEN LET i == CHOOSE i \in 1..Len(waiters) : waiters[i] = w
         IN  SubSeq(waiters, 1, i - 1) \o SubSeq(waiters, i + 1, Len(waiters))
    ELSE waiters

Smaller(a, b) == IF a < b THEN a ELSE b
BatchSize == Smaller(Len(queue), MaxBatch)

\* The triggers of a batch: size, timeout, and the minimum after half the time.
TriggeredBySize ==                                           \* mutant
  /\ queue # << >>
  /\ \/ BatchSize >= MaxBatch
     \/ BatchSize >= MinBatch /\ waited >= 1
Triggered ==
  /\ queue # << >>
  /\ \/ BatchSize >= MaxBatch
     \/ waited = 2
     \/ BatchSize >= MinBatch /\ waited >= 1

\* The positions of the first n that get a result when they are taken in
\* batches: a batch is resolved in order, up to the first position for which
\* the model has no result (none at all, when it raises).
Resolved(n) ==
  {good \in SUBSET (1..n) :
     \A i \in good : (i - 1) % MaxBatch = 0 \/ i - 1 \in good}

Position(r, n) == CHOOSE i \in 1..n : queue[i] = r
Outcome(r, n, good) == IF Position(r, n) \in good THEN "answered" ELSE "error"

\* The first n requests leave the queue and every one of them that is still
\* awaited gets a result or the batch's exception.
ServeNewest(n) ==                                            \* mutant
  LET from == Len(queue) - n IN
  \E good \in Resolved(n) :
    /\ client' = [r \in Requests |->
         IF client[r] = "await" /\ \E i \in 1..n : queue[from + i] = r
           THEN IF \E i \in good : queue[from + i] = r THEN "answered" ELSE "error"
           ELSE client[r]]
    /\ queue' = SubSeq(queue, 1, from)
    /\ waited' = waited
ServeResults(n) ==                                           \* mutant
  \E good \in Resolved(n) :
    /\ client' = [r \in Requests |->
         IF client[r] = "await" /\ \E i \in good : queue[i] = r THEN "answered"
                                                                ELSE client[r]]
    /\ queue' = SubSeq(queue, n + 1, Len(queue))
    /\ waited' = waited
Serve(n) ==
  \E good \in Resolved(n) :
    /\ client' = [r \in Requests |->
         IF client[r] = "await" /\ \E i \in 1..n : queue[i] = r
           THEN Outcome(r, n, good) ELSE client[r]]
    /\ queue' = SubSeq(queue, n + 1, Len(queue))
    /\ waited' \in IF n = 0 THEN {waited}
                  ELSE IF n = Len(queue) THEN {0} ELSE 0..waited

------------------------------------------------------------------------------
(***************************************************************************)
(* predict_async                                                           *)
(***************************************************************************)
\* The body of `async with self._lock`: a task is created when none has
\* said that it processes.
Enqueue(r) ==
  /\ client' = [client EXCEPT ![r] = "await"]
  /\ queue' = Append(queue, r)
  /\ waited' \in IF queue = << >> THEN Waits ELSE {waited}
  /\ IF processing
       THEN UNCHANGED <<pc, batchTask>>
       ELSE pc' = [pc EXCEPT ![r] = "created"] /\ batchTask' = r
  /\ UNCHANGED <<cancelled, processing, lock, sdVars>>

Arrive(r) ==
  /\ client[r] = "new"
  /\ IF Available
       THEN Enqueue(r) /\ UNCHANGED waiters
       ELSE /\ client' = [client EXCEPT ![r] = "lock"]
            /\ waiters' = Append(waiters, <<"client", r>>)
            /\ UNCHANGED <<queue, waited, taskVars, sdVars>>

Enter(r) ==
  /\ client[r] = "lock"
  /\ Granted(<<"client", r>>)
  /\ waiters' = Tail(waiters)
  /\ Enqueue(r)

\* The caller is cancelled while it waits for the lock or for its future; a
\* queued request stays in the queue and its future is found done.
Abandon(r) ==
  /\ client[r] \in {"lock", "await"}
  /\ client' = [client EXCEPT ![r] = "gone"]
  /\ waiters' = Without(<<"client", r>>)
  /\ UNCHANGED <<queue, waited, taskVars, sdVars>>

------------------------------------------------------------------------------
(***************************************************************************)
(* _process_batches, a task                                                *)
(***************************************************************************)
Running(t, at) == pc[t] = at /\ t \notin cancelled

TaskStart(t) ==
  /\ Running(t, "created")
  /\ pc' = [pc EXCEPT ![t] = "sleep"]
  /\ processing' = TRUE
  /\ UNCHANGED <<client, queue, waited, cancelled, batchTask, lock, waiters, sdVars>>

\* The second `async with self._lock`: an empty queue makes the task sleep
\* with the lock.
RestUnlocked(t) ==                                           \* mutant
  /\ pc' = [pc EXCEPT ![t] = IF queue' = << >> THEN "idle" ELSE "sleep"]
  /\ lock' = None
Rest(t) ==
  IF queue' = << >>
    THEN pc' = [pc EXCEPT ![t] = "idle"] /\ lock' = t
    ELSE pc' = [pc EXCEPT ![t] = "sleep"] /\ lock' = None

\* _should_process_batch and _process_single_batch with `rest` still waiting
\* for the lock; then the task wants the lock again.
Collect(t, rest) ==
  /\ Serve(IF Triggered THEN BatchSize ELSE 0)
  /\ IF rest = << >>
       THEN Rest(t) /\ waiters' = rest
       ELSE /\ pc' = [pc EXCEPT ![t] = "lockB"]
            /\ waiters' = Append(rest, <<"task", t>>)
            /\ UNCHANGED lock
  /\ UNCHANGED <<cancelled, processing, batchTask, sdVars>>

Wake(t) ==
  /\ Running(t, "sleep")
  /\ IF Available
       THEN Collect(t, << >>)
       ELSE /\ pc' = [pc EXCEPT ![t] = "lockA"]
            /\ waiters' = Append(waiters, <<"task", t>>)
            /\ UNCHANGED <<client, queue, waited, cancelled, processing,
                           batchTask, lock, sdVars>>

CollectLocked(t) ==
  /\ Running(t, "lockA")
  /\ Granted(<<"task", t>>)
  /\ Collect(t, Tail(waiters))

RestLocked(t) ==
  /\ Running(t, "lockB")
  /\ Granted(<<"task", t>>)
  /\ waiters' = Tail(waiters)
  /\ UNCHANGED <<client, queue, waited, cancelled, processing, batchTask, sdVars>>
  /\ Rest(t)

\* The task looks again after its sleep with the lock, and ends.
IdleEndSilently(t) ==                                        \* mutant
  /\ Running(t, "idle")
  /\ lock' = None
  /\ pc' = [pc EXCEPT ![t] = IF queue = << >> THEN "done" ELSE "sleep"]
  /\ UNCHANGED <<client, queue, waited, cancelled, processing, batchTask, waiters,
                 sdVars>>
IdleEnd(t) ==
  /\ Running(t, "idle")
  /\ lock' = None
  /\ pc' = [pc EXCEPT ![t] = IF queue = << >> THEN "done" ELSE "sleep"]
  /\ processing' = (processing /\ queue # << >>)
  /\ UNCHANGED <<client, queue, waited, cancelled, batchTask, waiters, sdVars>>

\* CancelledError, at whatever the task awaits: `finally` runs unless the
\* task never started.
TaskCancelled(t) ==
  /\ t \in cancelled
  /\ pc[t] # "done"
  /\ pc' = [pc EXCEPT ![t] = "done"]
  /\ cancelled' = cancelled \ {t}
  /\ processing' = (processing /\ pc[t] = "created")
  /\ lock' = IF lock = t THEN None ELSE lock
  /\ waiters' = Without(<<"task", t>>)
  /\ UNCHANGED <<client, queue, waited, batchTask, sdVars>>

TaskStep(t) ==
  \/ TaskStart(t) \/ Wake(t) \/ CollectLocked(t) \/ RestLocked(t) \/ IdleEnd(t)
  \/ TaskCancelled(t)

------------------------------------------------------------------------------
(***************************************************************************)
(* shutdown                                                                *)
(***************************************************************************)
\* The task that _batch_task names is cancelled and awaited.
StopTaskUnchecked ==                                         \* mutant
  /\ cancelled' = cancelled \union {batchTask}
  /\ awaited' = batchTask
  /\ sd' = "await"
  /\ UNCHANGED processing
StopTask ==
  IF batchTask # None /\ pc[batchTask] # "done"
    THEN /\ cancelled' = cancelled \union {batchTask}
         /\ awaited' = batchTask
         /\ sd' = "await"
         /\ UNCHANGED processing
    ELSE /\ processing' = FALSE
         /\ sd' = "done"
         /\ UNCHANGED <<cancelled, awaited>>

\* The drain, with `rest` waiting for the lock: it goes on at once when nobody
\* waits, and queues up behind them for each further batch when somebody does.
Drain(rest) ==
  /\ Serve(IF rest = << >> THEN Len(queue) ELSE BatchSize)
  /\ IF queue' = << >>
       THEN StopTask /\ waiters' = rest
       ELSE /\ waiters' = Append(rest, <<"shutdown", None>>)
            /\ sd' = "lock"
            /\ UNCHANGED <<cancelled, processing, awaited>>
  /\ UNCHANGED <<pc, batchTask, lock>>

Shutdown ==
  /\ Shutdowns
  /\ sd = "no"
  /\ IF queue = << >> \/ Available
       THEN Drain(waiters)
       ELSE /\ sd' = "lock"
            /\ waiters' = Append(waiters, <<"shutdown", None>>)
            /\ UNCHANGED <<client, queue, waited, taskVars, awaited>>

ShutdownLocked ==
  /\ sd = "lock"
  /\ Granted(<<"shutdown", None>>)
  /\ Drain(Tail(waiters))

ShutdownEnd ==
  /\ sd = "await"
  /\ pc[awaited] = "done"
  /\ sd' = "done"
  /\ batchTask' = None
  /\ processing' = FALSE
  /\ UNCHANGED <<client, queue, waited, pc, cancelled, lock, waiters, awaited>>

------------------------------------------------------------------------------
\* time.time() moves on.
Tick ==
  /\ queue # << >>
  /\ waited < 2
  /\ waited' = waited + 1
  /\ UNCHANGED <<client, queue, taskVars, waiters, sdVars>>

Next ==
  \/ \E r \in Requests :
       Arrive(r) \/ Enter(r) \/ Abandon(r) \/ TaskStep(r)
  \/ Shutdown \/ ShutdownLocked \/ ShutdownEnd
  \/ Tick

Spec == Init /\ [][Next]_vars

\* The event loop runs whatever is ready, and time passes.
FairSpec ==
  /\ Spec
  /\ \A r \in Requests : WF_vars(Enter(r)) /\ WF_vars(TaskStep(r))
  /\ WF_vars(ShutdownLocked) /\ WF_vars(ShutdownEnd)
  /\ WF_vars(Tick)

------------------------------------------------------------------------------
(***************************************************************************)
(* What the processor promises                                             *)
(***************************************************************************)
\* Every variable keeps its type.
TypeOK ==
  /\ client \in [Requests -> ClientState]
  /\ queue \in Seq(Requests)
  /\ waited \in Waits
  /\ pc \in [Requests -> TaskState]
  /\ cancelled \subseteq Requests
  /\ processing \in BOOLEAN
  /\ batchTask \in Requests \union {None}
  /\ lock \in Requests \union {None}
  /\ waiters \in Seq(Waiter)
  /\ sd \in {"no", "lock", "await", "done"}
  /\ awaited \in Requests \union {None}

\* A request whose caller awaits its future is in the queue, once: no batch
\* that fails, answers too few texts or is interrupted leaves a future that
\* nobody will resolve (_process_single_batch, stream_processor.py:279-286).
NoneForgotten ==
  \A r \in Requests :
    client[r] = "await" =>
      \E i \in 1..Len(queue) :
        queue[i] = r /\ \A k \in 1..Len(queue) : queue[k] = r => k = i

\* Until shutdown starts to cancel, a queue that holds a request has a task
\* that will come for it, although predict_async creates one by a flag that
\* the tasks themselves set and clear (stream_processor.py:189, 201, 217).
QueueIsServed ==
  queue # << >> /\ sd \in {"no", "lock"} =>
    \E t \in Requests : pc[t] \notin {"none", "done"}

\* While a task sleeps with the lock nothing can enter the queue: what the
\* task finds after the sleep is what it found before, and a request that
\* comes meanwhile waits the sleep out (stream_processor.py:211-215).
NothingEntersIdleQueue ==
  (\E t \in Requests : pc[t] = "idle") => queue = << >>

\* No request is settled while one that was queued before it is left waiting,
\* also with several batch tasks and shutdown draining the same queue.
OldestFirst ==
  [][\A i, k \in 1..Len(queue) :
        /\ i < k
        /\ client[queue[k]] = "await"
        /\ client'[queue[k]] \in {"answered", "error"}
        => client'[queue[i]] # "await"]_vars

\* Every request that has arrived is settled, or shutdown is called.
EveryRequestSettled ==
  \A r \in Requests :
    client[r] \in {"lock", "await"} ~> client[r] \in Settled \/ sd # "no"

\* What shutdown's docstring says (stream_processor.py:398-399): it "ensures
\* that any remaining requests in the queue are processed before stopping the
\* batch processing task".  After it, a request that is left in the queue
\* would need a task.
ShutdownServesTheQueue ==
  sd = "done" /\ queue # << >> =>
    \E t \in Requests : pc[t] \notin {"none", "done"}

==============================================================================
