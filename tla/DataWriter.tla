------------------------------ MODULE DataWriter ------------------------------
(***************************************************************************)
(* DataLakeWriter: predictions are buffered and written to cloud storage   *)
(* in batches, by a periodic loop, by a task of its own whenever the       *)
(* buffer reaches the batch size, and by stop().  No coroutine suspends    *)
(* while it has buffer_lock, so the lock is never contended and each       *)
(* locked section is one step; the coroutines interleave at the sleep, at  *)
(* the upload and at the await in stop().                                  *)
(***************************************************************************)
EXTENDS Naturals, Sequences, FiniteSets, SequencesExt

CONSTANTS
  Records,      \* enriched predictions
  BatchSize,    \* data_lake_batch_size
  Flushers,     \* tasks for flushes started by write_prediction
  Failures,     \* bound: uploads that raise
  MayStop,      \* the application calls stop()
  None

WriterAssumption ==
  /\ BatchSize \in Nat \ {0}
  /\ Failures \in Nat
  /\ MayStop \in BOOLEAN

Loop    == "loop"       \* _batch_flush_loop
Stopper == "stop"       \* the coroutine of stop()
Tasks   == Flushers \union {Loop, Stopper}

NamesAreDifferent ==
  {Loop, Stopper, None} \intersect Flushers = {} /\ None \notin {Loop, Stopper}

VARIABLES
  initialized,  \* _initialized
  buffer,
  batch_task,   \* the task stop() knows, or None
  pc,           \* of each task: unused, ready, sleeping, uploading or done
  data,         \* data_to_write of the tasks that upload
  stopping,     \* how far stop() is: no, cancelling, flushing, done
  stored,       \* how often each record is in storage
  failed,       \* uploads that have raised
  \* history
  written,      \* records given to write_prediction
  cut           \* records whose upload was cancelled

vars == <<initialized, buffer, batch_task, pc, data, stopping, stored, failed, written, cut>>

TypeOK ==
  /\ initialized \in BOOLEAN
  /\ buffer \in Seq(Records)
  /\ batch_task \in Flushers \union {Loop, None}
  /\ pc \in [Tasks -> {"unused", "ready", "sleeping", "uploading", "done"}]
  /\ data \in [Tasks -> Seq(Records)]
  /\ stopping \in {"no", "cancelling", "flushing", "done"}
  /\ stored \in [Records -> Nat]
  /\ failed \in 0 .. Failures
  /\ written \subseteq Records /\ cut \subseteq Records

\* The client of the configured provider is built or not: an exception is
\* logged and leaves the writer uninitialized.
Init ==
  /\ initialized \in BOOLEAN
  /\ buffer = <<>>
  /\ batch_task = None
  /\ pc = [t \in Tasks |-> "unused"]
  /\ data = [t \in Tasks |-> <<>>]
  /\ stopping = "no"
  /\ stored = [r \in Records |-> 0]
  /\ failed = 0
  /\ written = {} /\ cut = {}

-----------------------------------------------------------------------------
Alive(t) == pc[t] \notin {"unused", "done"}

\* batch_task and not batch_task.done()
TaskIsRunning == batch_task # None /\ Alive(batch_task)

\* start(): a loop, unless the known task is still running.
Start ==
  /\ initialized
  /\ stopping = "no" /\ pc[Loop] = "unused"
  /\ ~TaskIsRunning
  /\ pc' = [pc EXCEPT ![Loop] = "sleeping"]
  /\ batch_task' = Loop
  /\ UNCHANGED <<initialized, buffer, data, stopping, stored, failed, written, cut>>

\* write_prediction: a writer that was not initialized drops the record; a
\* full buffer starts a flush, in a task that takes the place of the known one.
Write(r) ==
  /\ initialized
  /\ r \notin written
  /\ written' = written \union {r}
  /\ buffer' = Append(buffer, r)
  /\ IF Len(buffer) + 1 >= BatchSize
     THEN \E t \in Flushers :
            /\ pc[t] = "unused"
            /\ pc' = [pc EXCEPT ![t] = "ready"]
            /\ batch_task' = t
     ELSE UNCHANGED <<pc, batch_task>>
  /\ UNCHANGED <<initialized, data, stopping, stored, failed, cut>>

\* mutant
EndsAfterFlush(t) == "done"

\* What a task does when its flush returns.
AfterFlush(t) == IF t = Loop THEN "sleeping" ELSE "done"

\* flush() takes the whole buffer ...
LeftInBuffer == <<>>

\* ... and awaits the upload; an empty buffer ends it at once.
Flush(t) ==
  /\ \/ pc[t] \in {"ready", "sleeping"}
     \/ t = Stopper /\ pc[t] = "unused" /\ stopping = "flushing"
  /\ IF buffer = <<>>
     THEN /\ pc' = [pc EXCEPT ![t] = AfterFlush(t)]
          /\ UNCHANGED <<buffer, data>>
     ELSE /\ pc' = [pc EXCEPT ![t] = "uploading"]
          /\ data' = [data EXCEPT ![t] = buffer]
          /\ buffer' = LeftInBuffer
  /\ UNCHANGED <<initialized, batch_task, stopping, stored, failed, written, cut>>

Put(records) == [r \in Records |-> stored[r] + (IF Contains(records, r) THEN 1 ELSE 0)]

EndFlush(t) ==
  /\ pc[t] = "uploading"
  /\ pc' = [pc EXCEPT ![t] = AfterFlush(t)]
  /\ data' = [data EXCEPT ![t] = <<>>]

\* _write_batch returns: one request to S3 or Azure, two to GCS.
Uploaded(t) ==
  /\ EndFlush(t)
  /\ stored' = Put(data[t])
  /\ UNCHANGED <<initialized, buffer, batch_task, stopping, failed, written, cut>>

\* mutant
DroppedOnFailure(t) == buffer

\* A batch that could not be written is put back, behind what came meanwhile.
BackInBuffer(t) == buffer \o data[t]

\* It raises: building the table or the upload failed, or only what follows
\* the upload (the answer got lost, blob.patch failed), so that the object is
\* there although the batch is put back.
UploadFailed(t) ==
  /\ failed < Failures
  /\ EndFlush(t)
  /\ stored' \in {stored, Put(data[t])}
  /\ failed' = failed + 1
  /\ buffer' = BackInBuffer(t)
  /\ UNCHANGED <<initialized, batch_task, stopping, written, cut>>

-----------------------------------------------------------------------------
\* stop() cancels the known task.  An upload that is under way goes on in its
\* thread, but nobody learns whether it succeeds; CancelledError is no Exception
\* and puts nothing back.
StopCancels ==
  /\ MayStop
  /\ stopping = "no"
  /\ IF TaskIsRunning
     THEN /\ pc' = [pc EXCEPT ![batch_task] = "done"]
          /\ data' = [data EXCEPT ![batch_task] = <<>>]
          /\ stored' \in {stored, Put(data[batch_task])}
          /\ cut' = cut \union ToSet(data[batch_task])
     ELSE UNCHANGED <<pc, data, stored, cut>>
  /\ stopping' = "cancelling"
  /\ UNCHANGED <<initialized, buffer, batch_task, failed, written>>

\* The cancelled task has ended; stop() goes on to its own flush.
StopFlushes ==
  /\ stopping = "cancelling"
  /\ stopping' = IF initialized THEN "flushing" ELSE "done"
  /\ UNCHANGED <<initialized, buffer, batch_task, pc, data, stored, failed, written, cut>>

StopReturns ==
  /\ stopping = "flushing" /\ pc[Stopper] = "done"
  /\ stopping' = "done"
  /\ UNCHANGED <<initialized, buffer, batch_task, pc, data, stored, failed, written, cut>>

Task(t) == Flush(t) \/ Uploaded(t) \/ UploadFailed(t)

Stop == StopCancels \/ StopFlushes \/ StopReturns

Next ==
  \/ Start \/ Stop
  \/ \E r \in Records : Write(r)
  \/ \E t \in Tasks : Task(t)

\* The event loop runs every task that is ready; the sleep and the upload end.
Fairness ==
  /\ WF_vars(Start)
  /\ \A t \in Tasks : WF_vars(Flush(t)) /\ WF_vars(Uploaded(t) \/ UploadFailed(t))

Spec == Init /\ [][Next]_vars
LiveSpec == Spec /\ Fairness

-----------------------------------------------------------------------------
(* Properties *)

Uploading == {t \in Tasks : pc[t] = "uploading"}

\* A record that was accepted is buffered, on its way, in storage, or was cut off
\* by stop() during its upload: no failure and no overlap of flushes loses one
\* (data_writer.py:215-233).
NothingVanishes ==
  \A r \in written :
    \/ Contains(buffer, r) \/ stored[r] > 0 \/ r \in cut
    \/ \E t \in Uploading : Contains(data[t], r)

\* A record is held once: the loop, the size-triggered tasks and stop() never
\* flush the same one at the same time, nor is one put back twice.
HeldOnce ==
  /\ \A j, k \in DOMAIN buffer : j # k => buffer[j] # buffer[k]
  /\ \A t \in Uploading : ToSet(data[t]) \intersect ToSet(buffer) = {}
  /\ \A t, u \in Uploading : t # u => ToSet(data[t]) \intersect ToSet(data[u]) = {}

\* Accepted records are neither lost nor held twice by overlapping flushes.
RecordsAreSafe == NothingVanishes /\ HeldOnce

\* Unless stop() is called every accepted record gets to storage, also one that is
\* too few for a batch: the loop outlives failures and whatever takes its name.
EventuallyStored ==
  \A r \in Records : (r \in written) ~> (stored[r] > 0 \/ stopping # "no")

\* data_writer.py:138, "Stop the background task and flush remaining data.":
\* after stop() the periodic loop is gone.
StopEndsTheLoop == stopping = "done" => ~Alive(Loop)

==============================================================================
