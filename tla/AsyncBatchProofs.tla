--------------------------- MODULE AsyncBatchProofs ---------------------------
(***************************************************************************)
(* Proofs about AsyncBatch, for any jobs, batch counts, queue limits and   *)
(* cache size, and for processors that suspend or do not.                  *)
(*                                                                         *)
(* The inductive invariant has two layers.  Typed says what the variables  *)
(* hold and ties a worker's program counter to its job, to the event loop  *)
(* and to the service.  Custody says where a job can be: at one place      *)
(* only, and untouched while it is queued.  All steps but a submission and *)
(* a dequeue are Handlings: they leave the queues alone and change the     *)
(* status of a job only as its holder, or to end it.                       *)
(***************************************************************************)
EXTENDS AsyncBatch, SequenceTheorems, FiniteSetTheorems, TLAPS

------------------------------------------------------------------------------
(***************************************************************************)
(* The inductive invariant.                                                *)
(***************************************************************************)
Suspended == {"off", "idle", "taken"}
Running == {"claim", "checkpoint", "deadline", "finish", "refresh", "timeout",
            "failure"}

WorkerOK(p) ==
  /\ job[p] = NoJob <=> pc[p] \in {"off", "idle"}
  /\ loop = p => pc[p] \notin Suspended
  /\ pc[p] \in Running => loop = p
  /\ service = "stopped" => pc[p] = "off"

Typed == TypeOK /\ \A p \in Priority : WorkerOK(p)

Untouched == {"pending", "cancelled", "expired"}

Waiting(j) ==
  \/ \E p \in Priority : Queued(j, p)
  \/ \E p \in Priority : job[p] = j /\ pc[p] = "taken"

Known ==
  \A j \in Jobs : /\ Waiting(j) => status[j] \in Untouched
                  /\ Held(j) => Submitted(j)

Custody == OneHolder /\ Known /\ PendingIsReachable

IInv == Typed /\ Custody

------------------------------------------------------------------------------
(***************************************************************************)
(* The values the helpers return.                                          *)
(***************************************************************************)
LEMMA BumpType ==
  ASSUME NEW m \in Metrics, NEW up, NEW down \in SUBSET {"active", "queued"}
  PROVE  Bump(m, up, down) \in Metrics
  BY DEF Bump, One, Metrics, Counters

LEMMA CountersType ==
  ASSUME NEW old
  PROVE  /\ QueueCounter(old) \in SUBSET {"active", "queued"}
         /\ LiveCounters(old) \in SUBSET {"active", "queued"}
  BY DEF QueueCounter, LiveCounters

LEMMA ExpireType ==
  ASSUME NEW m \in Metrics, NEW old PROVE Expire(m, old) \in Metrics
  BY BumpType, CountersType DEF Expire

LEMMA UpdatedType ==
  ASSUME NEW m \in Metrics, NEW old, NEW new
  PROVE  Updated(m, old, new) \in Metrics
  BY BumpType, CountersType DEF Updated, Settles

LEMMA SeenType ==
  ASSUME TypeOK, NEW j
  PROVE  /\ SeenMetrics(j) \in Metrics
         /\ j \in Jobs => Seen(j) \in Status
         /\ Seen(j) \in {status[j], "expired"}
  BY ExpireType DEF TypeOK, Seen, SeenMetrics, Status, Terminal

LEMMA LookType ==
  ASSUME TypeOK, NEW j, Look(j)
  PROVE  status' \in [Jobs -> Status] /\ metrics' \in Metrics
  BY SeenType DEF TypeOK, Look

LEMMA LookAndSetType ==
  ASSUME TypeOK, NEW j, NEW new \in Status, LookAndSet(j, new)
  PROVE  status' \in [Jobs -> Status] /\ metrics' \in Metrics
  BY SeenType, UpdatedType DEF TypeOK, LookAndSet

LEMMA TailType ==
  ASSUME NEW q \in Seq(Jobs), q # << >>
  PROVE  /\ Head(q) \in Jobs
         /\ Popped(q) \in Seq(Jobs)
  BY HeadTailProperties DEF Popped

LEMMA UnexpiredType ==
  ASSUME NEW c \in Seq(Jobs), NEW n \in 0..Len(c)
  PROVE  Unexpired(c, n) \in Seq(Jobs)
  BY SubSeqProperties, LenProperties, ElementOfSeq DEF Unexpired

LEMMA WithRoomType ==
  ASSUME NEW c \in Seq(Jobs)
  PROVE  WithRoom(c) \in Seq(Jobs)
  <1>1. CASE Len(c) < CacheMax
    BY <1>1 DEF WithRoom
  <1>2. CASE ~(Len(c) < CacheMax)
    <2>1. Len(c) - CacheMax + 2 \in Nat \ {0} /\ Len(c) \in Nat
      BY <1>2, LenProperties, CacheMaxAssumption
    <2>2. \A i \in (Len(c) - CacheMax + 2)..Len(c) : c[i] \in Jobs
      BY <2>1, ElementOfSeq
    <2>3. SubSeq(c, Len(c) - CacheMax + 2, Len(c)) \in Seq(Jobs)
      BY <2>1, <2>2, SubSeqProperties
    <2> QED BY <1>2, <2>3 DEF WithRoom
  <1> QED BY <1>1, <1>2

LEMMA CacheResultType ==
  ASSUME NEW c \in Seq(Jobs), NEW n \in 0..Len(c), NEW j \in Jobs
  PROVE  CacheResult(c, n, j) \in Seq(Jobs)
  BY UnexpiredType, WithRoomType DEF CacheResult

LEMMA WithoutType ==
  ASSUME NEW c \in Seq(Jobs), NEW i \in 1..Len(c)
  PROVE  /\ Without(c, i) \in Seq(Jobs)
         /\ Len(Without(c, i)) = Len(c) - 1
  <1>1. Len(c) \in Nat /\ i \in Int /\ \A k \in 1..Len(c) : c[k] \in Jobs
    BY LenProperties, ElementOfSeq
  <1>2. /\ SubSeq(c, 1, i - 1) \in Seq(Jobs)
        /\ Len(SubSeq(c, 1, i - 1)) = i - 1
    <2>1. \A k \in 1..(i - 1) : c[k] \in Jobs
      BY <1>1
    <2> QED BY <1>1, <2>1, SubSeqProperties
  <1>3. /\ SubSeq(c, i + 1, Len(c)) \in Seq(Jobs)
        /\ Len(SubSeq(c, i + 1, Len(c))) = Len(c) - i
    <2>1. \A k \in (i + 1)..Len(c) : c[k] \in Jobs
      BY <1>1
    <2> QED BY <1>1, <2>1, SubSeqProperties
  <1>4. Len(Without(c, i)) = (i - 1) + (Len(c) - i)
    <2>1. Len(Without(c, i))
            = Len(SubSeq(c, 1, i - 1)) + Len(SubSeq(c, i + 1, Len(c)))
      BY <1>2, <1>3, ConcatProperties, Zenon DEF Without
    <2> QED BY <1>2, <1>3, <2>1
  <1>5. Without(c, i) \in Seq(Jobs)
    BY <1>2, <1>3, ConcatProperties DEF Without
  <1> QED BY <1>1, <1>4, <1>5

------------------------------------------------------------------------------
(***************************************************************************)
(* Typed is inductive.                                                     *)
(***************************************************************************)
LEMMA FreeIsNoPriority == Free \notin Priority
  BY DEF Free, Priority

LEMMA InitTyped == Init => Typed
  <1> SUFFICES ASSUME Init PROVE Typed
    OBVIOUS
  <1> USE ConstantsAssumption, FreeIsNoPriority
  <1>1. TypeOK
    BY EmptySeq DEF Init, TypeOK, Status, Clock, Metrics, Counters, PC
  <1>2. \A p \in Priority : WorkerOK(p)
    BY DEF Init, WorkerOK, Suspended, Running
  <1> QED BY <1>1, <1>2 DEF Typed

\* A worker that has a job goes on with it, or gets rid of it.
LEMMA GotoOK ==
  ASSUME Typed, NEW p \in Priority, NEW c \in PC \ Suspended, Goto(p, c),
         pc[p] \notin {"off", "idle"}, loop \in {p, Free},
         loop' = p \/ (c = "predict" /\ loop' = Free),
         UNCHANGED <<job, service>>
  PROVE  /\ pc' \in [Priority -> PC]
         /\ loop' \in Priority \union {Free}
         /\ \A q \in Priority : WorkerOK(q)'
  BY FreeIsNoPriority
  DEF Typed, TypeOK, WorkerOK, Goto, Suspended, Running, PC

LEMMA NextJobOK ==
  ASSUME Typed, NEW p \in Priority, NextJob(p),
         pc[p] \notin {"off", "idle"}, loop \in {p, Free}, UNCHANGED service
  PROVE  /\ pc' \in [Priority -> PC]
         /\ job' \in [Priority -> Jobs \union {NoJob}]
         /\ done' \in [Priority -> Nat]
         /\ loop' \in Priority \union {Free}
         /\ \A q \in Priority : WorkerOK(q)'
  BY FreeIsNoPriority
  DEF Typed, TypeOK, WorkerOK, NextJob, Goto, Suspended, Running, PC

\* What happens outside the workers leaves them as they are.
LEMMA WorkersUnchanged ==
  ASSUME Typed, UNCHANGED <<pc, job, loop, service>>
  PROVE  \A p \in Priority : WorkerOK(p)'
  BY DEF Typed, WorkerOK

LEMMA RequestTyped == Typed /\ Request => Typed'
  <1> SUFFICES ASSUME Typed, Request PROVE Typed'
    OBVIOUS
  <1> TypeOK
    BY DEF Typed
  <1>1. ASSUME NEW j \in Jobs, NEW p \in Offered, Submit(j, p) PROVE Typed'
    <2>1. p \in Priority
      BY ConstantsAssumption
    <2>2. Created \in Metrics
      BY BumpType DEF Created, TypeOK
    <2>3. Updated(Created, "pending", "failed") \in Metrics
      BY <2>2, UpdatedType
    <2>4. status' \in [Jobs -> Status] /\ metrics' \in Metrics
      BY <1>1, <2>2, <2>3 DEF Submit, TypeOK, Status, Live, Terminal
    <2>5. queue' \in [Priority -> Seq(Jobs)]
      <3>1. queue[p] \in Seq(Jobs)
        BY <2>1 DEF TypeOK
      <3>2. Append(queue[p], j) \in Seq(Jobs)
        BY <3>1, AppendProperties
      <3> QED BY <1>1, <2>1, <3>2 DEF Submit, TypeOK
    <2>6. \A q \in Priority : WorkerOK(q)'
      BY <1>1, WorkersUnchanged DEF Submit, workerVars, serviceVars
    <2> QED
      BY <1>1, <2>4, <2>5, <2>6
      DEF Typed, TypeOK, Submit, workerVars, serviceVars, cacheVars
  <1>2. ASSUME NEW j \in Jobs, GetStatus(j) PROVE Typed'
    BY <1>2, LookType, WorkersUnchanged
    DEF Typed, TypeOK, GetStatus, workerVars, serviceVars, cacheVars
  <1>3. ASSUME NEW j \in Jobs, GetResults(j) PROVE Typed'
    <2>1. status' \in [Jobs -> Status] /\ metrics' \in Metrics
      BY <1>3, LookType DEF GetResults
    <2>2. cache' \in Seq(Jobs) /\ stale' \in 0..Len(cache')
      <3>1. ASSUME NEW i \in 1..stale, cache' = Without(cache, i),
                   stale' = stale - 1
            PROVE  cache' \in Seq(Jobs) /\ stale' \in 0..Len(cache')
        <4>1. i \in 1..Len(cache) /\ Len(cache) \in Nat
          BY LenProperties DEF TypeOK
        <4>2. cache' \in Seq(Jobs) /\ Len(cache') = Len(cache) - 1
          BY <3>1, <4>1, WithoutType DEF TypeOK
        <4> QED BY <3>1, <4>1, <4>2 DEF TypeOK
      <3>2. CASE UNCHANGED cacheVars
        BY <3>2 DEF cacheVars, TypeOK
      <3> QED BY <1>3, <3>1, <3>2 DEF GetResults
    <2>3. \A q \in Priority : WorkerOK(q)'
      BY <1>3, WorkersUnchanged DEF GetResults, workerVars, serviceVars
    <2> QED
      BY <1>3, <2>1, <2>2, <2>3
      DEF Typed, TypeOK, GetResults, workerVars, serviceVars
  <1>4. ASSUME NEW j \in Jobs, Cancel(j) PROVE Typed'
    <2>1. metrics' \in Metrics
      BY <1>4, BumpType, CountersType DEF Cancel, TypeOK
    <2>2. \A q \in Priority : WorkerOK(q)'
      BY <1>4, WorkersUnchanged DEF Cancel, workerVars, serviceVars
    <2> QED
      BY <1>4, <2>1, <2>2
      DEF Typed, TypeOK, Cancel, Status, Terminal, workerVars, serviceVars,
          cacheVars
  <1>5. ASSUME GetMetrics PROVE Typed'
    <2> DEFINE n == Len(queue["high"]) + Len(queue["medium"])
                      + Len(queue["low"])
    <2>1. n \in Nat
      <3>1. \A p \in Priority : Len(queue[p]) \in Nat
        BY LenProperties DEF TypeOK
      <3>2. /\ Len(queue["high"]) \in Nat
            /\ Len(queue["medium"]) \in Nat
            /\ Len(queue["low"]) \in Nat
        BY <3>1 DEF Priority
      <3>3. \A a, b, c \in Nat : a + b + c \in Nat
        OBVIOUS
      <3> QED BY <3>2, <3>3, Zenon
    <2> HIDE DEF n
    <2>2. metrics' \in Metrics
      <3>1. metrics' = [metrics EXCEPT !["queued"] = n]
        BY <1>5 DEF GetMetrics, n
      <3>2. metrics \in Metrics
        BY DEF TypeOK
      <3> QED BY <2>1, <3>1, <3>2 DEF Metrics, Counters
    <2>3. \A q \in Priority : WorkerOK(q)'
      BY <1>5, WorkersUnchanged DEF GetMetrics, workerVars, serviceVars
    <2> QED
      BY <1>5, <2>2, <2>3
      DEF Typed, TypeOK, GetMetrics, workerVars, serviceVars, cacheVars
  <1> QED BY <1>1, <1>2, <1>3, <1>4, <1>5 DEF Request

LEMMA WorkerTyped ==
  ASSUME NEW p \in Priority
  PROVE  Typed /\ WorkerStep(p) => Typed'
  <1> SUFFICES ASSUME Typed, WorkerStep(p) PROVE Typed'
    OBVIOUS
  <1> TypeOK
    BY DEF Typed
  <1> DEFINE j == job[p]
  <1>0. /\ loop = p \/ pc[p] = "taken" => job[p] \in Jobs
        /\ p # Free
    BY FreeIsNoPriority DEF Typed, WorkerOK, TypeOK, Suspended
  <1>1. CASE Take(p)
    <2>1. queue[p] \in Seq(Jobs) /\ queue[p] # << >>
      BY <1>1 DEF Take, TypeOK
    <2>2. Head(queue[p]) \in Jobs /\ Popped(queue[p]) \in Seq(Jobs)
      BY <2>1, TailType
    <2>3. /\ queue' \in [Priority -> Seq(Jobs)]
          /\ job' \in [Priority -> Jobs \union {NoJob}]
          /\ pc' \in [Priority -> PC]
      BY <1>1, <2>2 DEF Take, Goto, TypeOK, PC
    <2>4. \A q \in Priority : WorkerOK(q)'
      BY <1>1, <2>2, FreeIsNoPriority, ConstantsAssumption
      DEF Take, Goto, Typed, TypeOK, WorkerOK, Suspended, Running, serviceVars
    <2> QED
      BY <1>1, <2>3, <2>4
      DEF Typed, TypeOK, Take, jobVars, serviceVars, cacheVars
  <1>2. CASE Validate(p)
    <2>1. status' \in [Jobs -> Status] /\ metrics' \in Metrics
      BY <1>2, LookType DEF Validate, TypeOK
    <2>2. /\ pc' \in [Priority -> PC]
          /\ job' \in [Priority -> Jobs \union {NoJob}]
          /\ done' \in [Priority -> Nat]
          /\ loop' \in Priority \union {Free}
          /\ \A q \in Priority : WorkerOK(q)'
      <3>1. CASE NextJob(p)
        BY <1>2, <3>1, NextJobOK DEF Validate, serviceVars
      <3>2. CASE Goto(p, "claim") /\ loop' = p /\ UNCHANGED <<job, done>>
        BY <1>2, <3>2, GotoOK
        DEF Validate, TypeOK, serviceVars, PC, Suspended
      <3> QED BY <1>2, <3>1, <3>2 DEF Validate
    <2> QED
      BY <1>2, <2>1, <2>2
      DEF Typed, TypeOK, Validate, serviceVars, cacheVars
  <1>3. CASE Claim(p)
    <2>1. status' \in [Jobs -> Status] /\ metrics' \in Metrics
      BY <1>3, LookAndSetType DEF Claim, Status, Live
    <2>2. /\ pc' \in [Priority -> PC]
          /\ job' \in [Priority -> Jobs \union {NoJob}]
          /\ done' \in [Priority -> Nat]
          /\ loop' \in Priority \union {Free}
          /\ \A q \in Priority : WorkerOK(q)'
      <3>1. CASE NextJob(p)
        BY <1>3, <3>1, NextJobOK DEF Claim, serviceVars
      <3>2. CASE Goto(p, "checkpoint") /\ UNCHANGED <<job, done, loop>>
        BY <1>3, <3>2, GotoOK DEF Claim, TypeOK, serviceVars, PC, Suspended
      <3> QED BY <1>3, <3>1, <3>2 DEF Claim
    <2> QED
      BY <1>3, <2>1, <2>2 DEF Typed, TypeOK, Claim, serviceVars, cacheVars
  <1>4. CASE Checkpoint(p)
    <2> DEFINE c == IF Seen(job[p]) = "cancelled" THEN "finish" ELSE "deadline"
    <2>1. status' \in [Jobs -> Status] /\ metrics' \in Metrics
      BY <1>4, LookType DEF Checkpoint
    <2>2. Goto(p, c) /\ c \in PC \ Suspended
      BY <1>4 DEF Checkpoint, PC, Suspended
    <2>3. /\ pc' \in [Priority -> PC]
          /\ \A q \in Priority : WorkerOK(q)'
      <3> HIDE DEF c
      <3> QED BY <1>4, <2>2, GotoOK DEF Checkpoint, serviceVars
    <2> QED
      BY <1>4, <2>1, <2>3
      DEF Typed, TypeOK, Checkpoint, serviceVars, cacheVars
  <1>5. CASE Predict(p)
    <2>1. /\ pc' \in [Priority -> PC]
          /\ loop' \in Priority \union {Free}
          /\ \A q \in Priority : WorkerOK(q)'
      <3>1. CASE Goto(p, "timeout") /\ UNCHANGED loop
        BY <1>5, <3>1, GotoOK DEF Predict, serviceVars, PC, Suspended
      <3>2. CASE /\ Goto(p, "predict")
                 /\ loop' = IF Suspends THEN Free ELSE p
        BY <1>5, <3>2, GotoOK DEF Predict, serviceVars, PC, Suspended
      <3> QED BY <1>5, <3>1, <3>2 DEF Predict
    <2> QED
      BY <1>5, <2>1
      DEF Typed, TypeOK, Predict, jobVars, serviceVars, cacheVars
  <1>6. CASE BatchDone(p)
    <2> DEFINE c == IF LastBatch(p) THEN "finish" ELSE "checkpoint"
    <2>1. /\ status' \in [Jobs -> Status] /\ metrics' \in Metrics
          /\ processed' \in [Jobs -> Nat] /\ done' \in [Priority -> Nat]
      <3>1. metrics' \in Metrics
        BY <1>6, UpdatedType DEF BatchDone, TypeOK
      <3>2. status' \in [Jobs -> Status]
        BY <1>6 DEF BatchDone, TypeOK, Progressed, Status, Live
      <3>3. processed' \in [Jobs -> Nat] /\ done' \in [Priority -> Nat]
        <4>1. done[p] + 1 \in Nat
          BY DEF TypeOK
        <4>2. /\ processed' = [processed EXCEPT ![job[p]] = done[p] + 1]
              /\ done' = [done EXCEPT ![p] = done[p] + 1]
          BY <1>6 DEF BatchDone
        <4> QED BY <4>1, <4>2 DEF TypeOK
      <3> QED BY <3>1, <3>2, <3>3
    <2>2. Goto(p, c) /\ c \in PC \ Suspended
      BY <1>6 DEF BatchDone, PC, Suspended
    <2>3. /\ pc' \in [Priority -> PC]
          /\ loop' \in Priority \union {Free}
          /\ \A q \in Priority : WorkerOK(q)'
      <3> HIDE DEF c
      <3> QED BY <1>6, <2>2, GotoOK DEF BatchDone, Answered, serviceVars
    <2> QED
      BY <1>6, <2>1, <2>3
      DEF Typed, TypeOK, BatchDone, serviceVars, cacheVars
  <1>7. CASE BadBatch(p)
    <2>1. /\ pc' \in [Priority -> PC]
          /\ loop' \in Priority \union {Free}
          /\ \A q \in Priority : WorkerOK(q)'
      BY <1>7, GotoOK DEF BadBatch, Answered, serviceVars, PC, Suspended
    <2> QED
      BY <1>7, <2>1
      DEF Typed, TypeOK, BadBatch, jobVars, serviceVars, cacheVars
  <1>8. CASE Complete(p)
    <2>1. status' \in [Jobs -> Status] /\ metrics' \in Metrics
      BY <1>8, LookAndSetType DEF Complete, Status, Terminal
    <2>2. /\ pc' \in [Priority -> PC]
          /\ job' \in [Priority -> Jobs \union {NoJob}]
          /\ done' \in [Priority -> Nat]
          /\ loop' \in Priority \union {Free}
          /\ \A q \in Priority : WorkerOK(q)'
      <3>1. CASE NextJob(p)
        BY <1>8, <3>1, NextJobOK DEF Complete, serviceVars
      <3>2. CASE Goto(p, "refresh") /\ UNCHANGED <<job, done, loop>>
        BY <1>8, <3>2, GotoOK DEF Complete, TypeOK, serviceVars, PC, Suspended
      <3> QED BY <1>8, <3>1, <3>2 DEF Complete
    <2>3. /\ processed' \in [Jobs -> Nat]
          /\ results' \in [Jobs -> Nat \union {NoResults}]
      BY <1>8 DEF Complete, TypeOK
    <2> QED
      BY <1>8, <2>1, <2>2, <2>3
      DEF Typed, TypeOK, Complete, serviceVars, cacheVars
  <1>9. CASE Refresh(p)
    <2>1. status' \in [Jobs -> Status] /\ metrics' \in Metrics
      BY <1>9, LookType DEF Refresh
    <2>2. /\ pc' \in [Priority -> PC]
          /\ job' \in [Priority -> Jobs \union {NoJob}]
          /\ done' \in [Priority -> Nat]
          /\ loop' \in Priority \union {Free}
          /\ \A q \in Priority : WorkerOK(q)'
      BY <1>9, NextJobOK DEF Refresh, serviceVars
    <2>3. cache' \in Seq(Jobs) /\ stale' \in 0..Len(cache')
      <3>1. CacheResult(cache, stale, job[p]) \in Seq(Jobs)
        BY <1>0, <1>9, CacheResultType DEF Refresh, TypeOK
      <3>2. Len(CacheResult(cache, stale, job[p])) \in Nat
        BY <3>1, LenProperties
      <3> QED BY <1>9, <3>1, <3>2 DEF Refresh, TypeOK, cacheVars
    <2> QED
      BY <1>9, <2>1, <2>2, <2>3 DEF Typed, TypeOK, Refresh, serviceVars
  <1>10. CASE TimeoutExit(p) \/ FailureExit(p)
    <2>1. status' \in [Jobs -> Status] /\ metrics' \in Metrics
      BY <1>10, LookAndSetType DEF TimeoutExit, FailureExit, Status, Terminal
    <2>2. /\ pc' \in [Priority -> PC]
          /\ job' \in [Priority -> Jobs \union {NoJob}]
          /\ done' \in [Priority -> Nat]
          /\ loop' \in Priority \union {Free}
          /\ \A q \in Priority : WorkerOK(q)'
      BY <1>10, NextJobOK DEF TimeoutExit, FailureExit, serviceVars
    <2> QED
      BY <1>10, <2>1, <2>2
      DEF Typed, TypeOK, TimeoutExit, FailureExit, serviceVars, cacheVars
  <1>11. CASE CancelWorker(p)
    <2>1. /\ pc' \in [Priority -> PC]
          /\ job' \in [Priority -> Jobs \union {NoJob}]
          /\ done' \in [Priority -> Nat]
          /\ stopping' \in [Priority -> BOOLEAN]
      BY <1>11 DEF CancelWorker, Goto, TypeOK, PC
    <2>2. \A q \in Priority : WorkerOK(q)'
      BY <1>11, <1>0
      DEF CancelWorker, Goto, Typed, TypeOK, WorkerOK, Suspended, Running,
          serviceVars
    <2> QED
      BY <1>11, <2>1, <2>2
      DEF Typed, TypeOK, CancelWorker, jobVars, serviceVars, cacheVars
  <1> QED
    BY <1>1, <1>2, <1>3, <1>4, <1>5, <1>6, <1>7, <1>8, <1>9, <1>10, <1>11
    DEF WorkerStep

LEMMA OthersTyped ==
  Typed /\ (Cleanup \/ Start \/ Stop \/ Stopped \/ Time) => Typed'
  <1> SUFFICES ASSUME Typed, Cleanup \/ Start \/ Stop \/ Stopped \/ Time
               PROVE  Typed'
    OBVIOUS
  <1> TypeOK
    BY DEF Typed
  <1>1. CASE Cleanup
    <2> DEFINE old == {j \in Jobs : Overdue(j) /\ status[j] \in Cleaned}
    <2>1. Cardinality(old) \in Nat
      BY FS_Subset, FS_CardinalityType, ConstantsAssumption
    <2>2. /\ status' = [j \in Jobs |-> IF j \in old THEN "expired"
                                                    ELSE status[j]]
          /\ metrics' = [metrics EXCEPT
                           !["active"] = metrics["active"] - Cardinality(old),
                           !["failed"] = metrics["failed"] + Cardinality(old)]
      BY <1>1 DEF Cleanup
    <2> HIDE DEF old
    <2>3. status' \in [Jobs -> Status]
      BY <2>2 DEF TypeOK, Status, Terminal
    <2>4. metrics' \in Metrics
      <3>1. metrics \in Metrics
        BY DEF TypeOK
      <3> QED BY <2>1, <2>2, <3>1 DEF Metrics, Counters
    <2>5. \A q \in Priority : WorkerOK(q)'
      BY <1>1, WorkersUnchanged DEF Cleanup, workerVars, serviceVars
    <2> QED
      BY <1>1, <2>3, <2>4, <2>5
      DEF Typed, TypeOK, Cleanup, workerVars, serviceVars, cacheVars
  <1>2. CASE Start
    <2>1. \A q \in Priority : WorkerOK(q)'
      BY <1>2, FreeIsNoPriority
      DEF Start, StartWorkers, Typed, TypeOK, WorkerOK, Suspended, Running
    <2>2. pc' \in [Priority -> PC] /\ starts' \in 0..MaxStarts
      BY <1>2, ConstantsAssumption DEF Start, StartWorkers, TypeOK, PC
    <2> QED
      BY <1>2, <2>1, <2>2 DEF Typed, TypeOK, Start, jobVars, cacheVars
  <1>3. CASE Stop
    <2>1. \A q \in Priority : WorkerOK(q)'
      BY <1>3 DEF Stop, Typed, WorkerOK
    <2> QED
      BY <1>3, <2>1
      DEF Typed, TypeOK, Stop, StopWorkers, jobVars, cacheVars
  <1>4. CASE Stopped
    <2>1. \A q \in Priority : WorkerOK(q)'
      BY <1>4 DEF Stopped, Gathered, Typed, WorkerOK, workerVars
    <2> QED
      BY <1>4, <2>1
      DEF Typed, TypeOK, Stopped, jobVars, workerVars, cacheVars
  <1>5. ASSUME NEW j \in Jobs, Tick(j) PROVE Typed'
    <2>1. \A q \in Priority : WorkerOK(q)'
      BY <1>5, WorkersUnchanged DEF Tick, workerVars, serviceVars
    <2> QED
      BY <1>5, <2>1
      DEF Typed, TypeOK, Tick, Clock, jobVars, workerVars, serviceVars,
          cacheVars
  <1>6. CASE CacheTick
    <2>1. \A q \in Priority : WorkerOK(q)'
      BY <1>6, WorkersUnchanged DEF CacheTick, workerVars, serviceVars
    <2>2. Len(cache) \in Nat
      BY LenProperties DEF TypeOK
    <2> QED
      BY <1>6, <2>1, <2>2
      DEF Typed, TypeOK, CacheTick, jobVars, workerVars, serviceVars
  <1> QED BY <1>1, <1>2, <1>3, <1>4, <1>5, <1>6 DEF Time

LEMMA NextTyped == Typed /\ [Next]_vars => Typed'
  <1> SUFFICES ASSUME Typed, [Next]_vars PROVE Typed'
    OBVIOUS
  <1>1. CASE UNCHANGED vars
    BY <1>1
    DEF vars, jobVars, workerVars, serviceVars, cacheVars, Typed, TypeOK,
        WorkerOK
  <1> QED
    BY <1>1, RequestTyped, WorkerTyped, OthersTyped DEF Next

\* Whatever the clients, the workers and the service do, in any order, the
\* variables keep their types: total, completed and failed never go down and
\* the index of expired cache entries stays within the cache.
THEOREM TypeCorrect == Spec => []TypeOK
  <1>1. Typed => TypeOK
    BY DEF Typed
  <1> QED BY InitTyped, NextTyped, <1>1, PTL DEF Spec

\* Once stop() has returned, no worker holds a job or the event loop, for any
\* number of jobs and however the cancellations of the workers interleave.
THEOREM StoppedMeansQuiet == Spec => []StoppedIsQuiet
  <1>1. Typed => StoppedIsQuiet
    BY ConstantsAssumption
    DEF Typed, TypeOK, WorkerOK, StoppedIsQuiet, Held, Suspended
  <1> QED BY InitTyped, NextTyped, <1>1, PTL DEF Spec

------------------------------------------------------------------------------
(***************************************************************************)
(* Custody is inductive.  A Handling leaves the queues alone; a worker     *)
(* keeps its job or gives it up, accepts it only if it has not ended, and  *)
(* does not give it up while it is pending; the status of a job changes    *)
(* to cancelled or expired, or under the worker that processes it.         *)
(***************************************************************************)
KeepsOrDrops(p) ==
  /\ job'[p] \in {job[p], NoJob}
  /\ job'[p] # NoJob /\ pc'[p] = "taken" => pc[p] = "taken"
  /\ job'[p] # NoJob /\ pc'[p] # "taken" /\ pc[p] = "taken" =>
       status[job[p]] \notin Refused
  /\ pc[p] \in {"taken", "claim"} =>
       \/ job'[p] = job[p] /\ pc'[p] \in {"taken", "claim"}
       \/ status'[job[p]] # "pending"

EndsOrIsProcessed(j) ==
  \/ status'[j] = status[j]
  \/ status'[j] \in {"cancelled", "expired"} /\ Submitted(j)
  \/ status'[j] \notin {"none", "pending"} /\ InProcess(j)

Handling ==
  /\ UNCHANGED queue
  /\ \A p \in Priority : KeepsOrDrops(p)
  /\ \A j \in Jobs : EndsOrIsProcessed(j)

LEMMA InitCustody == Init => Custody
  <1> SUFFICES ASSUME Init PROVE Custody
    OBVIOUS
  <1>1. \A j \in Jobs, p \in Priority : ~Queued(j, p) /\ job[p] # j
    BY ConstantsAssumption DEF Init, Queued
  <1>2. \A p \in Priority : Len(queue[p]) = 0
    BY DEF Init
  <1>3. OneHolder
    BY <1>1, <1>2 DEF OneHolder
  <1>4. Known /\ PendingIsReachable
    BY <1>1 DEF Known, PendingIsReachable, Waiting, Held, Init
  <1> QED BY <1>3, <1>4 DEF Custody

\* Nobody gets a job by a Handling.
LEMMA HandlingFrame ==
  ASSUME Handling, NEW j \in Jobs
  PROVE  /\ queue' = queue
         /\ \A p \in Priority :
              job'[p] = j => /\ job[p] = j
                             /\ pc'[p] = "taken" => pc[p] = "taken"
  BY ConstantsAssumption DEF Handling, KeepsOrDrops

LEMMA HandlingOneHolder ==
  ASSUME Custody, Handling
  PROVE  OneHolder'
  <1>1. OneHolder
    BY DEF Custody
  <1> QED BY <1>1, HandlingFrame DEF OneHolder, Queued

LEMMA HandlingKnown ==
  ASSUME Custody, Handling
  PROVE  Known'
  <1> SUFFICES ASSUME NEW j \in Jobs
               PROVE  /\ Waiting(j)' => status'[j] \in Untouched
                      /\ Held(j)' => Submitted(j)'
    BY DEF Known
  <1>0. Known
    BY DEF Custody
  <1>1. EndsOrIsProcessed(j)
    BY DEF Handling
  <1>2. Waiting(j)' => status'[j] \in Untouched
    <2> SUFFICES ASSUME Waiting(j)' PROVE status'[j] \in Untouched
      OBVIOUS
    <2>1. Waiting(j)
      BY HandlingFrame DEF Waiting, Queued
    <2>2. ~InProcess(j)
      BY <2>1 DEF Waiting, InProcess, Custody, OneHolder
    <2>3. status[j] \in Untouched
      BY <2>1, <1>0, Zenon DEF Known
    <2> QED BY <1>1, <2>2, <2>3 DEF EndsOrIsProcessed, Untouched
  <1>3. Held(j)' => Submitted(j)'
    <2> SUFFICES ASSUME Held(j)' PROVE Submitted(j)'
      OBVIOUS
    <2>1. Held(j)
      BY HandlingFrame DEF Held
    <2>2. status[j] # "none"
      BY <2>1, <1>0, Zenon DEF Known, Submitted
    <2> QED BY <1>1, <2>2 DEF EndsOrIsProcessed, Submitted
  <1> QED BY <1>2, <1>3

LEMMA HandlingPending ==
  ASSUME Typed, Custody, Handling
  PROVE  PendingIsReachable'
  <1> SUFFICES ASSUME NEW j \in Jobs, status'[j] = "pending"
               PROVE  \E p \in Priority :
                        \/ Queued(j, p)'
                        \/ (job'[p] = j /\ pc'[p] \in {"taken", "claim"})
    BY DEF PendingIsReachable
  <1>1. status[j] = "pending"
    BY DEF Handling, EndsOrIsProcessed
  <1>2. PICK p \in Priority :
               Queued(j, p) \/ (job[p] = j /\ pc[p] \in {"taken", "claim"})
    BY <1>1 DEF Custody, PendingIsReachable
  <1>3. Queued(j, p) => Queued(j, p)'
    BY DEF Handling, Queued
  <1> QED BY <1>2, <1>3 DEF Handling, KeepsOrDrops

LEMMA HandlingCustody ==
  Typed /\ Custody /\ Handling => Custody'
  BY HandlingOneHolder, HandlingKnown, HandlingPending DEF Custody

\* What get_job makes of the status.
LEMMA LookHandles ==
  ASSUME TypeOK, NEW k \in Jobs, Submitted(k), Look(k), NEW j \in Jobs
  PROVE  EndsOrIsProcessed(j)
  BY DEF Look, Seen, EndsOrIsProcessed, TypeOK

LEMMA RequestHandles ==
  ASSUME Typed,
         \E j \in Jobs : GetStatus(j) \/ GetResults(j) \/ Cancel(j)
  PROVE  Handling
  <1>1. PICK k \in Jobs : GetStatus(k) \/ GetResults(k) \/ Cancel(k)
    OBVIOUS
  <1>2. UNCHANGED <<queue, pc, job>>
    BY <1>1 DEF GetStatus, GetResults, Cancel, workerVars
  <1>3. ASSUME NEW j \in Jobs PROVE EndsOrIsProcessed(j)
    <2>1. CASE GetStatus(k) \/ GetResults(k)
      BY <2>1, LookHandles DEF GetStatus, GetResults, Typed
    <2>2. CASE Cancel(k)
      BY <2>2
      DEF Cancel, EndsOrIsProcessed, Typed, TypeOK, Live, Submitted
    <2> QED BY <1>1, <2>1, <2>2
  <1>4. ASSUME NEW p \in Priority PROVE KeepsOrDrops(p)
    <2>1. pc[p] \in {"taken", "claim"} => job[p] \in Jobs
      BY DEF Typed, TypeOK, WorkerOK
    <2> QED BY <1>2 DEF KeepsOrDrops
  <1> QED BY <1>2, <1>3, <1>4 DEF Handling

\* The other workers keep their job.
LEMMA OnlyWorker ==
  ASSUME Typed, NEW p \in Priority, NEW q \in Priority,
         pc' = [pc EXCEPT ![p] = pc'[p]], job' = [job EXCEPT ![p] = job'[p]]
  PROVE  q # p => KeepsOrDrops(q)
  BY DEF Typed, TypeOK, KeepsOrDrops

\* A worker's own job is submitted, and in process unless just taken.
LEMMA OwnJob ==
  ASSUME Typed, Custody, NEW p \in Priority, pc[p] \notin {"off", "idle"}
  PROVE  /\ job[p] \in Jobs
         /\ Submitted(job[p])
         /\ pc[p] # "taken" => InProcess(job[p])
  BY DEF Typed, TypeOK, WorkerOK, Custody, Known, Held, InProcess

LEMMA LookAndSetHandles ==
  ASSUME TypeOK, NEW k \in Jobs, InProcess(k), NEW new \in Status,
         new \notin {"none", "pending"}, LookAndSet(k, new)
  PROVE  /\ \A j \in Jobs : EndsOrIsProcessed(j)
         /\ status'[k] # "pending"
  BY DEF LookAndSet, Seen, EndsOrIsProcessed, TypeOK

LEMMA WorkerHandles ==
  ASSUME Typed, Custody, NEW p \in Priority, WorkerStep(p), ~Take(p)
  PROVE  Handling
  <1> TypeOK
    BY DEF Typed
  <1>1. pc[p] \notin {"off", "idle"} =>
          /\ job[p] \in Jobs
          /\ Submitted(job[p])
          /\ pc[p] # "taken" => InProcess(job[p])
    BY OwnJob
  <1>2. /\ UNCHANGED queue
        /\ pc' = [pc EXCEPT ![p] = pc'[p]]
        /\ job' = [job EXCEPT ![p] = job'[p]]
    <2>1. CASE Validate(p) \/ Claim(p) \/ Checkpoint(p) \/ Predict(p)
      BY <2>1
      DEF Validate, Claim, Checkpoint, Predict, NextJob, Goto, TypeOK
    <2>2. CASE BatchDone(p) \/ BadBatch(p) \/ Complete(p) \/ Refresh(p)
      BY <2>2
      DEF BatchDone, BadBatch, Complete, Refresh, NextJob, Goto, TypeOK
    <2>3. CASE TimeoutExit(p) \/ FailureExit(p) \/ CancelWorker(p)
      BY <2>3
      DEF TimeoutExit, FailureExit, CancelWorker, NextJob, Goto, TypeOK
    <2> QED BY <2>1, <2>2, <2>3 DEF WorkerStep
  <1>3. KeepsOrDrops(p) /\ \A j \in Jobs : EndsOrIsProcessed(j)
    <2>1. CASE Validate(p)
      <3>1. \A j \in Jobs : EndsOrIsProcessed(j)
        BY <1>1, <2>1, LookHandles DEF Validate, EndsOrIsProcessed
      <3>2. KeepsOrDrops(p)
        BY <1>1, <2>1, ConstantsAssumption
        DEF Validate, KeepsOrDrops, NextJob, Goto, Look, Seen, Refused,
            TypeOK, Overdue
      <3> QED BY <3>1, <3>2
    <2>2. CASE Claim(p)
      <3>1. /\ \A j \in Jobs : EndsOrIsProcessed(j)
            /\ status'[job[p]] # "pending"
        BY <1>1, <2>2, LookAndSetHandles DEF Claim, Status, Live
      <3> QED BY <2>2, <3>1 DEF Claim, KeepsOrDrops, NextJob, Goto, TypeOK
    <2>3. CASE Checkpoint(p)
      BY <1>1, <2>3, LookHandles DEF Checkpoint, KeepsOrDrops, Goto, TypeOK
    <2>4. CASE Predict(p) \/ BadBatch(p)
      BY <2>4
      DEF Predict, BadBatch, Answered, KeepsOrDrops, EndsOrIsProcessed, Goto,
          jobVars, TypeOK
    <2>5. CASE BatchDone(p)
      BY <1>1, <2>5
      DEF BatchDone, Answered, Progressed, KeepsOrDrops, EndsOrIsProcessed,
          Goto, TypeOK
    <2>6. CASE Complete(p) \/ TimeoutExit(p) \/ FailureExit(p)
      <3>1. \A j \in Jobs : EndsOrIsProcessed(j)
        BY <1>1, <2>6, LookAndSetHandles
        DEF Complete, TimeoutExit, FailureExit, Status, Terminal
      <3>2. KeepsOrDrops(p)
        BY <2>6
        DEF Complete, TimeoutExit, FailureExit, KeepsOrDrops, NextJob, Goto,
            TypeOK
      <3> QED BY <3>1, <3>2
    <2>7. CASE Refresh(p)
      BY <1>1, <2>7, LookHandles
      DEF Refresh, KeepsOrDrops, NextJob, Goto, TypeOK
    <2>8. CASE CancelWorker(p)
      BY <2>8
      DEF CancelWorker, Interruptible, KeepsOrDrops, EndsOrIsProcessed, Goto,
          jobVars, TypeOK
    <2> QED
      BY <2>1, <2>2, <2>3, <2>4, <2>5, <2>6, <2>7, <2>8 DEF WorkerStep
  <1>4. \A q \in Priority : KeepsOrDrops(q)
    BY <1>2, <1>3, OnlyWorker
  <1> QED BY <1>2, <1>3, <1>4 DEF Handling

LEMMA OthersHandle ==
  ASSUME Typed, GetMetrics \/ Cleanup \/ Start \/ Stop \/ Stopped \/ Time
                \/ UNCHANGED vars
  PROVE  Handling
  <1> TypeOK
    BY DEF Typed
  <1>1. CASE Start
    BY <1>1
    DEF Start, StartWorkers, Handling, KeepsOrDrops, EndsOrIsProcessed, Typed,
        WorkerOK, jobVars, serviceVars
  <1>2. CASE Cleanup
    BY <1>2
    DEF Cleanup, Handling, KeepsOrDrops, EndsOrIsProcessed, Cleaned,
        Submitted, workerVars
  <1>3. CASE UNCHANGED <<status, queue, pc, job>>
    BY <1>3 DEF Handling, KeepsOrDrops, EndsOrIsProcessed
  <1> QED
    BY <1>1, <1>2, <1>3
    DEF GetMetrics, Stop, Stopped, Time, Tick, CacheTick, vars, jobVars,
        workerVars

\* A new job is nowhere yet; it is put at the end of one queue.
LEMMA SubmitCustody ==
  ASSUME Typed, Custody, NEW k \in Jobs, NEW r \in Offered, Submit(k, r)
  PROVE  Custody'
  <1> r \in Priority
    BY ConstantsAssumption
  <1> OneHolder /\ Known /\ PendingIsReachable
    BY DEF Custody
  <1>1. \A p \in Priority : ~Queued(k, p) /\ job[p] # k
    BY DEF Submit, Known, Waiting, Held, Submitted, Untouched
  <1>2. UNCHANGED <<pc, job>>
    BY DEF Submit, workerVars
  <1>3. /\ status' \in [Jobs -> Status]
        /\ \A j \in Jobs : j # k => status'[j] = status[j]
    BY NextTyped DEF Submit, Typed, TypeOK, Status, Live, Terminal
  <1>4. CASE HasRoom(r)
    <2>1. /\ status'[k] = "pending"
          /\ queue' = [queue EXCEPT ![r] = Append(queue[r], k)]
      BY <1>4 DEF Submit, Typed, TypeOK
    <2>2. queue[r] \in Seq(Jobs) /\ Len(queue[r]) \in Nat
      BY LenProperties DEF Typed, TypeOK
    <2>3. /\ \A p \in Priority : p # r => queue'[p] = queue[p]
          /\ Len(queue'[r]) = Len(queue[r]) + 1
          /\ \A i \in 1..Len(queue[r]) : queue'[r][i] = queue[r][i]
          /\ queue'[r][Len(queue[r]) + 1] = k
      BY <2>1, <2>2, AppendProperties DEF Typed, TypeOK
    <2>4. \A j \in Jobs, p \in Priority :
            Queued(j, p)' <=> Queued(j, p) \/ (j = k /\ p = r)
      BY <2>2, <2>3, SMTT(20) DEF Queued
    <2>5. OneHolder'
      <3>1. \A j \in Jobs, p, q \in Priority :
              /\ Queued(j, p)' => job'[q] # j
              /\ Queued(j, p)' /\ Queued(j, q)' => p = q
              /\ job'[p] = j /\ job'[q] = j => p = q
        <4>1. \A j \in Jobs, p, q \in Priority :
                /\ Queued(j, p) => job[q] # j
                /\ Queued(j, p) /\ Queued(j, q) => p = q
                /\ job[p] = j /\ job[q] = j => p = q
          BY DEF OneHolder
        <4>2. ASSUME NEW j \in Jobs, NEW p \in Priority, NEW q \in Priority
              PROVE  /\ Queued(j, p)' => job'[q] # j
                     /\ Queued(j, p)' /\ Queued(j, q)' => p = q
          <5>1. /\ Queued(j, p)' => Queued(j, p) \/ (j = k /\ p = r)
                /\ Queued(j, q)' => Queued(j, q) \/ (j = k /\ q = r)
            BY <2>4
          <5>2. job'[q] = job[q] /\ job[q] # k /\ ~Queued(k, p) /\ ~Queued(k, q)
            BY <1>1, <1>2
          <5> QED BY <4>1, <5>1, <5>2
        <4>3. \A j \in Jobs, p, q \in Priority : job'[p] = j /\ job'[q] = j => p = q
          BY <1>2, <4>1
        <4> QED BY <4>2, <4>3
      <3>2. \A j \in Jobs, p \in Priority : \A a, b \in 1..Len(queue'[p]) :
              queue'[p][a] = j /\ queue'[p][b] = j => a = b
        <4> SUFFICES ASSUME NEW j \in Jobs, NEW p \in Priority,
                            NEW a \in 1..Len(queue'[p]),
                            NEW b \in 1..Len(queue'[p]),
                            queue'[p][a] = j, queue'[p][b] = j
                     PROVE  a = b
          OBVIOUS
        <4>1. \A c, d \in 1..Len(queue[p]) :
                queue[p][c] = j /\ queue[p][d] = j => c = d
          BY DEF OneHolder
        <4>2. \A i \in 1..Len(queue[r]) : queue[r][i] # k
          BY <1>1 DEF Queued
        <4>3. CASE p = r
          <5>1. /\ a <= Len(queue[r]) => queue[r][a] = j /\ j # k
                /\ b <= Len(queue[r]) => queue[r][b] = j /\ j # k
                /\ a > Len(queue[r]) => a = Len(queue[r]) + 1 /\ j = k
                /\ b > Len(queue[r]) => b = Len(queue[r]) + 1 /\ j = k
            BY <2>2, <2>3, <4>2, <4>3, SMTT(20)
          <5> QED BY <2>2, <2>3, <4>1, <4>3, <5>1
        <4>4. CASE p # r
          BY <2>3, <4>1, <4>4
        <4> QED BY <4>3, <4>4
      <3> QED BY <3>1, <3>2 DEF OneHolder
    <2>6. ASSUME NEW j \in Jobs
          PROVE  /\ Waiting(j)' => status'[j] \in Untouched
                 /\ Held(j)' => Submitted(j)'
      <3>1. CASE j = k
        BY <1>1, <1>2, <2>1, <3>1 DEF Held, Untouched
      <3>2. CASE j # k
        <4>1. /\ Waiting(j)' => Waiting(j)
              /\ Held(j)' => Held(j)
          BY <1>2, <2>4, <3>2 DEF Waiting, Held
        <4> QED BY <1>3, <3>2, <4>1 DEF Known, Submitted
      <3> QED BY <3>1, <3>2
    <2>7. PendingIsReachable'
      BY <1>2, <1>3, <2>4 DEF PendingIsReachable
    <2> QED BY <2>5, <2>6, <2>7 DEF Custody, Known
  <1>5. CASE ~HasRoom(r)
    <2>1. UNCHANGED queue /\ status'[k] = "failed"
      BY <1>5 DEF Submit, Typed, TypeOK
    <2>2. OneHolder'
      BY <1>2, <2>1 DEF OneHolder, Queued
    <2>3. ASSUME NEW j \in Jobs
          PROVE  /\ Waiting(j)' => status'[j] \in Untouched
                 /\ Held(j)' => Submitted(j)'
      <3>1. (Waiting(j)' => Waiting(j)) /\ (Held(j)' => Held(j))
        BY <1>2, <2>1 DEF Waiting, Held, Queued
      <3>2. j = k => ~Waiting(j) /\ ~Held(j)
        BY <1>1 DEF Waiting, Held
      <3> QED BY <1>3, <3>1, <3>2 DEF Known, Submitted
    <2>4. PendingIsReachable'
      BY <1>2, <1>3, <2>1 DEF PendingIsReachable, Queued
    <2> QED BY <2>2, <2>3, <2>4 DEF Custody, Known
  <1> QED BY <1>4, <1>5

\* The oldest job of a queue changes hands.
LEMMA TakeCustody ==
  ASSUME Typed, Custody, NEW r \in Priority, Take(r)
  PROVE  Custody'
  <1> OneHolder /\ Known /\ PendingIsReachable
    BY DEF Custody
  <1>1. /\ queue[r] \in Seq(Jobs) /\ queue[r] # << >>
        /\ Len(queue[r]) \in Nat \ {0}
    BY EmptySeq DEF Typed, TypeOK, Take
  <1>k. PICK k \in Jobs : k = queue[r][1]
    BY <1>1, ElementOfSeq
  <1>2. Queued(k, r) /\ Head(queue[r]) = k
    BY <1>k, <1>1 DEF Queued
  <1>3. /\ \A p \in Priority : p # r => queue'[p] = queue[p]
        /\ Len(queue'[r]) = Len(queue[r]) - 1
        /\ \A i \in 1..Len(queue'[r]) : queue'[r][i] = queue[r][i + 1]
    BY <1>1, HeadTailProperties DEF Take, Popped, Typed, TypeOK
  <1>4. /\ \A p \in Priority : p # r => job'[p] = job[p] /\ pc'[p] = pc[p]
        /\ job'[r] = k /\ pc'[r] = "taken"
        /\ job[r] = NoJob /\ pc[r] = "idle"
        /\ UNCHANGED status
    BY <1>2 DEF Take, Goto, Typed, TypeOK, WorkerOK, jobVars
  <1>5. \A j \in Jobs, p \in Priority : Queued(j, p)' => Queued(j, p)
    BY <1>1, <1>3 DEF Queued
  <1>6. \A j \in Jobs, p \in Priority :
          j # k /\ Queued(j, p) => Queued(j, p)'
    <2> SUFFICES ASSUME NEW j \in Jobs, NEW p \in Priority, j # k,
                        NEW i \in 1..Len(queue[p]), queue[p][i] = j
                 PROVE  \E n \in 1..Len(queue'[p]) : queue'[p][n] = j
      BY DEF Queued
    <2>1. CASE p = r
      <3>1. i # 1
        BY <1>k, <2>1
      <3>2. i - 1 \in 1..Len(queue'[r]) /\ queue'[r][i - 1] = j
        BY <1>1, <1>3, <2>1, <3>1
      <3> QED BY <2>1, <3>2
    <2>2. CASE p # r
      BY <1>3, <2>2
    <2> QED BY <2>1, <2>2
  <1>7. \A p \in Priority : ~Queued(k, p)'
    <2> SUFFICES ASSUME NEW p \in Priority, Queued(k, p)' PROVE FALSE
      OBVIOUS
    <2>1. Queued(k, p)
      BY <1>2, <1>5
    <2>2. p = r
      BY <1>2, <2>1, Zenon DEF OneHolder
    <2>3. PICK i \in 1..Len(queue'[p]) : queue'[p][i] = k
      BY DEF Queued
    <2>4. i + 1 \in 1..Len(queue[r]) /\ queue[r][i + 1] = k /\ i + 1 # 1
      BY <1>1, <1>3, <2>2, <2>3
    <2> QED BY <1>k, <1>1, <2>4 DEF OneHolder
  <1>8. OneHolder'
    <2>1. \A j \in Jobs, p, q \in Priority :
            /\ Queued(j, p)' => job'[q] # j
            /\ Queued(j, p)' /\ Queued(j, q)' => p = q
            /\ job'[p] = j /\ job'[q] = j => p = q
      <3>1. \A j \in Jobs, p, q \in Priority :
              /\ Queued(j, p) => job[q] # j
              /\ Queued(j, p) /\ Queued(j, q) => p = q
              /\ job[p] = j /\ job[q] = j => p = q
        BY DEF OneHolder
      <3>2. ASSUME NEW j \in Jobs, NEW p \in Priority, NEW q \in Priority
            PROVE  /\ Queued(j, p)' => job'[q] # j
                   /\ job'[p] = j /\ job'[q] = j => p = q
        <4>1. job'[q] = j => (q = r /\ j = k) \/ (q # r /\ job[q] = j)
          BY <1>4
        <4>2. job'[p] = j => (p = r /\ j = k) \/ (p # r /\ job[p] = j)
          BY <1>4
        <4>3. \A t \in Priority : job[t] # k
          BY <1>2, <3>1, Zenon
        <4>4. Queued(j, p)' => Queued(j, p) /\ j # k
          BY <1>5, <1>7
        <4> QED BY <3>1, <4>1, <4>2, <4>3, <4>4
      <3>3. \A j \in Jobs, p, q \in Priority :
              Queued(j, p)' /\ Queued(j, q)' => p = q
        BY <1>5, <3>1
      <3> QED BY <3>2, <3>3
    <2>2. \A j \in Jobs, p \in Priority : \A a, b \in 1..Len(queue'[p]) :
            queue'[p][a] = j /\ queue'[p][b] = j => a = b
      <3> SUFFICES ASSUME NEW j \in Jobs, NEW p \in Priority,
                          NEW a \in 1..Len(queue'[p]),
                          NEW b \in 1..Len(queue'[p]),
                          queue'[p][a] = j, queue'[p][b] = j
                   PROVE  a = b
        OBVIOUS
      <3>1. \A c, d \in 1..Len(queue[p]) :
              queue[p][c] = j /\ queue[p][d] = j => c = d
        BY DEF OneHolder
      <3>2. CASE p = r
        <4>1. /\ a + 1 \in 1..Len(queue[p]) /\ queue[p][a + 1] = j
              /\ b + 1 \in 1..Len(queue[p]) /\ queue[p][b + 1] = j
          BY <1>1, <1>3, <3>2, SMTT(20)
        <4>2. a + 1 = b + 1
          BY <3>1, <4>1
        <4> QED BY <1>1, <1>3, <3>2, <4>2
      <3>3. CASE p # r
        BY <1>3, <3>1, <3>3
      <3> QED BY <3>2, <3>3
    <2> QED BY <2>1, <2>2 DEF OneHolder
  <1>9. ASSUME NEW j \in Jobs
        PROVE  /\ Waiting(j)' => status'[j] \in Untouched
               /\ Held(j)' => Submitted(j)'
    <2>1. Waiting(j)' \/ Held(j)' => Waiting(j) \/ Held(j)
      BY <1>2, <1>4, <1>5 DEF Waiting, Held
    <2>2. Waiting(j)' => Waiting(j)
      BY <1>2, <1>4, <1>5 DEF Waiting
    <2>3. Untouched \subseteq Status \ {"none"}
      BY DEF Untouched, Status, Live, Terminal
    <2> QED BY <1>4, <2>1, <2>2, <2>3 DEF Known, Submitted
  <1>10. PendingIsReachable'
    <2> SUFFICES ASSUME NEW j \in Jobs, status[j] = "pending"
                 PROVE  \E p \in Priority :
                          \/ Queued(j, p)'
                          \/ (job'[p] = j /\ pc'[p] \in {"taken", "claim"})
      BY <1>4 DEF PendingIsReachable
    <2>1. PICK p \in Priority :
                 Queued(j, p) \/ (job[p] = j /\ pc[p] \in {"taken", "claim"})
      BY DEF PendingIsReachable
    <2> QED BY <1>4, <1>6, <2>1
  <1> QED BY <1>8, <1>9, <1>10 DEF Custody, Known

LEMMA NextCustody == Typed /\ Custody /\ [Next]_vars => Custody'
  BY HandlingCustody, RequestHandles, WorkerHandles, OthersHandle,
     SubmitCustody, TakeCustody
  DEF Next, Request, WorkerStep

------------------------------------------------------------------------------
(***************************************************************************)
(* The theorems about custody.                                             *)
(***************************************************************************)
LEMMA InvariantHolds == Spec => []IInv
  BY InitTyped, InitCustody, NextTyped, NextCustody, PTL DEF Spec, IInv

\* However submissions, dequeues, cancellations of workers, stops and restarts
\* interleave, a job is in one queue position or with one worker, never in two
\* places: enqueue_job and dequeue_job hand every job out at most once.
THEOREM EachJobHasOneHolder == Spec => []OneHolder
  <1>1. IInv => OneHolder
    BY DEF IInv, Custody
  <1> QED BY InvariantHolds, <1>1, PTL

\* No accepted job is lost: while it is PENDING it is queued or with a worker
\* about to accept it, also across stop() and start().
THEOREM NoPendingJobIsLost == Spec => []PendingIsReachable
  <1>1. IInv => PendingIsReachable
    BY DEF IInv, Custody
  <1> QED BY InvariantHolds, <1>1, PTL

\* A job that has ended while no worker processes it never starts again: a
\* queued job that was cancelled or has expired is refused by is_job_valid.
THEOREM EndedStaysEnded == Spec => EndedIsFinal
  <1> DEFINE Final ==
        \A j \in Jobs : status[j] \in Terminal /\ ~InProcess(j) =>
          status'[j] \in Terminal /\ ~(InProcess(j)')
  <1>1. ASSUME IInv, [Next]_vars PROVE Final
    <2> SUFFICES ASSUME NEW j \in Jobs, status[j] \in Terminal, ~InProcess(j)
                 PROVE  status'[j] \in Terminal /\ ~(InProcess(j)')
      OBVIOUS
    <2> Typed /\ Custody
      BY <1>1 DEF IInv
    <2>1. CASE Handling
      <3>1. status'[j] \in Terminal
        BY <2>1 DEF Handling, EndsOrIsProcessed, Terminal
      <3>2. ASSUME NEW p \in Priority, job'[p] = j, pc'[p] # "taken"
            PROVE  FALSE
        <4>1. job[p] = j /\ KeepsOrDrops(p) /\ j # NoJob
          BY <2>1, <3>2, HandlingFrame, ConstantsAssumption DEF Handling
        <4>2. pc[p] = "taken"
          BY <4>1 DEF InProcess
        <4>3. status[j] \in Untouched
          BY <4>1, <4>2 DEF Custody, Known, Waiting
        <4> QED
          BY <3>2, <4>1, <4>2, <4>3
          DEF KeepsOrDrops, Untouched, Terminal, Refused
      <3> QED BY <3>1, <3>2 DEF InProcess
    <2>2. ASSUME NEW k \in Jobs, NEW r \in Offered, Submit(k, r)
          PROVE  status'[j] \in Terminal /\ ~(InProcess(j)')
      <3>1. j # k
        BY <2>2 DEF Submit, Submitted, Terminal
      <3> QED
        BY <2>2, <3>1 DEF Submit, InProcess, workerVars, Typed, TypeOK
    <2>3. ASSUME NEW r \in Priority, Take(r)
          PROVE  status'[j] \in Terminal /\ ~(InProcess(j)')
      BY <2>3 DEF Take, Goto, InProcess, jobVars, Typed, TypeOK
    <2> QED
      BY <1>1, <2>1, <2>2, <2>3, RequestHandles, WorkerHandles, OthersHandle
      DEF Next, Request, WorkerStep
  <1>2. Spec => [][Final]_vars
    BY <1>1, InvariantHolds, PTL DEF Spec
  <1> QED BY <1>2 DEF EndedIsFinal

------------------------------------------------------------------------------
(***************************************************************************)
(* Results are whole.  The worker that has the loop finds its job          *)
(* PROCESSING at every checkpoint: the update that precedes it says so and *)
(* nothing but time happens in between.  So the cancellation checkpoint of *)
(* _process_job_batches never stops a job with a part of its results.      *)
(***************************************************************************)
ProgressOK(p) ==
  /\ pc[p] \in {"off", "idle", "taken", "claim"} => done[p] = 0
  /\ pc[p] \in {"checkpoint", "deadline", "predict"} =>
       done[p] < Batches[job[p]]
  /\ pc[p] = "checkpoint" => status[job[p]] # "cancelled"
  /\ pc[p] \in {"finish", "refresh"} => done[p] = Batches[job[p]]

Progress == \A p \in Priority : ProgressOK(p)

Whole == ResultsAreWhole /\ Progress

LEMMA InitWhole == Init => Whole
  <1> SUFFICES ASSUME Init PROVE Whole
    OBVIOUS
  <1>1. ResultsAreWhole
    BY DEF Init, ResultsAreWhole
  <1>2. Progress
    BY DEF Init, Progress, ProgressOK
  <1> QED BY <1>1, <1>2 DEF Whole

\* Steps that do not touch the workers and complete no job.
LEMMA FrameWhole ==
  ASSUME Typed, Whole, UNCHANGED <<results, pc, job, done>>,
         \A j \in Jobs : status'[j] = "completed" => status[j] = "completed",
         status' = status \/ loop = Free
  PROVE  Whole'
  <1>1. ResultsAreWhole'
    BY DEF Whole, ResultsAreWhole
  <1>2. ASSUME NEW p \in Priority PROVE ProgressOK(p)'
    <2>1. ProgressOK(p)
      BY DEF Whole, Progress
    <2>2. pc[p] = "checkpoint" => loop = p
      BY DEF Typed, WorkerOK, Running
    <2> QED BY <2>1, <2>2, FreeIsNoPriority DEF ProgressOK
  <1> QED BY <1>1, <1>2 DEF Whole, Progress

LEMMA LookCompletesNone ==
  ASSUME TypeOK, NEW k, Look(k), NEW j \in Jobs
  PROVE  status'[j] = "completed" => status[j] = "completed"
  BY DEF Look, Seen, TypeOK

LEMMA LookAndSetCompletesNone ==
  ASSUME TypeOK, NEW k, NEW new, new # "completed", LookAndSet(k, new),
         NEW j \in Jobs
  PROVE  status'[j] = "completed" => status[j] = "completed"
  BY DEF LookAndSet, Seen, TypeOK

LEMMA OutsideWhole ==
  ASSUME Typed, Whole,
         Request \/ Cleanup \/ Start \/ Stop \/ Stopped \/ Time
                 \/ UNCHANGED vars
  PROVE  Whole'
  <1> TypeOK
    BY DEF Typed
  <1>1. ASSUME NEW j \in Jobs, NEW p \in Offered, Submit(j, p) PROVE Whole'
    <2>1. \A i \in Jobs : status'[i] = "completed" => status[i] = "completed"
      BY <1>1 DEF Submit, TypeOK
    <2> QED BY <1>1, <2>1, FrameWhole DEF Submit, workerVars
  <1>2. ASSUME NEW j \in Jobs, GetStatus(j) \/ GetResults(j) PROVE Whole'
    BY <1>2, LookCompletesNone, FrameWhole
    DEF GetStatus, GetResults, workerVars
  <1>3. ASSUME NEW j \in Jobs, Cancel(j) PROVE Whole'
    <2>1. \A i \in Jobs : status'[i] = "completed" => status[i] = "completed"
      BY <1>3 DEF Cancel, TypeOK
    <2> QED BY <1>3, <2>1, FrameWhole DEF Cancel, workerVars
  <1>4. CASE Cleanup
    <2>1. \A i \in Jobs : status'[i] = "completed" => status[i] = "completed"
      BY <1>4 DEF Cleanup
    <2> QED BY <1>4, <2>1, FrameWhole DEF Cleanup, workerVars
  <1>5. CASE Start
    <2>1. \A p \in Priority : pc[p] = "off" /\ pc'[p] = "idle"
      BY <1>5 DEF Start, StartWorkers, Typed, WorkerOK
    <2>2. Progress'
      BY <1>5, <2>1 DEF Start, Whole, Progress, ProgressOK
    <2>3. ResultsAreWhole'
      BY <1>5 DEF Start, Whole, ResultsAreWhole, jobVars
    <2> QED BY <2>2, <2>3 DEF Whole
  <1>6. CASE GetMetrics \/ Stop \/ Stopped \/ Time \/ UNCHANGED vars
    <2>1. UNCHANGED <<results, pc, job, done, status>>
      BY <1>6
      DEF GetMetrics, Stop, Stopped, Time, Tick, CacheTick, vars, jobVars,
          workerVars
    <2> QED BY <2>1, FrameWhole
  <1> QED BY <1>1, <1>2, <1>3, <1>4, <1>5, <1>6 DEF Request

\* A worker's step is harmless to the others.
LEMMA OthersProgress ==
  ASSUME Typed, Whole, NEW p \in Priority, NEW q \in Priority, q # p,
         loop \in {p, Free},
         pc'[q] = pc[q], job'[q] = job[q], done'[q] = done[q]
  PROVE  ProgressOK(q)'
  <1>1. ProgressOK(q)
    BY DEF Whole, Progress
  <1>2. pc[q] # "checkpoint"
    BY FreeIsNoPriority DEF Typed, WorkerOK, Running
  <1> QED BY <1>1, <1>2 DEF ProgressOK

LEMMA WorkerWhole ==
  ASSUME Typed, Custody, Whole, NEW p \in Priority, WorkerStep(p)
  PROVE  Whole'
  <1> TypeOK
    BY DEF Typed
  <1>1. pc[p] \notin {"off", "idle"} => job[p] \in Jobs
    BY OwnJob
  <1>2. ProgressOK(p) /\ \A j \in Jobs : Batches[j] \in Nat \ {0}
    BY ConstantsAssumption DEF Whole, Progress
  <1>3. ASSUME NEW q \in Priority, q # p PROVE ProgressOK(q)'
    <2>1. CASE Take(p) \/ Validate(p) \/ Claim(p) \/ Checkpoint(p)
      BY <1>3, <2>1, OthersProgress
      DEF Take, Validate, Claim, Checkpoint, NextJob, Goto, TypeOK
    <2>2. CASE Predict(p) \/ BatchDone(p) \/ BadBatch(p) \/ Complete(p)
      BY <1>3, <2>2, OthersProgress
      DEF Predict, BatchDone, BadBatch, Answered, Complete, NextJob, Goto,
          TypeOK
    <2>3. CASE \/ Refresh(p) \/ TimeoutExit(p) \/ FailureExit(p)
               \/ CancelWorker(p)
      BY <1>3, <2>3, OthersProgress
      DEF Refresh, TimeoutExit, FailureExit, CancelWorker, NextJob, Goto,
          TypeOK
    <2> QED BY <2>1, <2>2, <2>3 DEF WorkerStep
  <1>4. ProgressOK(p)'
    <2>1. CASE Take(p)
      BY <1>2, <2>1 DEF Take, Goto, ProgressOK, TypeOK
    <2>2. CASE Validate(p)
      BY <1>2, <2>2 DEF Validate, NextJob, Goto, ProgressOK, TypeOK
    <2>3. CASE Claim(p)
      BY <1>1, <1>2, <2>3
      DEF Claim, LookAndSet, NextJob, Goto, ProgressOK, TypeOK
    <2>4. CASE Checkpoint(p)
      <3>1. Seen(job[p]) # "cancelled"
        BY <1>1, <1>2, <2>4 DEF Checkpoint, ProgressOK, Seen
      <3> QED BY <1>2, <2>4, <3>1 DEF Checkpoint, Goto, ProgressOK, TypeOK
    <2>5. CASE Predict(p) \/ BadBatch(p)
      BY <1>2, <2>5
      DEF Predict, BadBatch, Answered, Goto, ProgressOK, TypeOK
    <2>6. CASE BatchDone(p)
      <3>1. /\ job[p] \in Jobs /\ job'[p] = job[p]
            /\ done[p] \in Nat /\ done[p] < Batches[job[p]]
            /\ done'[p] = done[p] + 1
            /\ status'[job[p]] = "processing"
            /\ pc'[p] = IF done[p] + 1 = Batches[job[p]] THEN "finish"
                                                         ELSE "checkpoint"
        BY <1>1, <1>2, <2>6
        DEF BatchDone, Answered, LastBatch, Progressed, Goto, ProgressOK,
            TypeOK
      <3> QED BY <1>2, <3>1 DEF ProgressOK
    <2>7. CASE Complete(p)
      BY <1>2, <2>7 DEF Complete, NextJob, Goto, ProgressOK, TypeOK
    <2>8. CASE Refresh(p) \/ TimeoutExit(p) \/ FailureExit(p)
      BY <2>8
      DEF Refresh, TimeoutExit, FailureExit, NextJob, Goto, ProgressOK, TypeOK
    <2>9. CASE CancelWorker(p)
      BY <2>9 DEF CancelWorker, Goto, ProgressOK, TypeOK
    <2> QED
      BY <2>1, <2>2, <2>3, <2>4, <2>5, <2>6, <2>7, <2>8, <2>9 DEF WorkerStep
  <1>5. ResultsAreWhole'
    <2>1. CASE Complete(p)
      <3>1. job[p] \in Jobs /\ done[p] = Batches[job[p]]
        BY <1>1, <1>2, <2>1 DEF Complete, ProgressOK
      <3>2. ResultsAreWhole
        BY DEF Whole
      <3>3. CASE Seen(job[p]) = "cancelled"
        BY <2>1, <3>2, <3>3
        DEF Complete, LookAndSet, ResultsAreWhole, TypeOK
      <3>4. CASE Seen(job[p]) # "cancelled"
        BY <2>1, <3>1, <3>2, <3>4
        DEF Complete, LookAndSet, ResultsAreWhole, TypeOK
      <3> QED BY <3>3, <3>4
    <2>2. CASE ~Complete(p)
      <3>1. UNCHANGED results
        BY <2>2
        DEF WorkerStep, Take, Validate, Claim, Checkpoint, Predict, BatchDone,
            BadBatch, Refresh, TimeoutExit, FailureExit, CancelWorker, jobVars
      <3>2. ASSUME NEW j \in Jobs, status'[j] = "completed"
            PROVE  status[j] = "completed"
        <4>1. CASE Claim(p) \/ TimeoutExit(p) \/ FailureExit(p)
          BY <3>2, <4>1, LookAndSetCompletesNone
          DEF Claim, TimeoutExit, FailureExit
        <4>2. CASE Checkpoint(p) \/ Refresh(p)
          BY <3>2, <4>2, LookCompletesNone DEF Checkpoint, Refresh
        <4>3. CASE Validate(p)
          BY <3>2, <4>3, LookCompletesNone DEF Validate
        <4>4. CASE BatchDone(p)
          BY <3>2, <4>4 DEF BatchDone, Progressed, TypeOK
        <4>5. CASE Take(p) \/ Predict(p) \/ BadBatch(p) \/ CancelWorker(p)
          BY <3>2, <4>5 DEF Take, Predict, BadBatch, CancelWorker, jobVars
        <4> QED BY <2>2, <4>1, <4>2, <4>3, <4>4, <4>5 DEF WorkerStep
      <3> QED BY <3>1, <3>2 DEF Whole, ResultsAreWhole
    <2> QED BY <2>1, <2>2
  <1> QED BY <1>3, <1>4, <1>5 DEF Whole, Progress

LEMMA WholeHolds == Spec => []Whole
  <1>1. IInv /\ Whole /\ [Next]_vars => Whole'
    BY OutsideWhole, WorkerWhole DEF IInv, Next
  <1> QED BY InvariantHolds, InitWhole, <1>1, PTL DEF Spec

\* Results are all or nothing for every number of batches: a job that has
\* results, in particular a COMPLETED one, has those of every batch, whatever
\* cancellation, expiry, clean-up, stop or failure came in between
\* (_process_job_batches and the test that follows it in _process_job).
THEOREM ResultsAreAllOrNothing == Spec => []ResultsAreWhole
  <1>1. Whole => ResultsAreWhole
    BY DEF Whole
  <1> QED BY WholeHolds, <1>1, PTL

------------------------------------------------------------------------------
(***************************************************************************)
(* On top of these invariants: what the result cache holds, what the       *)
(* metrics count, who looks after a job that is PROCESSING, and, with the  *)
(* processor of the tree, that every job follows JobLifecycle.             *)
(***************************************************************************)

------------------------------------------------------------------------------
(***************************************************************************)
(* A worker's step, seen by everything it does not concern.                *)
(***************************************************************************)

\* The other workers do not notice it, and it needs the event loop.
LEMMA WorkerAlone ==
  ASSUME Typed, NEW p \in Priority, WorkerStep(p), NEW q \in Priority, q # p
  PROVE  /\ pc'[q] = pc[q] /\ job'[q] = job[q] /\ stopping'[q] = stopping[q]
         /\ loop \in {p, Free} /\ loop' \in {p, Free}
  <1>1. CASE Take(p) \/ Validate(p) \/ Claim(p) \/ Checkpoint(p)
    BY <1>1 DEF Take, Validate, Claim, Checkpoint, NextJob, Goto, Typed, TypeOK
  <1>2. CASE Predict(p) \/ BatchDone(p) \/ BadBatch(p) \/ Complete(p)
    BY <1>2
    DEF Predict, BatchDone, BadBatch, Answered, Complete, NextJob, Goto, Typed,
        TypeOK
  <1>3. CASE Refresh(p) \/ TimeoutExit(p) \/ FailureExit(p) \/ CancelWorker(p)
    BY <1>3
    DEF Refresh, TimeoutExit, FailureExit, CancelWorker, NextJob, Goto, Typed,
        TypeOK
  <1> QED BY <1>1, <1>2, <1>3 DEF WorkerStep

\* It changes neither the clocks nor the service.
LEMMA WorkerFrame ==
  ASSUME NEW p \in Priority, WorkerStep(p)
  PROVE  UNCHANGED <<clock, service, starts>>
  BY DEF WorkerStep, Take, Validate, Claim, Checkpoint, Predict, BatchDone,
         BadBatch, Complete, Refresh, TimeoutExit, FailureExit, CancelWorker,
         serviceVars

\* Only Complete writes results, only Refresh the cache.
LEMMA WorkerWrites ==
  ASSUME NEW p \in Priority, WorkerStep(p)
  PROVE  /\ ~Complete(p) => UNCHANGED results
         /\ ~Refresh(p) => UNCHANGED cacheVars
  BY DEF WorkerStep, Take, Validate, Claim, Checkpoint, Predict, BatchDone,
         BadBatch, Complete, Refresh, TimeoutExit, FailureExit, CancelWorker,
         jobVars

\* Requests, the service's own tasks and time leave results alone.
LEMMA OutsideResults ==
  ASSUME Request \/ Cleanup \/ Start \/ Stop \/ Stopped \/ Time
                 \/ UNCHANGED vars
  PROVE  UNCHANGED <<results, job>>
  BY DEF Request, Submit, GetStatus, GetResults, Cancel, GetMetrics, Cleanup,
         Start, Stop, Stopped, Time, Tick, CacheTick, vars, jobVars, workerVars

------------------------------------------------------------------------------
(***************************************************************************)
(* The result cache.  What the clean-up and the limit leave is a suffix of *)
(* the sequence of keys, so nothing enters but the job that is cached.     *)
(***************************************************************************)
Suffix(d, c) ==
  \E n \in Nat : \A i \in 1..Len(d) : /\ i + n \in 1..Len(c)
                                      /\ d[i] = c[i + n]

Distinct(c) == \A a, b \in 1..Len(c) : c[a] = c[b] => a = b

LEMMA SuffixOf ==
  ASSUME NEW c \in Seq(Jobs), NEW m \in Nat \ {0}
  PROVE  Suffix(SubSeq(c, m, Len(c)), c)
  <1>1. Len(c) \in Nat
    BY LenProperties
  <1>2. \A i \in m..Len(c) : c[i] \in Jobs
    BY <1>1, ElementOfSeq
  <1> DEFINE d == SubSeq(c, m, Len(c))
  <1>3. /\ Len(d) = IF m <= Len(c) THEN Len(c) - m + 1 ELSE 0
        /\ \A i \in 1..(Len(c) - m + 1) : d[i] = c[m + i - 1]
    BY <1>1, <1>2, SubSeqProperties
  <1> HIDE DEF d
  <1>4. m - 1 \in Nat
    OBVIOUS
  <1>5. ASSUME NEW i \in 1..Len(d)
        PROVE  i + (m - 1) \in 1..Len(c) /\ d[i] = c[i + (m - 1)]
    <2>1. m <= Len(c) /\ Len(d) = Len(c) - m + 1
      BY <1>1, <1>3
    <2>2. d[i] = c[m + i - 1] /\ m + i - 1 = i + (m - 1)
      BY <1>1, <1>3, <2>1
    <2> QED BY <1>1, <2>1, <2>2
  <1>6. Suffix(d, c)
    BY <1>4, <1>5 DEF Suffix
  <1> QED BY <1>6 DEF d

LEMMA SuffixTransitive ==
  ASSUME NEW c \in Seq(Jobs), NEW d \in Seq(Jobs), NEW e \in Seq(Jobs),
         Suffix(d, c), Suffix(e, d)
  PROVE  Suffix(e, c)
  <1>1. PICK m \in Nat : \A i \in 1..Len(d) : /\ i + m \in 1..Len(c)
                                              /\ d[i] = c[i + m]
    BY DEF Suffix
  <1>2. PICK n \in Nat : \A i \in 1..Len(e) : /\ i + n \in 1..Len(d)
                                              /\ e[i] = d[i + n]
    BY DEF Suffix
  <1>3. \A i \in 1..Len(e) : /\ i + (n + m) \in 1..Len(c)
                             /\ e[i] = c[i + (n + m)]
    <2> SUFFICES ASSUME NEW i \in 1..Len(e)
                 PROVE  i + (n + m) \in 1..Len(c) /\ e[i] = c[i + (n + m)]
      OBVIOUS
    <2>1. i + n \in 1..Len(d) /\ e[i] = d[i + n]
      BY <1>2
    <2>2. (i + n) + m \in 1..Len(c) /\ d[i + n] = c[(i + n) + m]
      BY <1>1, <2>1
    <2>3. (i + n) + m = i + (n + m)
      OBVIOUS
    <2> QED BY <2>1, <2>2, <2>3
  <1>4. n + m \in Nat
    OBVIOUS
  <1> QED BY <1>3, <1>4 DEF Suffix

LEMMA SuffixKeeps ==
  ASSUME NEW c \in Seq(Jobs), NEW d \in Seq(Jobs), Suffix(d, c)
  PROVE  /\ Distinct(c) => Distinct(d)
         /\ \A i \in 1..Len(d) : \E k \in 1..Len(c) : d[i] = c[k]
  <1>1. PICK n \in Nat : \A i \in 1..Len(d) : /\ i + n \in 1..Len(c)
                                              /\ d[i] = c[i + n]
    BY DEF Suffix
  <1>2. ASSUME Distinct(c), NEW a \in 1..Len(d), NEW b \in 1..Len(d),
               d[a] = d[b]
        PROVE  a = b
    <2>1. a + n = b + n
      BY <1>1, <1>2 DEF Distinct
    <2> QED BY <2>1
  <1> QED BY <1>1, <1>2 DEF Distinct

\* Eviction makes room for one entry and keeps the newest ones.
LEMMA WithRoomFits ==
  ASSUME NEW c \in Seq(Jobs), Len(c) <= CacheMax
  PROVE  Len(WithRoom(c)) < CacheMax /\ Suffix(WithRoom(c), c)
  <1>1. Len(c) \in Nat /\ CacheMax \in Nat \ {0}
    BY LenProperties, CacheMaxAssumption
  <1>2. CASE Len(c) < CacheMax
    <2>1. Suffix(c, c)
      <3>1. \A i \in 1..Len(c) : i + 0 \in 1..Len(c) /\ c[i] = c[i + 0]
        OBVIOUS
      <3> QED BY <3>1 DEF Suffix
    <2> QED BY <1>2, <2>1 DEF WithRoom
  <1>3. CASE Len(c) = CacheMax
    <2>1. WithRoom(c) = SubSeq(c, 2, Len(c))
      BY <1>1, <1>3 DEF WithRoom
    <2>2. \A i \in 2..Len(c) : c[i] \in Jobs
      BY <1>1, ElementOfSeq
    <2>3. Len(SubSeq(c, 2, Len(c))) = IF 2 <= Len(c) THEN Len(c) - 1 ELSE 0
      BY <1>1, <2>2, SubSeqProperties
    <2>4. Suffix(SubSeq(c, 2, Len(c)), c)
      BY SuffixOf
    <2> QED BY <1>1, <1>3, <2>1, <2>3, <2>4
  <1> QED BY <1>1, <1>2, <1>3

LEMMA CacheResultFits ==
  ASSUME NEW c \in Seq(Jobs), NEW n \in 0..Len(c), NEW j \in Jobs,
         Len(c) <= CacheMax, Distinct(c)
  PROVE  LET new == CacheResult(c, n, j) IN
         /\ Len(new) <= CacheMax
         /\ Distinct(new)
         /\ \A i \in 1..Len(new) :
              new[i] = j \/ \E k \in 1..Len(c) : new[i] = c[k]
  <1> DEFINE u == Unexpired(c, n)
             kept == WithRoom(u)
  <1>1. Len(c) \in Nat /\ CacheMax \in Nat
    BY LenProperties, CacheMaxAssumption
  <1>2. u \in Seq(Jobs) /\ kept \in Seq(Jobs)
    BY UnexpiredType, WithRoomType
  <1>3. Suffix(u, c)
    BY <1>1, SuffixOf DEF Unexpired
  <1>4. Len(u) <= CacheMax
    <2>1. \A i \in (n + 1)..Len(c) : c[i] \in Jobs
      BY <1>1, ElementOfSeq
    <2>2. Len(u) = IF n + 1 <= Len(c) THEN Len(c) - (n + 1) + 1 ELSE 0
      BY <1>1, <2>1, SubSeqProperties DEF Unexpired
    <2> HIDE DEF u
    <2> QED BY <1>1, <2>2
  <1>5. Len(kept) < CacheMax /\ Suffix(kept, u)
    BY <1>2, <1>4, WithRoomFits
  <1>6. Suffix(kept, c)
    BY <1>2, <1>3, <1>5, SuffixTransitive
  <1>7. /\ Distinct(kept)
        /\ \A i \in 1..Len(kept) : \E k \in 1..Len(c) : kept[i] = c[k]
    BY <1>2, <1>6, SuffixKeeps
  <1>8. CacheResult(c, n, j) = IF j \in Entries(kept) THEN kept
                                                      ELSE Append(kept, j)
    BY DEF CacheResult
  <1> HIDE DEF kept, u
  <1>9. Len(kept) \in Nat
    BY <1>2, LenProperties
  <1>10. CASE j \in Entries(kept)
    BY <1>1, <1>5, <1>7, <1>8, <1>9, <1>10
  <1>11. CASE j \notin Entries(kept)
    <2> DEFINE new == Append(kept, j)
    <2>1. /\ Len(new) = Len(kept) + 1
          /\ \A i \in 1..Len(kept) : new[i] = kept[i]
          /\ new[Len(kept) + 1] = j
      BY <1>2, AppendProperties
    <2>2. \A i \in 1..Len(kept) : kept[i] # j
      BY <1>11 DEF Entries
    <2> HIDE DEF new
    <2>3. ASSUME NEW i \in 1..Len(new)
          PROVE  \/ i \in 1..Len(kept) /\ new[i] = kept[i] /\ new[i] # j
                 \/ i = Len(kept) + 1 /\ new[i] = j
      BY <1>9, <2>1, <2>2
    <2>4. Distinct(new)
      BY <1>7, <2>3 DEF Distinct
    <2>5. \A i \in 1..Len(new) :
            new[i] = j \/ \E k \in 1..Len(c) : new[i] = c[k]
      BY <1>7, <2>3
    <2>6. Len(new) <= CacheMax
      BY <1>1, <1>5, <1>9, <2>1
    <2>7. CacheResult(c, n, j) = new
      BY <1>8, <1>11 DEF new
    <2> QED BY <2>4, <2>5, <2>6, <2>7
  <1> QED BY <1>10, <1>11

LEMMA WithoutKeeps ==
  ASSUME NEW c \in Seq(Jobs), NEW i \in 1..Len(c)
  PROVE  /\ Distinct(c) => Distinct(Without(c, i))
         /\ \A a \in 1..Len(Without(c, i)) :
              \E k \in 1..Len(c) : Without(c, i)[a] = c[k]
  <1> DEFINE front == SubSeq(c, 1, i - 1)
             back == SubSeq(c, i + 1, Len(c))
             d == Without(c, i)
  <1>1. Len(c) \in Nat /\ i \in Int /\ \A k \in 1..Len(c) : c[k] \in Jobs
    BY LenProperties, ElementOfSeq
  <1>2. /\ front \in Seq(Jobs) /\ Len(front) = i - 1
        /\ \A k \in 1..(i - 1) : front[k] = c[k]
    <2>1. \A k \in 1..(i - 1) : c[k] \in Jobs
      BY <1>1
    <2> QED BY <1>1, <2>1, SubSeqProperties
  <1>3. /\ back \in Seq(Jobs) /\ Len(back) = Len(c) - i
        /\ \A k \in 1..(Len(c) - i) : back[k] = c[k + i]
    <2>1. \A k \in (i + 1)..Len(c) : c[k] \in Jobs
      BY <1>1
    <2>2. /\ back \in Seq(Jobs) /\ Len(back) = Len(c) - i
          /\ \A k \in 1..(Len(c) - (i + 1) + 1) : back[k] = c[(i + 1) + k - 1]
      BY <1>1, <2>1, SubSeqProperties
    <2> HIDE DEF back
    <2> QED BY <1>1, <2>2
  <1>4. \A k \in 1..(Len(front) + Len(back)) :
          d[k] = IF k <= Len(front) THEN front[k] ELSE back[k - Len(front)]
    BY <1>2, <1>3, ConcatProperties DEF Without
  <1>5. Len(d) = Len(c) - 1
    BY WithoutType
  <1> HIDE DEF front, back, d
  <1>6. ASSUME NEW k \in 1..Len(d)
        PROVE  \/ k < i /\ k \in 1..Len(c) /\ d[k] = c[k]
               \/ k >= i /\ k + 1 \in 1..Len(c) /\ d[k] = c[k + 1]
    <2>0. k \in 1..(Len(front) + Len(back)) /\ k \in 1..(Len(c) - 1)
      BY <1>1, <1>2, <1>3, <1>5
    <2>1. CASE k < i
      BY <1>1, <1>2, <1>4, <2>0, <2>1
    <2>2. CASE k >= i
      <3>1. k - Len(front) = k - i + 1 /\ k - i + 1 \in 1..(Len(c) - i)
        BY <1>1, <1>2, <2>0, <2>2
      <3>2. d[k] = back[k - i + 1]
        BY <1>1, <1>2, <1>4, <2>0, <2>2, <3>1
      <3>3. back[k - i + 1] = c[(k - i + 1) + i] /\ (k - i + 1) + i = k + 1
        BY <1>1, <1>3, <3>1
      <3> QED BY <1>1, <2>0, <2>2, <3>2, <3>3
    <2> QED BY <1>1, <2>1, <2>2
  <1>7. ASSUME Distinct(c), NEW a \in 1..Len(d), NEW b \in 1..Len(d),
               d[a] = d[b]
        PROVE  a = b
    <2> DEFINE pos(k) == IF k < i THEN k ELSE k + 1
    <2>1. \A k \in 1..Len(d) : pos(k) \in 1..Len(c) /\ d[k] = c[pos(k)]
      BY <1>1, <1>6
    <2>2. pos(a) \in 1..Len(c) /\ pos(b) \in 1..Len(c) /\ c[pos(a)] = c[pos(b)]
      BY <1>7, <2>1
    <2>3. pos(a) = pos(b)
      <3> HIDE DEF pos
      <3> QED BY <1>7, <2>2 DEF Distinct
    <2> QED BY <1>1, <2>3
  <1>8. Distinct(c) => Distinct(d)
    BY <1>7 DEF Distinct
  <1>9. \A a \in 1..Len(d) : \E k \in 1..Len(c) : d[a] = c[k]
    BY <1>6
  <1> QED BY <1>8, <1>9 DEF d

\* A job's complete results stay as they are.
LEMMA ResultsStay ==
  ASSUME Typed, Custody, Whole, [Next]_vars, NEW j \in Jobs,
         results[j] = Batches[j]
  PROVE  results'[j] = Batches[j]
  <1>1. CASE \E p \in Priority : Complete(p)
    <2>1. PICK p \in Priority : Complete(p)
      BY <1>1
    <2>2. pc[p] = "finish" /\ job[p] \in Jobs
      BY <2>1, OwnJob DEF Complete
    <2>3. done[p] = Batches[job[p]]
      BY <2>2 DEF Whole, Progress, ProgressOK
    <2> QED BY <2>1, <2>3 DEF Complete, Typed, TypeOK
  <1>2. CASE ~\E p \in Priority : Complete(p)
    <2>1. results' = results
      BY <1>2, WorkerWrites, OutsideResults DEF Next
    <2> QED BY <2>1
  <1> QED BY <1>1, <1>2

\* CacheIsSound is inductive: what is cached is a job found COMPLETED.
LEMMA NextCacheIsSound ==
  Typed /\ Custody /\ Whole /\ CacheIsSound /\ [Next]_vars => CacheIsSound'
  <1> SUFFICES ASSUME Typed, Custody, Whole, CacheIsSound, [Next]_vars
               PROVE  CacheIsSound'
    OBVIOUS
  <1>1. /\ cache \in Seq(Jobs) /\ stale \in 0..Len(cache) /\ cache' \in Seq(Jobs)
        /\ Len(cache) \in Nat /\ CacheMax \in Nat
    BY NextTyped, LenProperties, CacheMaxAssumption DEF Typed, TypeOK
  <1>2. /\ Len(cache) <= CacheMax
        /\ Distinct(cache)
        /\ \A k \in 1..Len(cache) : results[cache[k]] = Batches[cache[k]]
    BY DEF CacheIsSound, Distinct
  <1> DEFINE Kept(i) == \E k \in 1..Len(cache) : cache'[i] = cache[k]
             Fresh(i) == results[cache'[i]] = Batches[cache'[i]]
  <1>3. ASSUME Len(cache') <= CacheMax, Distinct(cache'),
               \A i \in 1..Len(cache') : Kept(i) \/ Fresh(i)
        PROVE  CacheIsSound'
    <2>1. ASSUME NEW i \in 1..Len(cache')
          PROVE  results'[cache'[i]] = Batches[cache'[i]]
      <3>1. cache'[i] \in Jobs
        BY <1>1, ElementOfSeq
      <3>2. results[cache'[i]] = Batches[cache'[i]]
        BY <1>2, <1>3
      <3> QED BY <3>1, <3>2, ResultsStay
    <2> QED BY <1>3, <2>1 DEF CacheIsSound, Distinct
  <1>4. CASE UNCHANGED cache
    <2>1. \A i \in 1..Len(cache') : Kept(i)
      BY <1>4
    <2> QED BY <1>2, <1>3, <1>4, <2>1
  <1>5. ASSUME NEW i \in 1..Len(cache), cache' = Without(cache, i)
        PROVE  CacheIsSound'
    <2>1. Len(cache') <= CacheMax
      BY <1>1, <1>2, <1>5, WithoutType
    <2>2. Distinct(cache') /\ \A k \in 1..Len(cache') : Kept(k)
      BY <1>1, <1>2, <1>5, WithoutKeeps
    <2> QED BY <1>3, <2>1, <2>2
  <1>6. ASSUME NEW p \in Priority, Refresh(p), Seen(job[p]) = "completed"
        PROVE  CacheIsSound'
    <2>1. job[p] \in Jobs /\ cache' = CacheResult(cache, stale, job[p])
      BY <1>6, OwnJob DEF Refresh
    <2>2. results[job[p]] = Batches[job[p]]
      BY <1>6, <2>1 DEF Seen, Whole, ResultsAreWhole
    <2>3. /\ Len(cache') <= CacheMax
          /\ Distinct(cache')
          /\ \A i \in 1..Len(cache') : cache'[i] = job[p] \/ Kept(i)
      BY <1>1, <1>2, <2>1, CacheResultFits
    <2> QED BY <1>3, <2>2, <2>3
  <1>7. ASSUME NEW j \in Jobs, GetResults(j) PROVE CacheIsSound'
    <2>1. 1..stale \subseteq 1..Len(cache)
      BY <1>1
    <2> QED BY <1>4, <1>5, <1>7, <2>1 DEF GetResults, cacheVars
  <1>8. ASSUME NEW p \in Priority, WorkerStep(p) PROVE CacheIsSound'
    <2>1. CASE Refresh(p)
      BY <1>4, <1>6, <2>1 DEF Refresh, cacheVars
    <2>2. CASE ~Refresh(p)
      BY <1>4, <1>8, <2>2, WorkerWrites DEF cacheVars
    <2> QED BY <2>1, <2>2
  <1>9. CASE ~\E j \in Jobs : GetResults(j)
    <2>1. CASE Request \/ Cleanup \/ Start \/ Stop \/ Stopped \/ Time
               \/ UNCHANGED vars
      <3>1. UNCHANGED cache
        BY <1>9, <2>1
        DEF Request, Submit, GetStatus, Cancel, GetMetrics, Cleanup, Start,
            Stop, Stopped, Time, Tick, CacheTick, vars, cacheVars
      <3> QED BY <1>4, <3>1
    <2> QED BY <1>8, <2>1 DEF Next
  <1> QED BY <1>7, <1>9

\* The cache of results never outgrows its limit, never holds a job twice and
\* only ever holds jobs whose results are complete, however completions,
\* reads, evictions and entries growing stale interleave (cache_result and
\* get_cached_result of ResultCacheManager, called by _process_job and
\* get_job_results).
THEOREM CachedResultsAreSound == Spec => []CacheIsSound
  <1>1. Init => CacheIsSound
    BY CacheMaxAssumption DEF Init, CacheIsSound
  <1>2. IInv /\ Whole /\ CacheIsSound /\ [Next]_vars => CacheIsSound'
    BY NextCacheIsSound DEF IInv
  <1> QED BY InvariantHolds, WholeHolds, <1>1, <1>2, PTL DEF Spec

------------------------------------------------------------------------------
(***************************************************************************)
(* completed_jobs.  A job has no results until the worker that has it      *)
(* stores them, in the step that counts it.                                *)
(***************************************************************************)
FreshResults ==
  /\ \A j \in Jobs : ~Submitted(j) => results[j] = NoResults
  /\ \A j \in Jobs, p \in Priority : Queued(j, p) => results[j] = NoResults
  /\ \A p \in Priority :
       job[p] # NoJob /\ pc[p] # "refresh" => results[job[p]] = NoResults

LEMMA InitFresh == Init => FreshResults
  BY DEF Init, FreshResults, Queued

\* Steps that write no results, submit or dequeue nothing and hand no job back.
LEMMA HandlingFresh ==
  ASSUME Typed, FreshResults, Handling, UNCHANGED results,
         \A p \in Priority :
           pc[p] = "refresh" /\ job'[p] # NoJob => pc'[p] = "refresh"
  PROVE  FreshResults'
  <1>1. ASSUME NEW j \in Jobs, ~Submitted(j)' PROVE results'[j] = NoResults
    <2>1. ~Submitted(j)
      BY <1>1 DEF Handling, EndsOrIsProcessed, Submitted, Terminal
    <2> QED BY <2>1 DEF FreshResults
  <1>2. \A j \in Jobs, p \in Priority : Queued(j, p)' => results'[j] = NoResults
    BY DEF Handling, Queued, FreshResults
  <1>3. ASSUME NEW p \in Priority, job'[p] # NoJob, pc'[p] # "refresh"
        PROVE  results'[job'[p]] = NoResults
    BY <1>3 DEF Handling, KeepsOrDrops, FreshResults
  <1> QED BY <1>1, <1>2, <1>3 DEF FreshResults

LEMMA SubmitFresh ==
  ASSUME Typed, Custody, FreshResults, NEW k \in Jobs, NEW r \in Offered,
         Submit(k, r)
  PROVE  FreshResults'
  <1>1. /\ r \in Priority /\ queue[r] \in Seq(Jobs)
        /\ UNCHANGED <<results, pc, job>>
        /\ results[k] = NoResults
        /\ queue' = queue \/ queue' = [queue EXCEPT ![r] = Append(queue[r], k)]
    BY ConstantsAssumption
    DEF Submit, workerVars, FreshResults, Typed, TypeOK
  <1>2. ASSUME NEW j \in Jobs, ~Submitted(j)' PROVE results'[j] = NoResults
    <2>1. ~Submitted(j)
      BY <1>2 DEF Submit, Submitted, Typed, TypeOK
    <2> QED BY <1>1, <2>1 DEF FreshResults
  <1>3. ASSUME NEW j \in Jobs, NEW p \in Priority, Queued(j, p)'
        PROVE  j = k \/ Queued(j, p)
    <2>1. CASE queue' = queue
      BY <1>3, <2>1 DEF Queued
    <2>2. CASE queue' = [queue EXCEPT ![r] = Append(queue[r], k)]
      <3>1. /\ Len(queue[r]) \in Nat
            /\ Len(Append(queue[r], k)) = Len(queue[r]) + 1
            /\ \A i \in 1..Len(queue[r]) : Append(queue[r], k)[i] = queue[r][i]
            /\ Append(queue[r], k)[Len(queue[r]) + 1] = k
        BY <1>1, LenProperties, AppendProperties
      <3>2. queue'[p] = IF p = r THEN Append(queue[r], k) ELSE queue[p]
        BY <1>1, <2>2 DEF Typed, TypeOK
      <3> QED BY <1>3, <3>1, <3>2 DEF Queued
    <2> QED BY <1>1, <2>1, <2>2
  <1> QED BY <1>1, <1>2, <1>3 DEF FreshResults

LEMMA TakeFresh ==
  ASSUME Typed, FreshResults, NEW r \in Priority, Take(r)
  PROVE  FreshResults'
  <1>1. /\ queue[r] \in Seq(Jobs) /\ queue[r] # << >>
        /\ Len(queue[r]) \in Nat \ {0}
    BY EmptySeq DEF Typed, TypeOK, Take
  <1>2. /\ Len(Tail(queue[r])) = Len(queue[r]) - 1
        /\ \A i \in 1..Len(Tail(queue[r])) : Tail(queue[r])[i] = queue[r][i + 1]
    BY <1>1, HeadTailProperties
  <1>3. /\ queue' = [queue EXCEPT ![r] = Tail(queue[r])]
        /\ job' = [job EXCEPT ![r] = queue[r][1]]
        /\ UNCHANGED <<status, results>>
        /\ \A p \in Priority : p # r => pc'[p] = pc[p]
    BY <1>1 DEF Take, Popped, Goto, jobVars, Typed, TypeOK
  <1>4. \A j \in Jobs, p \in Priority : Queued(j, p)' => Queued(j, p)
    BY <1>1, <1>2, <1>3 DEF Queued, Typed, TypeOK
  <1>5. queue[r][1] \in Jobs /\ Queued(queue[r][1], r)
    BY <1>1, ElementOfSeq DEF Queued
  <1>6. ASSUME NEW p \in Priority, job'[p] # NoJob, pc'[p] # "refresh"
        PROVE  results'[job'[p]] = NoResults
    BY <1>3, <1>5, <1>6 DEF FreshResults, Typed, TypeOK
  <1> QED BY <1>3, <1>4, <1>6 DEF FreshResults, Submitted

LEMMA CompleteFresh ==
  ASSUME Typed, Custody, FreshResults, NEW r \in Priority, Complete(r)
  PROVE  FreshResults'
  <1> DEFINE k == job[r]
  <1>1. /\ k \in Jobs /\ k # NoJob /\ Submitted(k) /\ pc[r] = "finish"
        /\ \A p \in Priority : ~Queued(k, p)
        /\ \A p \in Priority : p # r => job[p] # k
    BY OwnJob, ConstantsAssumption DEF Complete, Custody, OneHolder
  <1>2. /\ UNCHANGED queue
        /\ \A j \in Jobs : j # k => status'[j] = status[j]
        /\ \A j \in Jobs : j # k => results'[j] = results[j]
        /\ results' = results \/ pc'[r] = "refresh"
        /\ job'[r] \in {k, NoJob}
    BY DEF Complete, LookAndSet, Goto, NextJob, Typed, TypeOK
  <1>3. status'[k] # "none"
    BY <1>1 DEF Complete, LookAndSet, Seen, Submitted, Typed, TypeOK
  <1>4. \A p \in Priority : p # r => job'[p] = job[p] /\ pc'[p] = pc[p]
    BY DEF Complete, Goto, NextJob, Typed, TypeOK
  <1>5. ASSUME NEW j \in Jobs, ~Submitted(j)' PROVE results'[j] = NoResults
    BY <1>2, <1>3, <1>5 DEF Submitted, FreshResults
  <1>6. ASSUME NEW j \in Jobs, NEW p \in Priority, Queued(j, p)'
        PROVE  results'[j] = NoResults
    BY <1>1, <1>2, <1>6 DEF Queued, FreshResults
  <1>7. ASSUME NEW p \in Priority, job'[p] # NoJob, pc'[p] # "refresh"
        PROVE  results'[job'[p]] = NoResults
    <2>1. CASE p = r
      BY <1>1, <1>2, <1>7, <2>1 DEF FreshResults
    <2>2. CASE p # r
      <3>1. job[p] \in Jobs /\ job[p] # k
        BY <1>1, <1>4, <1>7, <2>2 DEF Typed, TypeOK
      <3> QED BY <1>2, <1>4, <1>7, <2>2, <3>1 DEF FreshResults
    <2> QED BY <2>1, <2>2
  <1> QED BY <1>5, <1>6, <1>7 DEF FreshResults

LEMMA NextFresh ==
  Typed /\ Custody /\ FreshResults /\ [Next]_vars => FreshResults'
  <1> SUFFICES ASSUME Typed, Custody, FreshResults, [Next]_vars
               PROVE  FreshResults'
    OBVIOUS
  <1>1. ASSUME NEW p \in Priority, WorkerStep(p), ~Take(p), ~Complete(p)
        PROVE  FreshResults'
    <2>1. Handling /\ UNCHANGED results
      BY <1>1, WorkerHandles, WorkerWrites
    <2>2. ASSUME NEW q \in Priority, pc[q] = "refresh", job'[q] # NoJob
          PROVE  pc'[q] = "refresh"
      <3>1. CASE q # p
        BY <1>1, <2>2, <3>1, WorkerAlone
      <3>2. CASE q = p
        <4>1. Refresh(p)
          BY <1>1, <2>2, <3>2
          DEF WorkerStep, Validate, Claim, Checkpoint, Predict, BatchDone,
              BadBatch, Answered, TimeoutExit, FailureExit, CancelWorker,
              Interruptible
        <4> QED BY <2>2, <3>2, <4>1 DEF Refresh, NextJob, Typed, TypeOK
      <3> QED BY <3>1, <3>2
    <2> QED BY <2>1, <2>2, HandlingFresh
  <1>2. CASE (\E j \in Jobs : GetStatus(j) \/ GetResults(j) \/ Cancel(j))
             \/ GetMetrics \/ Cleanup \/ Start \/ Stop \/ Stopped \/ Time
             \/ UNCHANGED vars
    <2>1. Handling /\ UNCHANGED results
      BY <1>2, RequestHandles, OthersHandle, OutsideResults DEF Request
    <2>2. \A q \in Priority : pc[q] = "refresh" => pc'[q] = "refresh"
      BY <1>2
      DEF GetStatus, GetResults, Cancel, GetMetrics, Cleanup, Start, Stop,
          Stopped, Time, Tick, CacheTick, vars, workerVars, Typed, WorkerOK
    <2> QED BY <2>1, <2>2, HandlingFresh
  <1> QED
    BY <1>1, <1>2, SubmitFresh, TakeFresh, CompleteFresh DEF Next, Request

\* What get_job and update_job_status do to completed_jobs.
LEMMA LookCompleted ==
  ASSUME TypeOK, NEW j
  PROVE  SeenMetrics(j)["completed"] = metrics["completed"]
  BY DEF SeenMetrics, Expire, Bump, One, LiveCounters, QueueCounter, TypeOK,
         Metrics, Counters

LEMMA UpdatedCompleted ==
  ASSUME NEW m \in Metrics, NEW old, NEW new
  PROVE  Updated(m, old, new)["completed"]
           = IF new = "completed" /\ Settles(old) THEN m["completed"] + 1
                                                  ELSE m["completed"]
  BY DEF Updated, Settles, Bump, One, QueueCounter, Metrics, Counters

LEMMA LookAndSetCompleted ==
  ASSUME TypeOK, NEW j, NEW new, LookAndSet(j, new)
  PROVE  metrics'["completed"]
           = IF new = "completed" /\ Seen(j) # "cancelled"
             THEN metrics["completed"] + 1 ELSE metrics["completed"]
  BY LookCompleted, UpdatedCompleted, SeenType DEF LookAndSet, Settles

\* The steps that do not count a completion.
LEMMA OthersCompleted ==
  ASSUME Typed, [Next]_vars, ~\E p \in Priority : Complete(p)
  PROVE  metrics'["completed"] = metrics["completed"] /\ results' = results
  <1> TypeOK
    BY DEF Typed
  <1>1. results' = results
    BY WorkerWrites, OutsideResults DEF Next
  <1>2. ASSUME NEW j \in Jobs, NEW p \in Offered, Submit(j, p)
        PROVE  metrics'["completed"] = metrics["completed"]
    <2>1. Created \in Metrics /\ Created["completed"] = metrics["completed"]
      BY BumpType DEF Created, Bump, One, TypeOK, Metrics, Counters
    <2>2. Updated(Created, "pending", "failed")["completed"]
            = metrics["completed"]
      BY <2>1, UpdatedCompleted
    <2> QED BY <1>2, <2>1, <2>2 DEF Submit
  <1>3. ASSUME NEW j \in Jobs, GetStatus(j) \/ GetResults(j)
        PROVE  metrics'["completed"] = metrics["completed"]
    BY <1>3, LookCompleted DEF GetStatus, GetResults, Look
  <1>4. ASSUME NEW j \in Jobs, Cancel(j)
        PROVE  metrics'["completed"] = metrics["completed"]
    BY <1>4
    DEF Cancel, Bump, One, LiveCounters, QueueCounter, TypeOK, Metrics,
        Counters
  <1>5. CASE GetMetrics \/ Cleanup
    BY <1>5 DEF GetMetrics, Cleanup, TypeOK, Metrics, Counters
  <1>6. CASE Start \/ Stop \/ Stopped \/ Time \/ UNCHANGED vars
    BY <1>6 DEF Start, Stop, Stopped, Time, Tick, CacheTick, vars, jobVars
  <1>7. ASSUME NEW p \in Priority, WorkerStep(p)
        PROVE  metrics'["completed"] = metrics["completed"]
    <2>1. CASE Claim(p) \/ TimeoutExit(p) \/ FailureExit(p)
      BY <2>1, LookAndSetCompleted DEF Claim, TimeoutExit, FailureExit
    <2>2. CASE Validate(p) \/ Checkpoint(p) \/ Refresh(p)
      BY <2>2, LookCompleted DEF Validate, Checkpoint, Refresh, Look
    <2>3. CASE BatchDone(p)
      BY <2>3, UpdatedCompleted DEF BatchDone, TypeOK
    <2>4. CASE Take(p) \/ Predict(p) \/ BadBatch(p) \/ CancelWorker(p)
      BY <2>4 DEF Take, Predict, BadBatch, CancelWorker, jobVars
    <2> QED BY <1>7, <2>1, <2>2, <2>3, <2>4 DEF WorkerStep
  <1> QED
    BY <1>1, <1>2, <1>3, <1>4, <1>5, <1>6, <1>7 DEF Next, Request

LEMMA NextCompleted ==
  Typed /\ Custody /\ Whole /\ FreshResults /\ CompletedCountsResults
    /\ [Next]_vars => CompletedCountsResults'
  <1> SUFFICES ASSUME Typed, Custody, Whole, FreshResults,
                      CompletedCountsResults, [Next]_vars
               PROVE  CompletedCountsResults'
    OBVIOUS
  <1> TypeOK
    BY DEF Typed
  <1> DEFINE R == {j \in Jobs : results[j] # NoResults}
  <1>1. ASSUME NEW p \in Priority, Complete(p), Seen(job[p]) # "cancelled"
        PROVE  CompletedCountsResults'
    <2> DEFINE k == job[p]
    <2>1. k \in Jobs /\ pc[p] = "finish" /\ k # NoJob
      BY <1>1, OwnJob, ConstantsAssumption DEF Complete
    <2>2. results[k] = NoResults
      BY <2>1 DEF FreshResults
    <2>3. results' = [results EXCEPT ![k] = done[p]] /\ done[p] # NoResults
      BY <1>1 DEF Complete, TypeOK, NoResults
    <2>4. {j \in Jobs : results'[j] # NoResults} = R \union {k}
      BY <2>1, <2>3 DEF TypeOK
    <2>5. k \notin R
      BY <2>2
    <2>6. IsFiniteSet(R)
      BY FS_Subset, ConstantsAssumption
    <2>7. Cardinality(R \union {k}) = Cardinality(R) + 1
      BY <2>5, <2>6, FS_AddElement
    <2>8. metrics'["completed"] = metrics["completed"] + 1
      BY <1>1, LookAndSetCompleted DEF Complete
    <2> QED BY <2>4, <2>7, <2>8 DEF CompletedCountsResults
  <1>2. ASSUME metrics'["completed"] = metrics["completed"], results' = results
        PROVE  CompletedCountsResults'
    BY <1>2 DEF CompletedCountsResults
  <1>3. ASSUME NEW p \in Priority, Complete(p), Seen(job[p]) = "cancelled"
        PROVE  CompletedCountsResults'
    BY <1>2, <1>3 DEF Complete, LookAndSet
  <1> QED BY <1>1, <1>2, <1>3, OthersCompleted

\* completed_jobs is the number of jobs that have results, each counted once:
\* update_job_status counts by the status it finds, which cancellations,
\* expiries and the clean-up change behind the worker's back.
THEOREM CompletionsAreCounted == Spec => []CompletedCountsResults
  <1>1. Init => CompletedCountsResults
    <2> SUFFICES ASSUME Init PROVE CompletedCountsResults
      OBVIOUS
    <2>1. {j \in Jobs : results[j] # NoResults} = {}
      BY DEF Init
    <2> QED BY <2>1, FS_EmptySet DEF Init, CompletedCountsResults, Counters
  <1>2. IInv /\ Whole /\ FreshResults /\ CompletedCountsResults /\ [Next]_vars
          => FreshResults' /\ CompletedCountsResults'
    BY NextFresh, NextCompleted DEF IInv
  <1> QED
    BY InvariantHolds, WholeHolds, InitFresh, <1>1, <1>2, PTL DEF Spec

------------------------------------------------------------------------------
(***************************************************************************)
(* Who looks after a PROCESSING job.  A worker lets go of one only when    *)
(* its cancellation finds it in a prediction that has yielded the loop,    *)
(* so that stop() was called: the clauses tie the pending cancellations    *)
(* and the restarts to the state of the service.                           *)
(***************************************************************************)
MindedOK(p) ==
  /\ stopping[p] => service = "stopping" /\ pc[p] \in {"idle", "taken", "predict"}
  /\ service = "running" => pc[p] # "off"
  /\ pc[p] = "predict" /\ ~Suspends => loop = p
  /\ pc[p] = "refresh" => status[job[p]] = "completed"

Minded ==
  /\ service # "stopped" => starts >= 1
  /\ \A p \in Priority : MindedOK(p)

Stray(j) == status[j] = "processing" /\ ~InProcess(j)

LeftByStop ==
  \A j \in Jobs : Stray(j) =>
    Suspends /\ starts >= 1 /\ (service # "running" \/ starts > 1)

LEMMA InitMinded == Init => Minded /\ LeftByStop
  BY DEF Init, Minded, MindedOK, LeftByStop, Stray

LEMMA WorkerMinded ==
  ASSUME Typed, Minded, NEW p \in Priority, WorkerStep(p)
  PROVE  Minded'
  <1> TypeOK
    BY DEF Typed
  <1>1. UNCHANGED <<service, starts>>
    BY WorkerFrame
  <1>2. ASSUME NEW q \in Priority, q # p PROVE MindedOK(q)'
    <2>1. /\ pc'[q] = pc[q] /\ stopping'[q] = stopping[q]
          /\ loop \in {p, Free}
      BY <1>2, WorkerAlone
    <2>2. pc[q] # "refresh" /\ ~(pc[q] = "predict" /\ ~Suspends)
      BY <1>2, <2>1, FreeIsNoPriority
      DEF Minded, MindedOK, Typed, WorkerOK, Running
    <2> QED BY <1>1, <2>1, <2>2 DEF Minded, MindedOK
  <1>3. MindedOK(p)'
    <2>0. MindedOK(p) /\ pc[p] \in PC /\ stopping[p] \in BOOLEAN
      BY DEF Minded, TypeOK
    <2>1. CASE Take(p)
      BY <2>0, <2>1 DEF Take, Goto, MindedOK, TypeOK, serviceVars
    <2>2. CASE Validate(p)
      BY <2>0, <2>2 DEF Validate, Goto, NextJob, MindedOK, TypeOK, serviceVars
    <2>3. CASE Claim(p) \/ Checkpoint(p)
      BY <2>0, <2>3
      DEF Claim, Checkpoint, Goto, NextJob, MindedOK, TypeOK, serviceVars
    <2>4. CASE Predict(p)
      BY <2>0, <2>4 DEF Predict, Goto, MindedOK, TypeOK, serviceVars
    <2>5. CASE BatchDone(p) \/ BadBatch(p)
      BY <2>0, <2>5
      DEF BatchDone, BadBatch, Answered, Goto, MindedOK, TypeOK, serviceVars
    <2>6. CASE Complete(p)
      <3>1. job[p] \in Jobs
        BY <2>6 DEF Complete, TypeOK, Typed, WorkerOK
      <3> QED
        BY <2>0, <2>6, <3>1
        DEF Complete, LookAndSet, Goto, NextJob, MindedOK, TypeOK, serviceVars
    <2>7. CASE Refresh(p) \/ TimeoutExit(p) \/ FailureExit(p)
      BY <2>0, <2>7
      DEF Refresh, TimeoutExit, FailureExit, Goto, NextJob, MindedOK, TypeOK,
          serviceVars
    <2>8. CASE CancelWorker(p)
      BY <2>0, <2>8 DEF CancelWorker, Goto, MindedOK, TypeOK, serviceVars
    <2> QED
      BY <2>1, <2>2, <2>3, <2>4, <2>5, <2>6, <2>7, <2>8 DEF WorkerStep
  <1> QED BY <1>1, <1>2, <1>3 DEF Minded

LEMMA NextMinded == Typed /\ Minded /\ [Next]_vars => Minded'
  <1> SUFFICES ASSUME Typed, Minded, [Next]_vars PROVE Minded'
    OBVIOUS
  <1> TypeOK
    BY DEF Typed
  <1>1. CASE Request \/ Cleanup
    <2>1. UNCHANGED <<pc, job, stopping, loop, service, starts>> /\ loop = Free
      BY <1>1
      DEF Request, Submit, GetStatus, GetResults, Cancel, GetMetrics, Cleanup,
          workerVars, serviceVars
    <2>2. \A p \in Priority : pc[p] # "refresh"
      BY <2>1, FreeIsNoPriority DEF Typed, WorkerOK, Running
    <2> QED BY <2>1, <2>2 DEF Minded, MindedOK
  <1>2. CASE Start
    BY <1>2
    DEF Start, StartWorkers, Minded, MindedOK, TypeOK
  <1>3. CASE Stop
    <2>1. \A p \in Priority : pc[p] \in {"idle", "taken", "predict"}
      BY <1>3, FreeIsNoPriority
      DEF Stop, Minded, MindedOK, Typed, WorkerOK, TypeOK, PC, Running
    <2> QED
      BY <1>3, <2>1 DEF Stop, StopWorkers, Minded, MindedOK, jobVars
  <1>4. CASE Stopped
    <2>1. \A p \in Priority : pc[p] = "off" /\ ~stopping[p]
      BY <1>4 DEF Stopped, Gathered, Minded, MindedOK, TypeOK
    <2> QED BY <1>4, <2>1 DEF Stopped, Minded, MindedOK, workerVars
  <1>5. CASE Time \/ UNCHANGED vars
    BY <1>5
    DEF Time, Tick, CacheTick, vars, jobVars, workerVars, serviceVars, Minded,
        MindedOK
  <1> QED BY <1>1, <1>2, <1>3, <1>4, <1>5, WorkerMinded DEF Next

\* A worker that drops a PROCESSING job was cancelled by stop().
LEMMA DroppedByStop ==
  ASSUME Typed, Custody, Minded, NEW p \in Priority, WorkerStep(p),
         pc[p] \notin {"off", "idle", "taken"}, job'[p] # job[p],
         status'[job[p]] = "processing"
  PROVE  Suspends /\ service = "stopping" /\ starts >= 1
  <1> TypeOK
    BY DEF Typed
  <1>1. job[p] \in Jobs /\ MindedOK(p)
    BY OwnJob DEF Minded
  <1>2. CancelWorker(p)
    <2>1. ~Take(p) /\ ~Validate(p)
      BY DEF Take, Validate
    <2>2. ~Claim(p) /\ ~Complete(p)
      BY <1>1 DEF Claim, Complete, LookAndSet, Seen, TypeOK
    <2>3. ~Checkpoint(p) /\ ~Predict(p) /\ ~BatchDone(p) /\ ~BadBatch(p)
      BY DEF Checkpoint, Predict, BatchDone, BadBatch
    <2>4. ~Refresh(p)
      BY <1>1 DEF Refresh, Look, Seen, MindedOK, TypeOK
    <2>5. ~TimeoutExit(p) /\ ~FailureExit(p)
      BY <1>1 DEF TimeoutExit, FailureExit, LookAndSet, Seen, TypeOK
    <2> QED BY <2>1, <2>2, <2>3, <2>4, <2>5 DEF WorkerStep
  <1> QED
    BY <1>1, <1>2, FreeIsNoPriority
    DEF CancelWorker, Interruptible, Minded, MindedOK

\* A job that has gone stray was let go of, or it was before.
LEMMA NextLeftByStop ==
  Typed /\ Custody /\ Minded /\ LeftByStop /\ [Next]_vars => LeftByStop'
  <1> SUFFICES ASSUME Typed, Custody, Minded, LeftByStop, [Next]_vars,
                      NEW j \in Jobs, Stray(j)'
               PROVE  /\ Suspends /\ starts' >= 1
                      /\ service' # "running" \/ starts' > 1
    BY DEF LeftByStop
  <1> TypeOK
    BY DEF Typed
  <1>0. starts \in Nat
    BY ConstantsAssumption DEF TypeOK
  <1>1. CASE Stray(j)
    <2>1. /\ Suspends /\ starts >= 1
          /\ service # "running" \/ starts > 1
      BY <1>1 DEF LeftByStop
    <2>2. \/ service' = service /\ starts' = starts
          \/ starts' = starts + 1
          \/ service' # "running" /\ starts' = starts
      <3>1. CASE \E p \in Priority : WorkerStep(p)
        BY <3>1, WorkerFrame
      <3>2. CASE ~\E p \in Priority : WorkerStep(p)
        BY <3>2
        DEF Next, Request, Submit, GetStatus, GetResults, Cancel, GetMetrics,
            Cleanup, Start, Stop, Stopped, Time, Tick, CacheTick, vars,
            serviceVars
      <3> QED BY <3>1, <3>2
    <2> QED BY <1>0, <2>1, <2>2
  <1>2. CASE ~Stray(j)
    <2>1. InProcess(j) /\ Handling
      <3>1. ASSUME NEW k \in Jobs, NEW r \in Offered, Submit(k, r) PROVE FALSE
        BY <1>2, <3>1 DEF Submit, Stray, InProcess, workerVars, TypeOK
      <3>2. ASSUME NEW r \in Priority, Take(r) PROVE FALSE
        <4>1. /\ UNCHANGED status
              /\ \A q \in Priority : q # r => job'[q] = job[q] /\ pc'[q] = pc[q]
              /\ job[r] = NoJob
          BY <3>2 DEF Take, Goto, jobVars, TypeOK, Typed, WorkerOK
        <4> QED
          BY <1>2, <4>1, ConstantsAssumption DEF Stray, InProcess
      <3>3. Handling
        BY <3>1, <3>2, RequestHandles, WorkerHandles, OthersHandle
        DEF Next, Request, WorkerStep
      <3> QED BY <1>2, <3>3 DEF Handling, EndsOrIsProcessed, Stray
    <2>2. PICK p \in Priority : job[p] = j /\ pc[p] # "taken"
      BY <2>1 DEF InProcess
    <2>3. job'[p] # j
      BY <2>1, <2>2, ConstantsAssumption DEF Handling, KeepsOrDrops, Stray, InProcess
    <2>4. WorkerStep(p)
      <3>1. \A q \in Priority : WorkerStep(q) => q = p
        BY <2>2, <2>3, WorkerAlone
      <3>2. CASE ~\E q \in Priority : WorkerStep(q)
        BY <2>2, <2>3, <3>2, OutsideResults DEF Next
      <3> QED BY <3>1, <3>2
    <2>5. pc[p] \notin {"off", "idle", "taken"}
      BY <2>2, ConstantsAssumption DEF Typed, WorkerOK
    <2>6. Suspends /\ service = "stopping" /\ starts >= 1
      BY <2>2, <2>3, <2>4, <2>5, DroppedByStop DEF Stray
    <2> QED BY <2>4, <2>6, WorkerFrame
  <1> QED BY <1>1, <1>2

LEMMA MindedHolds == Spec => [](Minded /\ LeftByStop)
  <1>1. IInv /\ Minded /\ LeftByStop /\ [Next]_vars => Minded' /\ LeftByStop'
    BY NextMinded, NextLeftByStop DEF IInv
  <1> QED BY InvariantHolds, InitMinded, <1>1, PTL DEF Spec

\* A job is PROCESSING only in the hands of a worker, unless a stop() came
\* upon its prediction while that had yielded the event loop; it stays so
\* over a restart (stop_workers cancels the tasks, _process_job has no handler
\* for CancelledError).
THEOREM ProcessingJobsAreHeld == Spec => []ProcessingIsHeld
  <1>1. Minded /\ LeftByStop => ProcessingIsHeld
    BY DEF LeftByStop, Stray, ProcessingIsHeld
  <1> QED BY MindedHolds, <1>1, PTL

------------------------------------------------------------------------------
(***************************************************************************)
(* The processor of the tree never suspends: the worker that accepted a    *)
(* job keeps the event loop until it is done with it, and only time passes *)
(* meanwhile.  So it finds the status it wrote.                            *)
(***************************************************************************)
HeldStatus(p) ==
  /\ pc[p] = "claim" => status[job[p]] = "pending"
  /\ pc[p] \in {"checkpoint", "predict", "finish", "failure"} =>
       status[job[p]] = "processing"
  /\ pc[p] = "deadline" => \/ status[job[p]] = "processing"
                           \/ status[job[p]] = "expired" /\ Overdue(job[p])
  /\ pc[p] = "timeout" => /\ status[job[p]] \in {"processing", "expired"}
                          /\ clock[job[p]] # "before"
  /\ pc[p] = "failure" => Malformed

Undisturbed == ~Suspends => \A p \in Priority : HeldStatus(p)

LEMMA InitUndisturbed == Init => Undisturbed
  BY DEF Init, Undisturbed, HeldStatus

\* Who has no job in process has nothing to find.
LEMMA IdleStatus ==
  ASSUME NEW p \in Priority, pc[p] \in Suspended
  PROVE  HeldStatus(p)
  BY DEF HeldStatus, Suspended

\* Without suspension a worker without the loop has no job in process.
LEMMA LoopIsKept ==
  ASSUME Typed, Minded, ~Suspends, NEW p \in Priority, loop # p
  PROVE  pc[p] \in Suspended
  BY DEF Typed, TypeOK, WorkerOK, Minded, MindedOK, Suspended, Running, PC

LEMMA WorkerUndisturbed ==
  ASSUME Typed, Custody, Minded, ~Suspends, NEW p \in Priority, HeldStatus(p),
         WorkerStep(p)
  PROVE  HeldStatus(p)'
  <1> TypeOK
    BY DEF Typed
  <1>1. pc[p] \notin {"off", "idle"} => job[p] \in Jobs
    BY OwnJob
  <1>2. CASE Take(p) \/ CancelWorker(p)
    BY <1>2 DEF Take, CancelWorker, Goto, HeldStatus, TypeOK
  <1>3. CASE Validate(p)
    <2>1. status[job[p]] \in Untouched
      BY <1>1, <1>3 DEF Validate, Custody, Known, Waiting
    <2> QED
      BY <1>3, <2>1
      DEF Validate, Goto, NextJob, HeldStatus, TypeOK, Untouched, Refused
  <1>4. CASE Claim(p)
    BY <1>1, <1>4 DEF Claim, LookAndSet, Goto, NextJob, HeldStatus, TypeOK
  <1>5. CASE Checkpoint(p)
    BY <1>1, <1>5
    DEF Checkpoint, Look, Seen, Overdue, Goto, HeldStatus, TypeOK
  <1>6. CASE Predict(p)
    BY <1>1, <1>6
    DEF Predict, TimedOut, Overdue, Goto, HeldStatus, TypeOK, jobVars
  <1>7. CASE BatchDone(p)
    BY <1>1, <1>7 DEF BatchDone, Answered, Progressed, Goto, HeldStatus, TypeOK
  <1>8. CASE BadBatch(p)
    BY <1>1, <1>8 DEF BadBatch, Answered, Goto, HeldStatus, TypeOK, jobVars
  <1>9. CASE Complete(p) \/ Refresh(p) \/ TimeoutExit(p) \/ FailureExit(p)
    BY <1>9
    DEF Complete, Refresh, TimeoutExit, FailureExit, Goto, NextJob, HeldStatus,
        TypeOK
  <1> QED
    BY <1>2, <1>3, <1>4, <1>5, <1>6, <1>7, <1>8, <1>9, WorkerStep(p)
    DEF WorkerStep

LEMMA NextUndisturbed ==
  Typed /\ Custody /\ Minded /\ Undisturbed /\ [Next]_vars => Undisturbed'
  <1> SUFFICES ASSUME Typed, Custody, Minded, Undisturbed, [Next]_vars,
                      ~Suspends, NEW p \in Priority
               PROVE  HeldStatus(p)'
    BY DEF Undisturbed
  <1>0. HeldStatus(p)
    BY DEF Undisturbed
  <1>1. ASSUME pc[p] \in Suspended, pc'[p] = pc[p] PROVE HeldStatus(p)'
    BY <1>1, IdleStatus DEF HeldStatus, Suspended
  <1>2. ASSUME NEW q \in Priority, WorkerStep(q) PROVE HeldStatus(p)'
    <2>1. CASE q = p
      BY <1>0, <1>2, <2>1, WorkerUndisturbed
    <2>2. CASE q # p
      <3>1. pc'[p] = pc[p] /\ loop # p
        BY <1>2, <2>2, WorkerAlone, FreeIsNoPriority
      <3> QED BY <1>1, <3>1, LoopIsKept
    <2> QED BY <2>1, <2>2
  <1>3. CASE Request \/ Cleanup \/ Stop \/ Stopped
    <2>1. pc' = pc /\ loop = Free
      BY <1>3
      DEF Request, Submit, GetStatus, GetResults, Cancel, GetMetrics, Cleanup,
          Stop, Stopped, workerVars
    <2> QED BY <1>1, <2>1, LoopIsKept, FreeIsNoPriority
  <1>4. CASE Start
    BY <1>4 DEF Start, StartWorkers, HeldStatus
  <1>5. CASE Time \/ UNCHANGED vars
    <2>1. UNCHANGED <<pc, job, status>>
      BY <1>5
      DEF Time, Tick, CacheTick, vars, jobVars, workerVars
    <2>2. \A j \in Jobs : /\ clock[j] = "past" => clock'[j] = "past"
                          /\ clock[j] # "before" => clock'[j] # "before"
      BY <1>5
      DEF Time, Tick, CacheTick, vars, Typed, TypeOK, Clock
    <2>3. pc[p] \in {"deadline", "timeout"} => job[p] \in Jobs
      BY DEF Typed, TypeOK, WorkerOK
    <2> QED BY <1>0, <2>1, <2>2, <2>3 DEF HeldStatus, Overdue
  <1> QED BY <1>2, <1>3, <1>4, <1>5 DEF Next

------------------------------------------------------------------------------
(***************************************************************************)
(* Step by step, jobs follow JobLifecycle.                                 *)
(***************************************************************************)
Late == {j \in Jobs : clock[j] # "before"}
LifecycleStep == [Lifecycle!Next]_(Lifecycle!lifecycleVars)

\* A step JobLifecycle does not see.
LEMMA Stutters ==
  ASSUME UNCHANGED <<status, clock, results>>
  PROVE  LifecycleStep
  BY DEF LifecycleStep, Lifecycle!lifecycleVars

\* Jobs past their deadline expire.
LEMMA Expires ==
  ASSUME NEW S \in SUBSET Late, UNCHANGED <<clock, results>>,
         status' = [j \in Jobs |-> IF j \in S THEN "expired" ELSE status[j]]
  PROVE  LifecycleStep
  <1>1. Lifecycle!Expire(S)
    BY DEF Lifecycle!Expire, Late
  <1>2. S \in SUBSET Jobs
    BY DEF Late
  <1> QED BY <1>1, <1>2 DEF LifecycleStep, Lifecycle!Next

\* get_job, which only expires a job past its deadline.
LEMMA LookExpires ==
  ASSUME TypeOK, NEW k \in Jobs, Look(k), UNCHANGED <<clock, results>>
  PROVE  LifecycleStep
  <1>1. CASE Overdue(k)
    <2>1. {k} \in SUBSET Late
      BY <1>1 DEF Overdue, Late
    <2>2. status' = [j \in Jobs |-> IF j \in {k} THEN "expired" ELSE status[j]]
      BY <1>1 DEF Look, Seen, TypeOK
    <2> QED BY <2>1, <2>2, Expires
  <1>2. CASE ~Overdue(k)
    <2>1. UNCHANGED status
      BY <1>2 DEF Look, Seen, TypeOK
    <2> QED BY <2>1, Stutters
  <1> QED BY <1>1, <1>2

\* While a handler runs, no job is PROCESSING.
LEMMA NoneInProcess ==
  ASSUME Typed, Minded, LeftByStop, ~Suspends, loop = Free, NEW j \in Jobs
  PROVE  status[j] # "processing"
  <1> SUFFICES ASSUME status[j] = "processing" PROVE FALSE
    OBVIOUS
  <1>1. PICK p \in Priority : job[p] = j /\ pc[p] # "taken"
    BY DEF LeftByStop, Stray, InProcess
  <1>2. pc[p] \notin Suspended
    BY <1>1, ConstantsAssumption DEF Typed, WorkerOK, Suspended
  <1> QED BY <1>2, LoopIsKept, FreeIsNoPriority

LEMMA OutsideFollows ==
  ASSUME Typed, Minded, LeftByStop, ~Suspends,
         Request \/ Cleanup \/ Start \/ Stop \/ Stopped \/ Time
                 \/ UNCHANGED vars
  PROVE  LifecycleStep
  <1> TypeOK
    BY DEF Typed
  <1>1. ASSUME NEW j \in Jobs, NEW p \in Offered, Submit(j, p)
        PROVE  LifecycleStep
    <2>1. Lifecycle!Accept(j) \/ Lifecycle!Reject(j)
      BY <1>1
      DEF Submit, Submitted, Lifecycle!Accept, Lifecycle!Reject, Lifecycle!Move
    <2> QED BY <2>1 DEF LifecycleStep, Lifecycle!Next
  <1>2. ASSUME NEW j \in Jobs, GetStatus(j) \/ GetResults(j)
        PROVE  LifecycleStep
    BY <1>2, LookExpires DEF GetStatus, GetResults
  <1>3. ASSUME NEW j \in Jobs, Cancel(j) PROVE LifecycleStep
    <2>1. status[j] = "pending"
      BY <1>3, NoneInProcess DEF Cancel, Live
    <2>2. Lifecycle!Cancel(j)
      BY <1>3, <2>1 DEF Cancel, Lifecycle!Cancel, Lifecycle!Move
    <2> QED BY <2>2 DEF LifecycleStep, Lifecycle!Next
  <1>4. CASE Cleanup
    <2> DEFINE old == {j \in Jobs : Overdue(j) /\ status[j] \in Cleaned}
    <2>1. old \in SUBSET Late
      BY DEF Overdue, Late
    <2>2. /\ status' = [j \in Jobs |-> IF j \in old THEN "expired" ELSE status[j]]
          /\ UNCHANGED <<clock, results>>
      BY <1>4 DEF Cleanup
    <2> HIDE DEF old
    <2> QED BY <2>1, <2>2, Expires
  <1>5. ASSUME NEW j \in Jobs, Tick(j) PROVE LifecycleStep
    <2>1. status[j] # "none" /\ UNCHANGED <<status, results>>
      BY <1>5 DEF Tick, Submitted, jobVars
    <2>2. Late' = Late \union {j}
      BY <1>5 DEF Tick, Late, TypeOK
    <2>3. Lifecycle!DeadlineReached(j)
      BY <2>1, <2>2 DEF Lifecycle!DeadlineReached, Late
    <2> QED BY <2>3 DEF LifecycleStep, Lifecycle!Next
  <1>6. CASE GetMetrics \/ Start \/ Stop \/ Stopped \/ CacheTick
             \/ UNCHANGED vars
    BY <1>6, Stutters
    DEF GetMetrics, Start, Stop, Stopped, CacheTick, vars, jobVars
  <1> QED BY <1>1, <1>2, <1>3, <1>4, <1>5, <1>6 DEF Request, Time

LEMMA WorkerFollows ==
  ASSUME Typed, Custody, Whole, Undisturbed, ~Suspends, ~Malformed,
         NEW p \in Priority, WorkerStep(p)
  PROVE  LifecycleStep
  <1> TypeOK
    BY DEF Typed
  <1>1. /\ pc[p] \notin {"off", "idle"} => job[p] \in Jobs
        /\ HeldStatus(p) /\ UNCHANGED clock
    BY OwnJob, WorkerFrame DEF Undisturbed
  <1>2. CASE Take(p) \/ Predict(p) \/ CancelWorker(p)
    BY <1>2, Stutters DEF Take, Predict, CancelWorker, jobVars
  <1>3. CASE Validate(p)
    BY <1>1, <1>3, Stutters, LookExpires DEF Validate
  <1>4. CASE Claim(p)
    <2>1. /\ job[p] \in Jobs /\ status[job[p]] = "pending"
          /\ status' = [status EXCEPT ![job[p]] = "processing"]
          /\ UNCHANGED <<clock, results>>
      BY <1>1, <1>4 DEF Claim, LookAndSet, Seen, HeldStatus
    <2>2. Lifecycle!Begin(job[p])
      BY <2>1 DEF Lifecycle!Begin, Lifecycle!Move
    <2> QED BY <2>1, <2>2 DEF LifecycleStep, Lifecycle!Next
  <1>5. CASE Checkpoint(p) \/ Refresh(p)
    BY <1>1, <1>5, LookExpires DEF Checkpoint, Refresh
  <1>6. CASE BatchDone(p)
    <2>1. UNCHANGED <<status, clock, results>>
      BY <1>1, <1>6 DEF BatchDone, Answered, Progressed, HeldStatus, TypeOK
    <2> QED BY <2>1, Stutters
  <1>7. CASE Complete(p)
    <2>1. /\ job[p] \in Jobs /\ status[job[p]] = "processing"
          /\ status' = [status EXCEPT ![job[p]] = "completed"]
          /\ results' = [results EXCEPT ![job[p]] = done[p]]
          /\ UNCHANGED clock
      BY <1>1, <1>7 DEF Complete, LookAndSet, Seen, HeldStatus
    <2>2. done[p] = EveryBatch(job[p])
      BY <1>7 DEF Complete, Whole, Progress, ProgressOK, EveryBatch
    <2>3. Lifecycle!Finish(job[p])
      BY <2>1, <2>2 DEF Lifecycle!Finish, Lifecycle!Move
    <2> QED BY <2>1, <2>3 DEF LifecycleStep, Lifecycle!Next
  <1>8. CASE TimeoutExit(p)
    <2>1. /\ job[p] \in Jobs /\ job[p] \in Late
          /\ status' = [status EXCEPT ![job[p]] = "expired"]
          /\ UNCHANGED <<clock, results>>
      BY <1>1, <1>8 DEF TimeoutExit, LookAndSet, Seen, HeldStatus, Late
    <2>2. status' = [j \in Jobs |-> IF j \in {job[p]} THEN "expired"
                                                      ELSE status[j]]
      BY <2>1 DEF TypeOK
    <2>3. {job[p]} \in SUBSET Late
      BY <2>1
    <2> QED BY <2>1, <2>2, <2>3, Expires
  <1>9. ~BadBatch(p) /\ ~FailureExit(p)
    BY <1>1 DEF BadBatch, FailureExit, HeldStatus
  <1> QED
    BY <1>2, <1>3, <1>4, <1>5, <1>6, <1>7, <1>8, <1>9, WorkerStep(p)
    DEF WorkerStep

LEMMA UndisturbedHolds == Spec => []Undisturbed
  <1>1. IInv /\ Minded /\ Undisturbed /\ [Next]_vars => Undisturbed'
    BY NextUndisturbed DEF IInv
  <1> QED BY InvariantHolds, MindedHolds, InitUndisturbed, <1>1, PTL DEF Spec

\* With the processor of the tree, which computes without suspending and
\* answers well-formed lists, the service implements JobLifecycle: no
\* interleaving of requests, workers, clean-up, restarts and time makes a job
\* leave its lifecycle (BatchJobStatus, _process_job).
THEOREM JobsFollowTheLifecycle ==
  ~Suspends /\ ~Malformed => (Spec => FollowsLifecycle)
  <1> SUFFICES ASSUME ~Suspends, ~Malformed PROVE Spec => FollowsLifecycle
    OBVIOUS
  <1>1. Init => Lifecycle!Init
    <2> SUFFICES ASSUME Init PROVE Lifecycle!Init
      OBVIOUS
    <2> QED BY DEF Init, Lifecycle!Init
  <1>2. IInv /\ Whole /\ Minded /\ LeftByStop /\ Undisturbed /\ [Next]_vars
          => [Lifecycle!Next]_(Lifecycle!lifecycleVars)
    BY OutsideFollows, WorkerFollows DEF IInv, Next, LifecycleStep
  <1> QED
    BY <1>1, <1>2, InvariantHolds, WholeHolds, MindedHolds, UndisturbedHolds,
       PTL
    DEF Spec, FollowsLifecycle, Lifecycle!Spec

------------------------------------------------------------------------------
(***************************************************************************)
(* The metrics.  As long as no deadline is reached, every step moves one   *)
(* job from one status to another, or none, and moves each counter by what *)
(* that changes in the number of jobs it stands for.                       *)
(***************************************************************************)
Tracked == {"total", "active", "completed", "failed"}

Counted(c) ==
  CASE c = "total" -> Status \ {"none"}
    [] c = "active" -> Live
    [] c = "completed" -> {"completed"}
    [] c = "failed" -> {"failed"}

Having(S) == {j \in Jobs : status[j] \in S}
Number(S) == Cardinality(Having(S))

Accounted == \A c \in Tracked : metrics[c] = Number(Counted(c))
InTime == \A j \in Jobs : clock[j] = "before"

Moves(j, to) ==
  /\ status' = [status EXCEPT ![j] = to]
  /\ \A c \in Tracked :
       metrics'[c] = metrics[c] + One(to, Counted(c))
                                - One(status[j], Counted(c))

Rests ==
  /\ UNCHANGED status
  /\ \A c \in Tracked : metrics'[c] = metrics[c]

LEMMA CountsMeaning == CountsAreExact <=> (InTime => Accounted)
  BY DEF CountsAreExact, InTime, Accounted, Tracked, Counted, Number, Having

LEMMA NumberMoves ==
  ASSUME status \in [Jobs -> Status], NEW j \in Jobs, NEW to,
         status' = [status EXCEPT ![j] = to], NEW S
  PROVE  /\ Number(S) \in Nat
         /\ Number(S)' = Number(S) + One(to, S) - One(status[j], S)
  <1> DEFINE A == Having(S)
             B == {k \in Jobs : status'[k] \in S}
  <1>1. IsFiniteSet(A) /\ IsFiniteSet(B)
    BY FS_Subset, ConstantsAssumption DEF Having
  <1>2. A \ {j} = B \ {j}
    BY DEF Having
  <1>3. Cardinality(A) \in Nat /\ Cardinality(B) \in Nat
    BY <1>1, FS_CardinalityType
  <1>4. /\ Cardinality(A \ {j})
             = IF j \in A THEN Cardinality(A) - 1 ELSE Cardinality(A)
        /\ Cardinality(B \ {j})
             = IF j \in B THEN Cardinality(B) - 1 ELSE Cardinality(B)
    BY <1>1, FS_RemoveElement
  <1>5. (j \in A <=> status[j] \in S) /\ (j \in B <=> to \in S)
    BY DEF Having
  <1>6. Number(S) = Cardinality(A) /\ Number(S)' = Cardinality(B)
    BY DEF Number, Having
  <1> DEFINE rest == Cardinality(A \ {j})
  <1>7. Cardinality(A) = rest + One(status[j], S)
    <2> HIDE DEF A
    <2> QED BY <1>3, <1>4, <1>5 DEF One
  <1>8. Cardinality(B) = rest + One(to, S)
    <2> HIDE DEF A, B
    <2> QED BY <1>2, <1>3, <1>4, <1>5 DEF One
  <1>9. rest \in Int /\ One(to, S) \in Int /\ One(status[j], S) \in Int
    <2> HIDE DEF A
    <2> QED BY <1>3, <1>4 DEF One
  <1> HIDE DEF A, B, rest
  <1> QED BY <1>3, <1>6, <1>7, <1>8, <1>9

LEMMA MovesAccounted ==
  ASSUME TypeOK, Accounted, NEW j \in Jobs, NEW to, Moves(j, to)
  PROVE  Accounted'
  <1> SUFFICES ASSUME NEW c \in Tracked
               PROVE  metrics'[c] = Number(Counted(c))'
    BY DEF Accounted, Counted
  <1>1. /\ Number(Counted(c)) \in Nat
        /\ Number(Counted(c))' = Number(Counted(c)) + One(to, Counted(c))
                                   - One(status[j], Counted(c))
    BY NumberMoves DEF Moves, TypeOK
  <1>2. metrics[c] = Number(Counted(c))
    BY DEF Accounted
  <1> QED BY <1>1, <1>2 DEF Moves

LEMMA RestsAccounted == Accounted /\ Rests => Accounted'
  BY DEF Accounted, Rests, Number, Having, Counted, Status, Live, Terminal

LEMMA OutsideCounts ==
  ASSUME Typed, Minded, LeftByStop, ~Suspends, InTime,
         Request \/ Cleanup \/ Start \/ Stop \/ Stopped \/ Time
                 \/ UNCHANGED vars
  PROVE  Rests \/ \E j \in Jobs, to \in Status : Moves(j, to)
  <1> TypeOK
    BY DEF Typed
  <1> USE DEF Tracked
  <1>1. ASSUME NEW j \in Jobs, NEW p \in Offered, Submit(j, p)
        PROVE  \E to \in Status : Moves(j, to)
    <2>0. status[j] = "none" /\ "pending" \in Status /\ "failed" \in Status
      BY <1>1 DEF Submit, Submitted, Status, Live, Terminal
    <2>1. CASE HasRoom(p)
      <3>1. /\ status' = [status EXCEPT ![j] = "pending"]
            /\ metrics' = Bump(metrics, {"total", "active", "queued"}, {})
        BY <1>1, <2>1 DEF Submit, Created
      <3>2. Moves(j, "pending")
        BY <2>0, <3>1
        DEF Moves, Bump, One, Counted, Status, Live, Terminal, TypeOK, Metrics,
            Counters
      <3> QED BY <2>0, <3>2
    <2>2. CASE ~HasRoom(p)
      <3>1. /\ status' = [status EXCEPT ![j] = "failed"]
            /\ metrics' = Bump(Created, {"failed"}, {"active", "queued"})
        BY <1>1, <2>2 DEF Submit, Updated, Settles, QueueCounter
      <3>2. Moves(j, "failed")
        BY <2>0, <3>1
        DEF Moves, Created, Bump, One, Counted, Status, Live, Terminal, TypeOK,
            Metrics, Counters
      <3> QED BY <2>0, <3>2
    <2> QED BY <2>1, <2>2
  <1>2. ASSUME NEW j \in Jobs, Cancel(j)
        PROVE  \E to \in Status : Moves(j, to)
    <2>1. /\ status[j] = "pending"
          /\ status' = [status EXCEPT ![j] = "cancelled"]
          /\ metrics' = Bump(metrics, {}, {"queued", "active"})
      BY <1>2, NoneInProcess DEF Cancel, LiveCounters, QueueCounter, Live
    <2>2. Moves(j, "cancelled")
      BY <2>1
      DEF Moves, Bump, One, Counted, Status, Live, Terminal, TypeOK, Metrics,
          Counters
    <2> QED BY <2>2 DEF Status, Terminal
  <1>3. ASSUME NEW j \in Jobs, GetStatus(j) \/ GetResults(j) PROVE Rests
    BY <1>3
    DEF GetStatus, GetResults, Look, Seen, SeenMetrics, Overdue, InTime, Rests,
        TypeOK
  <1>4. ~Cleanup
    BY DEF Cleanup, Overdue, InTime
  <1>5. CASE GetMetrics
    BY <1>5 DEF GetMetrics, Rests, TypeOK, Metrics, Counters
  <1>6. CASE Start \/ Stop \/ Stopped \/ Time \/ UNCHANGED vars
    BY <1>6
    DEF Start, Stop, Stopped, Time, Tick, CacheTick, vars, jobVars, Rests
  <1> QED BY <1>1, <1>2, <1>3, <1>4, <1>5, <1>6 DEF Request

LEMMA WorkerCounts ==
  ASSUME Typed, Custody, Undisturbed, ~Suspends, InTime,
         NEW p \in Priority, WorkerStep(p)
  PROVE  Rests \/ \E j \in Jobs, to \in Status : Moves(j, to)
  <1> TypeOK
    BY DEF Typed
  <1> USE DEF Tracked
  <1>1. /\ pc[p] \notin {"off", "idle"} => job[p] \in Jobs
        /\ HeldStatus(p)
    BY OwnJob DEF Undisturbed
  <1>2. \A j \in Jobs : Seen(j) = status[j] /\ SeenMetrics(j) = metrics
    BY DEF Seen, SeenMetrics, Overdue, InTime
  <1>3. ASSUME NEW to \in {"processing", "completed", "failed"},
               NEW old \in {"pending", "processing"}, job[p] \in Jobs,
               to = "processing" \/ old = "processing",
               status[job[p]] = old, LookAndSet(job[p], to)
        PROVE  Moves(job[p], to)
    <2>1. /\ status' = [status EXCEPT ![job[p]] = to]
          /\ metrics' = Updated(metrics, old, to)
      BY <1>2, <1>3 DEF LookAndSet
    <2>2. CASE to = "processing"
      <3>1. metrics' = Bump(metrics, {}, QueueCounter(old))
        BY <2>1, <2>2 DEF Updated
      <3> QED
        BY <1>3, <2>1, <2>2, <3>1
        DEF Moves, QueueCounter, Bump, One, Counted, Status, Live, Terminal,
            TypeOK, Metrics, Counters
    <2>3. CASE to = "completed"
      <3>1. metrics' = Bump(metrics, {"completed"}, {"active"})
        BY <1>3, <2>1, <2>3 DEF Updated, Settles
      <3> QED
        BY <1>3, <2>1, <2>3, <3>1, SMTT(20)
        DEF Moves, Bump, One, Counted, Status, Live, Terminal, TypeOK, Metrics,
            Counters
    <2>4. CASE to = "failed"
      <3>1. metrics' = Bump(metrics, {"failed"}, {"active"} \union {})
        BY <1>3, <2>1, <2>4 DEF Updated, Settles, QueueCounter
      <3> QED
        BY <1>3, <2>1, <2>4, <3>1, SMTT(20)
        DEF Moves, Bump, One, Counted, Status, Live, Terminal, TypeOK, Metrics,
            Counters
    <2> QED BY <1>3, <2>2, <2>3, <2>4
  <1>4. CASE Claim(p) \/ Complete(p) \/ FailureExit(p)
    <2>1. job[p] \in Jobs /\ {"processing", "completed", "failed"} \subseteq Status
      BY <1>1, <1>4 DEF Claim, Complete, FailureExit, Status, Live, Terminal
    <2> QED
      BY <1>1, <1>3, <1>4, <2>1 DEF Claim, Complete, FailureExit, HeldStatus
  <1>5. CASE Validate(p) \/ Checkpoint(p) \/ Refresh(p)
    BY <1>1, <1>2, <1>5
    DEF Validate, Checkpoint, Refresh, Look, Overdue, Rests, TypeOK
  <1>6. CASE BatchDone(p)
    <2>1. status[job[p]] = "processing"
      BY <1>1, <1>6 DEF BatchDone, Answered, HeldStatus
    <2> QED
      BY <1>1, <1>6, <2>1
      DEF BatchDone, Progressed, Updated, QueueCounter, Bump, One, Rests,
          TypeOK, Metrics, Counters
  <1>7. ~TimeoutExit(p)
    BY <1>1 DEF TimeoutExit, HeldStatus, InTime
  <1>8. CASE Take(p) \/ Predict(p) \/ BadBatch(p) \/ CancelWorker(p)
    BY <1>8 DEF Take, Predict, BadBatch, CancelWorker, jobVars, Rests
  <1> QED
    BY <1>4, <1>5, <1>6, <1>7, <1>8, WorkerStep(p) DEF WorkerStep

\* Time does not run backwards.
LEMMA StillInTime ==
  ASSUME Typed, [Next]_vars, InTime'
  PROVE  InTime
  <1>1. CASE \E p \in Priority : WorkerStep(p)
    BY <1>1, WorkerFrame DEF InTime
  <1>2. CASE ~\E p \in Priority : WorkerStep(p)
    BY <1>2
    DEF Next, Request, Submit, GetStatus, GetResults, Cancel, GetMetrics,
        Cleanup, Start, Stop, Stopped, Time, Tick, CacheTick, vars, InTime,
        Typed, TypeOK
  <1> QED BY <1>1, <1>2

LEMMA InitAccounted == Init => Accounted
  <1> SUFFICES ASSUME Init, NEW c \in Tracked
               PROVE  metrics[c] = Number(Counted(c))
    BY DEF Accounted
  <1>1. Having(Counted(c)) = {}
    BY DEF Init, Having, Counted, Tracked, Status, Live, Terminal
  <1>2. metrics[c] = 0
    BY DEF Init, Tracked, Counters
  <1> QED BY <1>1, <1>2, FS_EmptySet DEF Number

\* The metrics AsyncBatchMetricsResponse documents are the numbers of jobs
\* they stand for, whatever was submitted, refused, cancelled, processed or
\* failed, until the first deadline passes (BatchJobManager) - with a
\* processor that does not suspend, as the tree's does not.
THEOREM MetricsAreExact == ~Suspends => (Spec => []CountsAreExact)
  <1> SUFFICES ASSUME ~Suspends PROVE Spec => []CountsAreExact
    OBVIOUS
  <1>1. Init => CountsAreExact
    BY InitAccounted, CountsMeaning
  <1>2. IInv /\ Minded /\ LeftByStop /\ Undisturbed /\ CountsAreExact
          /\ [Next]_vars => CountsAreExact'
    <2> SUFFICES ASSUME IInv, Minded, LeftByStop, Undisturbed, CountsAreExact,
                        [Next]_vars, InTime'
                 PROVE  Accounted'
      <3>1. CountsAreExact' <=> (InTime' => Accounted')
        BY CountsMeaning, PTL
      <3> QED BY <3>1
    <2>1. Typed /\ Custody /\ TypeOK
      BY DEF IInv, Typed
    <2>2. InTime /\ Accounted
      BY <2>1, StillInTime, CountsMeaning
    <2>3. Rests \/ \E j \in Jobs, to \in Status : Moves(j, to)
      BY <2>1, <2>2, OutsideCounts, WorkerCounts DEF Next
    <2> QED BY <2>1, <2>2, <2>3, RestsAccounted, MovesAccounted
  <1> QED
    BY <1>1, <1>2, InvariantHolds, MindedHolds, UndisturbedHolds, PTL DEF Spec

==============================================================================
