------------------------- MODULE StreamProcessorProofs -------------------------
(***************************************************************************)
(* Proofs about StreamProcessor, for any requests, batch sizes and waiting *)
(* times, several batch tasks and a shutdown at any moment.                *)
(*                                                                         *)
(* Who waits for the lock does not matter to these properties, only that   *)
(* the queue is touched while nobody sleeps with the lock; so their        *)
(* invariant says nothing of `waiters`, whose type has one of its own.     *)
(***************************************************************************)
EXTENDS StreamProcessor, SequenceTheorems, TLAPS

------------------------------------------------------------------------------
(***************************************************************************)
(* The inductive invariant.                                                *)
(***************************************************************************)
Typed ==
  /\ client \in [Requests -> ClientState]
  /\ queue \in Seq(Requests)
  /\ pc \in [Requests -> TaskState]
  /\ lock \in Requests \union {None}

\* Only the task that sleeps with the lock is idle, over an empty queue.
LockOK == \A t \in Requests : pc[t] = "idle" => lock = t /\ queue = << >>

Started == {"sleep", "lockA", "lockB", "idle"}
Quiet == sd \in {"no", "lock"}

\* Before shutdown cancels, a set flag stands for a task that has started.
FlagOK ==
  Quiet => /\ cancelled = {}
           /\ processing => \E t \in Requests : pc[t] \in Started

\* A request enters the queue once, when its caller begins to await.
Once ==
  /\ \A i, k \in 1..Len(queue) : queue[i] = queue[k] => i = k
  /\ \A i \in 1..Len(queue) : client[queue[i]] \notin {"new", "lock"}
Kept ==
  \A r \in Requests :
    client[r] = "await" => \E i \in 1..Len(queue) : queue[i] = r

Inv == Typed /\ LockOK /\ FlagOK /\ QueueIsServed /\ Once /\ Kept

------------------------------------------------------------------------------
(***************************************************************************)
(* Taking requests off the queue.                                          *)
(***************************************************************************)
LEMMA BatchSizeRange ==
  ASSUME queue \in Seq(Requests)
  PROVE  BatchSize \in 0..Len(queue)
  <1>1. Len(queue) \in Nat
    BY LenProperties
  <1> QED BY <1>1, StreamAssumption DEF BatchSize, Smaller

LEMMA ServeQueue ==
  ASSUME queue \in Seq(Requests), NEW n \in 0..Len(queue), Serve(n)
  PROVE  /\ queue' \in Seq(Requests)
         /\ Len(queue') = Len(queue) - n
         /\ \A i \in 1..Len(queue') : queue'[i] = queue[n + i]
  <1>1. queue' = SubSeq(queue, n + 1, Len(queue))
    BY DEF Serve
  <1>2. Len(queue) \in Nat
    BY LenProperties
  <1> QED BY <1>1, <1>2, SubSeqProperties

LEMMA ServeClient ==
  ASSUME Typed, NEW n \in 0..Len(queue), Serve(n)
  PROVE  /\ client' \in [Requests -> ClientState]
         /\ \A r \in Requests :
              \/ client'[r] = client[r]
              \/ client[r] = "await" /\ client'[r] \in {"answered", "error"}
         /\ \A i \in 1..n : client'[queue[i]] # "await"
  <1>1. PICK good \in Resolved(n) :
          client' = [r \in Requests |->
            IF client[r] = "await" /\ \E i \in 1..n : queue[i] = r
              THEN Outcome(r, n, good) ELSE client[r]]
    BY DEF Serve
  <1>2. \A r \in Requests : Outcome(r, n, good) \in {"answered", "error"}
    BY DEF Outcome
  <1>3. ASSUME NEW r \in Requests
        PROVE  \/ client'[r] = client[r]
               \/ client[r] = "await" /\ client'[r] \in {"answered", "error"}
    BY <1>1, <1>2
  <1>4. ASSUME NEW i \in 1..n
        PROVE  client'[queue[i]] # "await"
    <2>1. queue[i] \in Requests
      <3>1. Len(queue) \in Nat /\ i \in 1..Len(queue)
        BY LenProperties DEF Typed
      <3> QED BY <3>1, ElementOfSeq DEF Typed
    <2> DEFINE r == queue[i]
    <2>2. CASE client[r] = "await"
      BY <1>1, <1>2, <2>1, <2>2
    <2>3. CASE client[r] # "await"
      BY <1>1, <2>1, <2>3
    <2> QED BY <2>2, <2>3
  <1>5. client' \in [Requests -> ClientState]
    BY <1>1, <1>2 DEF Typed, ClientState, Settled
  <1> QED BY <1>3, <1>4, <1>5

\* What is left in the queue is what is still awaited there.
LEMMA ServeKeeps ==
  ASSUME Typed, Once, Kept, NEW n \in 0..Len(queue), Serve(n)
  PROVE  Once' /\ Kept'
  <1>1. Len(queue) \in Nat
    BY LenProperties DEF Typed
  <1>2. /\ queue' \in Seq(Requests)
        /\ Len(queue') = Len(queue) - n
        /\ \A i \in 1..Len(queue') : queue'[i] = queue[n + i]
    BY ServeQueue DEF Typed
  <1>3. \A i \in 1..Len(queue') : n + i \in 1..Len(queue)
    BY <1>1, <1>2
  <1>4. \A i, k \in 1..Len(queue') : queue'[i] = queue'[k] => i = k
    <2> SUFFICES ASSUME NEW i \in 1..Len(queue'), NEW k \in 1..Len(queue'),
                        queue'[i] = queue'[k]
                 PROVE  i = k
      OBVIOUS
    <2>1. queue[n + i] = queue[n + k]
      BY <1>2
    <2>2. n + i = n + k
      BY <1>3, <2>1 DEF Once
    <2> QED BY <2>2
  <1>5. ASSUME NEW i \in 1..Len(queue')
        PROVE  client'[queue'[i]] \notin {"new", "lock"}
    <2>1. queue'[i] \in Requests
      BY <1>2, ElementOfSeq
    <2>2. client[queue'[i]] \notin {"new", "lock"}
      BY <1>2, <1>3 DEF Once
    <2> QED BY <2>1, <2>2, ServeClient
  <1>6. ASSUME NEW r \in Requests, client'[r] = "await"
        PROVE  \E i \in 1..Len(queue') : queue'[i] = r
    <2>1. client[r] = "await"
      BY <1>6, ServeClient
    <2>2. PICK k \in 1..Len(queue) : queue[k] = r
      BY <2>1 DEF Kept
    <2>3. k \notin 1..n
      BY <2>2, <1>6, ServeClient
    <2>4. k - n \in 1..Len(queue') /\ n + (k - n) = k
      BY <2>3, <1>1, <1>2
    <2> QED BY <2>2, <2>4, <1>2
  <1> QED BY <1>4, <1>5, <1>6 DEF Once, Kept

------------------------------------------------------------------------------
(***************************************************************************)
(* The steps.                                                              *)
(***************************************************************************)
LEMMA InitInv == Init => Inv
  <1> SUFFICES ASSUME Init PROVE Inv
    OBVIOUS
  <1>1. Typed
    BY DEF Init, Typed, ClientState, TaskState
  <1>2. LockOK
    BY DEF Init, LockOK
  <1>3. FlagOK
    BY DEF Init, FlagOK
  <1>4. QueueIsServed
    BY DEF Init, QueueIsServed
  <1>5. Once /\ Kept
    BY DEF Init, Once, Kept
  <1> QED BY <1>1, <1>2, <1>3, <1>4, <1>5 DEF Inv

\* Nobody sleeps with a lock that is free.
LEMMA FreeLock ==
  ASSUME Typed, LockOK, lock = None, NEW t \in Requests
  PROVE  pc[t] # "idle"
  BY StreamAssumption DEF Typed, LockOK

LEMMA EnqueueInv ==
  ASSUME Inv, NEW r \in Requests, client[r] \in {"new", "lock"}, lock = None,
         Enqueue(r)
  PROVE  Inv'
  <1>1. /\ Typed /\ LockOK /\ FlagOK /\ QueueIsServed /\ Once /\ Kept
        /\ Len(queue) \in Nat
    BY LenProperties DEF Inv, Typed
  <1>2. /\ queue' \in Seq(Requests)
        /\ Len(queue') = Len(queue) + 1
        /\ \A i \in 1..Len(queue) : queue'[i] = queue[i]
        /\ queue'[Len(queue) + 1] = r
    BY <1>1, AppendProperties DEF Enqueue, Typed
  <1>3. client' = [client EXCEPT ![r] = "await"] /\ client[r] # "await"
    BY DEF Enqueue
  <1>4. /\ processing' = processing /\ sd' = sd /\ cancelled' = cancelled
        /\ lock' = lock
    BY DEF Enqueue, sdVars
  <1>5. \/ processing /\ pc' = pc
        \/ ~processing /\ pc' = [pc EXCEPT ![r] = "created"]
    BY DEF Enqueue
  <1>6. Typed'
    BY <1>1, <1>2, <1>3, <1>4, <1>5 DEF Typed, ClientState, TaskState
  <1>7. LockOK'
    BY <1>1, <1>5, FreeLock DEF LockOK, Typed
  <1>8. FlagOK'
    BY <1>1, <1>4, <1>5 DEF FlagOK, Quiet
  <1>9. QueueIsServed'
    <2>1. CASE ~processing
      BY <1>1, <1>5, <2>1 DEF QueueIsServed, Typed
    <2>2. CASE processing /\ Quiet
      <3>1. \E t \in Requests : pc[t] \in Started
        BY <1>1, <2>2 DEF FlagOK
      <3> QED BY <1>5, <2>2, <3>1 DEF QueueIsServed, Started
    <2>3. CASE ~Quiet
      BY <1>4, <2>3 DEF QueueIsServed, Quiet
    <2> QED BY <2>1, <2>2, <2>3
  <1>10. \A i \in 1..Len(queue) : queue[i] \in Requests /\ queue[i] # r
    <2> SUFFICES ASSUME NEW i \in 1..Len(queue)
                 PROVE  queue[i] \in Requests /\ queue[i] # r
      OBVIOUS
    <2>1. queue[i] \in Requests
      BY <1>1, ElementOfSeq DEF Typed
    <2> QED BY <2>1, <1>1 DEF Once
  <1>11. \A i \in 1..Len(queue') : i \in 1..Len(queue) \/ i = Len(queue) + 1
    BY <1>1, <1>2
  <1>12. Once'
    <2>1. ASSUME NEW i \in 1..Len(queue'), NEW k \in 1..Len(queue'),
                 queue'[i] = queue'[k]
          PROVE  i = k
      BY <1>1, <1>2, <1>10, <1>11, <2>1 DEF Once
    <2>2. ASSUME NEW i \in 1..Len(queue')
          PROVE  client'[queue'[i]] \notin {"new", "lock"}
      BY <1>1, <1>2, <1>3, <1>10, <1>11 DEF Once, Typed
    <2> QED BY <2>1, <2>2 DEF Once
  <1>13. Kept'
    <2> SUFFICES ASSUME NEW q \in Requests, client'[q] = "await"
                 PROVE  \E i \in 1..Len(queue') : queue'[i] = q
      BY DEF Kept
    <2>1. CASE q = r
      BY <1>1, <1>2, <2>1
    <2>2. CASE q # r
      <3>1. client[q] = "await"
        BY <1>1, <1>3, <2>2 DEF Typed
      <3>2. PICK i \in 1..Len(queue) : queue[i] = q
        BY <1>1, <3>1 DEF Kept
      <3>3. i \in 1..Len(queue')
        BY <1>1, <1>2
      <3> QED BY <1>2, <3>2, <3>3
    <2> QED BY <2>1, <2>2
  <1> QED BY <1>6, <1>7, <1>8, <1>9, <1>12, <1>13 DEF Inv

\* A step that changes neither the queue nor who awaits keeps both orderly.
LEMMA ClientFrame ==
  ASSUME Once, Kept, queue' = queue,
         NEW C, client' = [r \in Requests |-> C[r]],
         queue \in Seq(Requests),
         \A r \in Requests : /\ C[r] = "await" => client[r] = "await"
                             /\ C[r] \in {"new", "lock"} =>
                                  client[r] \in {"new", "lock"}
  PROVE  Once' /\ Kept'
  <1>1. ASSUME NEW i \in 1..Len(queue)
        PROVE  queue[i] \in Requests
    BY ElementOfSeq
  <1>2. Once'
    BY <1>1 DEF Once
  <1>3. Kept'
    BY DEF Kept
  <1> QED BY <1>2, <1>3

LEMMA SameClient ==
  ASSUME Once, Kept, queue' = queue, client' = client
  PROVE  Once' /\ Kept'
  BY DEF Once, Kept

\* A started task goes on while nobody sleeps with the lock.
LEMMA TaskGoesOn ==
  ASSUME Typed, LockOK, FlagOK, lock = None, NEW t \in Requests,
         NEW x \in Started, pc' = [pc EXCEPT ![t] = x],
         x = "idle" => lock' = t /\ queue' = << >>,
         UNCHANGED <<cancelled, processing, sd>>
  PROVE  LockOK' /\ FlagOK' /\ QueueIsServed'
  <1>1. pc'[t] = x /\ \A s \in Requests : s # t => pc'[s] = pc[s]
    BY DEF Typed
  <1>2. LockOK'
    BY <1>1, FreeLock DEF LockOK
  <1>3. FlagOK'
    BY <1>1 DEF FlagOK, Quiet
  <1>4. QueueIsServed'
    BY <1>1 DEF QueueIsServed, Started
  <1> QED BY <1>2, <1>3, <1>4

LEMMA RestInv ==
  ASSUME Typed, LockOK, FlagOK, lock = None, NEW t \in Requests, Rest(t),
         UNCHANGED <<cancelled, processing, sd>>
  PROVE  /\ pc' \in [Requests -> TaskState]
         /\ lock' \in Requests \union {None}
         /\ LockOK' /\ FlagOK' /\ QueueIsServed'
  <1>1. CASE queue' = << >>
    <2>1. pc' = [pc EXCEPT ![t] = "idle"] /\ lock' = t
      BY <1>1 DEF Rest
    <2>2. "idle" \in Started
      BY DEF Started
    <2>3. LockOK' /\ FlagOK' /\ QueueIsServed'
      BY <1>1, <2>1, <2>2, TaskGoesOn
    <2> QED BY <2>1, <2>3 DEF Typed, TaskState
  <1>2. CASE queue' # << >>
    <2>1. pc' = [pc EXCEPT ![t] = "sleep"] /\ lock' = None
      BY <1>2 DEF Rest
    <2>2. "sleep" \in Started
      BY DEF Started
    <2>3. LockOK' /\ FlagOK' /\ QueueIsServed'
      BY <2>1, <2>2, TaskGoesOn
    <2> QED BY <2>1, <2>3 DEF Typed, TaskState
  <1> QED BY <1>1, <1>2

LEMMA CollectInv ==
  ASSUME Inv, lock = None, NEW t \in Requests, NEW rest, Collect(t, rest)
  PROVE  Inv'
  <1>1. Typed /\ LockOK /\ FlagOK /\ QueueIsServed /\ Once /\ Kept
    BY DEF Inv
  <1>2. PICK n \in 0..Len(queue) : Serve(n)
    <2>1. CASE Triggered
      BY <1>1, <2>1, BatchSizeRange DEF Collect, Typed
    <2>2. CASE ~Triggered
      <3>1. 0 \in 0..Len(queue)
        BY <1>1, LenProperties DEF Typed
      <3> QED BY <2>2, <3>1 DEF Collect
    <2> QED BY <2>1, <2>2
  <1>3. queue' \in Seq(Requests) /\ client' \in [Requests -> ClientState]
    BY <1>1, <1>2, ServeQueue, ServeClient DEF Typed
  <1>4. Once' /\ Kept'
    BY <1>1, <1>2, ServeKeeps
  <1>5. UNCHANGED <<cancelled, processing, sd>>
    BY DEF Collect, sdVars
  <1>6. /\ pc' \in [Requests -> TaskState]
        /\ lock' \in Requests \union {None}
        /\ LockOK' /\ FlagOK' /\ QueueIsServed'
    <2>1. CASE rest = << >>
      <3>1. Rest(t)
        BY <2>1 DEF Collect
      <3> QED BY <1>1, <1>5, <3>1, RestInv
    <2>2. CASE rest # << >>
      <3>1. pc' = [pc EXCEPT ![t] = "lockB"] /\ lock' = lock
        BY <2>2 DEF Collect
      <3>2. "lockB" \in Started
        BY DEF Started
      <3>3. LockOK' /\ FlagOK' /\ QueueIsServed'
        BY <1>1, <1>5, <3>1, <3>2, TaskGoesOn
      <3> QED BY <1>1, <3>1, <3>3 DEF Typed, TaskState
    <2> QED BY <2>1, <2>2
  <1>7. Typed'
    BY <1>3, <1>6 DEF Typed
  <1> QED BY <1>4, <1>6, <1>7 DEF Inv

LEMMA TaskInv ==
  ASSUME Inv, NEW t \in Requests, TaskStep(t)
  PROVE  Inv'
  <1>1. Typed /\ LockOK /\ FlagOK /\ QueueIsServed /\ Once /\ Kept
    BY DEF Inv
  <1>2. CASE TaskStart(t)
    <2>1. /\ pc' = [pc EXCEPT ![t] = "sleep"]
          /\ UNCHANGED <<client, queue, cancelled, lock, sd>>
      BY <1>2 DEF TaskStart, sdVars
    <2>2. Typed'
      BY <1>1, <2>1 DEF Typed, TaskState
    <2>3. LockOK'
      BY <1>1, <2>1 DEF LockOK, Typed
    <2>4. FlagOK'
      BY <1>1, <2>1 DEF FlagOK, Quiet, Started, Typed
    <2>5. QueueIsServed'
      BY <1>1, <2>1 DEF QueueIsServed, Typed
    <2> QED BY <1>1, <2>1, <2>2, <2>3, <2>4, <2>5, SameClient DEF Inv
  <1>3. CASE Wake(t)
    <2>1. CASE Available
      <3>1. lock = None /\ Collect(t, << >>)
        BY <1>3, <2>1 DEF Wake, Available
      <3> QED BY <3>1, CollectInv
    <2>2. CASE ~Available
      <3>1. /\ pc' = [pc EXCEPT ![t] = "lockA"]
            /\ UNCHANGED <<client, queue, cancelled, processing, lock, sd>>
        BY <1>3, <2>2 DEF Wake, sdVars
      <3>2. Typed'
        BY <1>1, <3>1 DEF Typed, TaskState
      <3>3. LockOK'
        BY <1>1, <3>1 DEF LockOK, Typed
      <3>4. FlagOK'
        BY <1>1, <3>1 DEF FlagOK, Quiet, Started, Typed
      <3>5. QueueIsServed'
        BY <1>1, <3>1 DEF QueueIsServed, Typed
      <3> QED BY <1>1, <3>1, <3>2, <3>3, <3>4, <3>5, SameClient DEF Inv
    <2> QED BY <2>1, <2>2
  <1>4. CASE CollectLocked(t)
    <2>1. lock = None /\ Collect(t, Tail(waiters))
      BY <1>4 DEF CollectLocked, Granted
    <2> QED BY <2>1, CollectInv
  <1>5. CASE RestLocked(t)
    <2>1. /\ lock = None /\ Rest(t)
          /\ UNCHANGED <<client, queue, cancelled, processing, sd>>
      BY <1>5 DEF RestLocked, Granted, sdVars
    <2>2. /\ pc' \in [Requests -> TaskState]
          /\ lock' \in Requests \union {None}
          /\ LockOK' /\ FlagOK' /\ QueueIsServed'
      BY <1>1, <2>1, RestInv
    <2>3. Typed'
      BY <1>1, <2>1, <2>2 DEF Typed
    <2> QED BY <1>1, <2>1, <2>2, <2>3, SameClient DEF Inv
  <1>6. CASE IdleEnd(t)
    <2>1. lock = t /\ queue = << >>
      BY <1>1, <1>6 DEF IdleEnd, Running, LockOK
    <2>2. /\ pc' = [pc EXCEPT ![t] = "done"] /\ lock' = None
          /\ processing' = FALSE
          /\ UNCHANGED <<client, queue, cancelled, sd>>
      BY <1>6, <2>1 DEF IdleEnd, sdVars
    <2>3. Typed'
      BY <1>1, <2>2 DEF Typed, TaskState
    <2>4. LockOK'
      BY <1>1, <2>1, <2>2 DEF LockOK, Typed
    <2>5. FlagOK'
      BY <1>1, <2>2 DEF FlagOK, Quiet
    <2>6. QueueIsServed'
      BY <2>1, <2>2 DEF QueueIsServed
    <2> QED BY <1>1, <2>2, <2>3, <2>4, <2>5, <2>6, SameClient DEF Inv
  <1>7. CASE TaskCancelled(t)
    <2>1. /\ pc' = [pc EXCEPT ![t] = "done"]
          /\ lock' = IF lock = t THEN None ELSE lock
          /\ UNCHANGED <<client, queue, sd>>
      BY <1>7 DEF TaskCancelled, sdVars
    <2>2. ~Quiet
      BY <1>1, <1>7 DEF TaskCancelled, FlagOK
    <2>3. Typed'
      BY <1>1, <2>1 DEF Typed, TaskState
    <2>4. LockOK'
      BY <1>1, <2>1 DEF LockOK, Typed
    <2>5. FlagOK' /\ QueueIsServed'
      BY <2>1, <2>2 DEF FlagOK, QueueIsServed, Quiet
    <2> QED BY <1>1, <2>1, <2>3, <2>4, <2>5, SameClient DEF Inv
  <1> QED BY <1>2, <1>3, <1>4, <1>5, <1>6, <1>7 DEF TaskStep

LEMMA DrainInv ==
  ASSUME Inv, Quiet, NEW rest, Drain(rest)
  PROVE  Inv'
  <1>1. Typed /\ LockOK /\ FlagOK /\ QueueIsServed /\ Once /\ Kept
    BY DEF Inv
  <1>2. PICK n \in 0..Len(queue) : Serve(n)
    <2>1. Len(queue) \in 0..Len(queue)
      BY <1>1, LenProperties DEF Typed
    <2>2. CASE rest = << >>
      BY <2>1, <2>2 DEF Drain
    <2>3. CASE rest # << >>
      BY <1>1, <2>3, BatchSizeRange DEF Drain, Typed
    <2> QED BY <2>2, <2>3
  <1>3. /\ queue' \in Seq(Requests) /\ Len(queue') = Len(queue) - n
        /\ client' \in [Requests -> ClientState]
    BY <1>1, <1>2, ServeQueue, ServeClient DEF Typed
  <1>4. queue = << >> => queue' = << >>
    BY <1>1, <1>3, LenProperties, EmptySeq DEF Typed
  <1>5. pc' = pc /\ lock' = lock
    BY DEF Drain
  <1>6. Typed'
    BY <1>1, <1>3, <1>5 DEF Typed
  <1>7. LockOK'
    BY <1>1, <1>4, <1>5 DEF LockOK
  <1>8. FlagOK' /\ QueueIsServed'
    <2>1. CASE queue' = << >>
      <3>1. StopTask
        BY <2>1 DEF Drain
      <3>2. sd' \in {"await", "done"}
        BY <3>1 DEF StopTask
      <3> QED BY <3>2 DEF FlagOK, QueueIsServed, Quiet
    <2>2. CASE queue' # << >>
      <3>1. cancelled' = cancelled /\ processing' = processing
        BY <2>2 DEF Drain
      <3>2. FlagOK'
        BY <1>1, <1>5, <3>1 DEF FlagOK
      <3>3. QueueIsServed'
        BY <1>1, <1>4, <1>5, <2>2 DEF QueueIsServed, Quiet
      <3> QED BY <3>2, <3>3
    <2> QED BY <2>1, <2>2
  <1>9. Once' /\ Kept'
    BY <1>1, <1>2, ServeKeeps
  <1> QED BY <1>6, <1>7, <1>8, <1>9 DEF Inv

LEMMA NextInv == Inv /\ [Next]_vars => Inv'
  <1> SUFFICES ASSUME Inv, [Next]_vars PROVE Inv'
    OBVIOUS
  <1>1. Typed /\ LockOK /\ FlagOK /\ QueueIsServed /\ Once /\ Kept
    BY DEF Inv
  <1>2. ASSUME UNCHANGED <<queue, pc, lock, cancelled, processing>>,
               client' \in [Requests -> ClientState], Once', Kept',
               Quiet' => Quiet
        PROVE  Inv'
    <2>1. Typed' /\ LockOK'
      BY <1>1, <1>2 DEF Typed, LockOK
    <2>2. FlagOK'
      BY <1>1, <1>2 DEF FlagOK
    <2>3. QueueIsServed'
      BY <1>1, <1>2 DEF QueueIsServed, Quiet
    <2> QED BY <1>2, <2>1, <2>2, <2>3 DEF Inv
  <1>3. ASSUME NEW r \in Requests, Arrive(r)
        PROVE  Inv'
    <2>1. CASE Available
      <3>1. client[r] \in {"new", "lock"} /\ lock = None /\ Enqueue(r)
        BY <1>3, <2>1 DEF Arrive, Available
      <3> QED BY <3>1, EnqueueInv
    <2>2. CASE ~Available
      <3>1. /\ client[r] = "new" /\ client' = [client EXCEPT ![r] = "lock"]
            /\ UNCHANGED <<queue, pc, lock, cancelled, processing, sd>>
        BY <1>3, <2>2 DEF Arrive, taskVars, sdVars
      <3>2. Once' /\ Kept' /\ client' \in [Requests -> ClientState]
        <4>1. client' \in [Requests -> ClientState]
          BY <1>1, <3>1 DEF Typed, ClientState
        <4>2. \A q \in Requests :
                /\ client'[q] = "await" => client[q] = "await"
                /\ client'[q] \in {"new", "lock"} => client[q] \in {"new", "lock"}
          BY <1>1, <3>1 DEF Typed
        <4>3. client' = [q \in Requests |-> client'[q]]
          BY <4>1
        <4> QED BY <1>1, <3>1, <4>1, <4>2, <4>3, ClientFrame DEF Typed
      <3> QED BY <1>2, <3>1, <3>2 DEF Quiet
    <2> QED BY <2>1, <2>2
  <1>4. ASSUME NEW r \in Requests, Enter(r)
        PROVE  Inv'
    <2>1. client[r] \in {"new", "lock"} /\ lock = None /\ Enqueue(r)
      BY <1>4 DEF Enter, Granted
    <2> QED BY <2>1, EnqueueInv
  <1>5. ASSUME NEW r \in Requests, Abandon(r)
        PROVE  Inv'
    <2>1. /\ client' = [client EXCEPT ![r] = "gone"]
          /\ UNCHANGED <<queue, pc, lock, cancelled, processing, sd>>
      BY <1>5 DEF Abandon, taskVars, sdVars
    <2>2. client' \in [Requests -> ClientState]
      BY <1>1, <2>1 DEF Typed, ClientState, Settled
    <2>3. \A q \in Requests :
            /\ client'[q] = "await" => client[q] = "await"
            /\ client'[q] \in {"new", "lock"} => client[q] \in {"new", "lock"}
      BY <1>1, <2>1 DEF Typed
    <2>4. client' = [q \in Requests |-> client'[q]]
      BY <2>2
    <2>5. Once' /\ Kept'
      BY <1>1, <2>1, <2>2, <2>3, <2>4, ClientFrame DEF Typed
    <2> QED BY <1>2, <2>1, <2>2, <2>5 DEF Quiet
  <1>6. CASE Shutdown
    <2>1. CASE queue = << >> \/ Available
      <3>1. Quiet /\ Drain(waiters)
        BY <1>6, <2>1 DEF Shutdown, Quiet
      <3> QED BY <3>1, DrainInv
    <2>2. CASE ~(queue = << >> \/ Available)
      <3>1. /\ Quiet
            /\ UNCHANGED <<client, queue, pc, lock, cancelled, processing>>
        BY <1>6, <2>2 DEF Shutdown, Quiet, taskVars
      <3> QED BY <1>1, <1>2, <3>1, SameClient DEF Typed
    <2> QED BY <2>1, <2>2
  <1>7. CASE ShutdownLocked
    <2>1. Quiet /\ Drain(Tail(waiters))
      BY <1>7 DEF ShutdownLocked, Quiet
    <2> QED BY <2>1, DrainInv
  <1>8. CASE ShutdownEnd
    <2>1. UNCHANGED <<client, queue, pc, lock>> /\ sd' = "done"
      BY <1>8 DEF ShutdownEnd
    <2>2. Typed' /\ LockOK'
      BY <1>1, <2>1 DEF Typed, LockOK
    <2>3. FlagOK' /\ QueueIsServed'
      BY <2>1 DEF FlagOK, QueueIsServed, Quiet
    <2> QED BY <1>1, <2>1, <2>2, <2>3, SameClient DEF Inv
  <1>9. CASE Tick
    <2>1. UNCHANGED <<client, queue, pc, lock, cancelled, processing, sd>>
      BY <1>9 DEF Tick, taskVars, sdVars
    <2> QED BY <1>1, <1>2, <2>1, SameClient DEF Typed, Quiet
  <1>10. CASE UNCHANGED vars
    <2>1. UNCHANGED <<client, queue, pc, lock, cancelled, processing, sd>>
      BY <1>10 DEF vars, taskVars, sdVars
    <2> QED BY <1>1, <1>2, <2>1, SameClient DEF Typed, Quiet
  <1> QED BY <1>3, <1>4, <1>5, <1>6, <1>7, <1>8, <1>9, <1>10, TaskInv DEF Next

LEMMA InvariantHolds == Spec => []Inv
  <1> QED BY InitInv, NextInv, PTL DEF Spec

------------------------------------------------------------------------------
\* No future is orphaned: a request that is awaited is in the queue, once,
\* whatever a batch answers and whoever takes batches (_process_single_batch).
THEOREM NoRequestIsForgotten == Spec => []NoneForgotten
  <1>1. Inv => NoneForgotten
    <2> SUFFICES ASSUME Inv, NEW r \in Requests, client[r] = "await"
                 PROVE  \E i \in 1..Len(queue) :
                          /\ queue[i] = r
                          /\ \A k \in 1..Len(queue) : queue[k] = r => k = i
      BY DEF NoneForgotten
    <2>1. PICK i \in 1..Len(queue) : queue[i] = r
      BY DEF Inv, Kept
    <2>2. \A k \in 1..Len(queue) : queue[k] = r => k = i
      BY <2>1 DEF Inv, Once
    <2> QED BY <2>1, <2>2
  <1> QED BY <1>1, InvariantHolds, PTL

\* Before shutdown cancels, a queue that is not empty has a task that has not
\* ended, although the flag that creates one is set late (predict_async).
THEOREM QueueHasATask == Spec => []QueueIsServed
  <1>1. Inv => QueueIsServed
    BY DEF Inv
  <1> QED BY <1>1, InvariantHolds, PTL

\* Nothing enters the queue while a task sleeps with the lock, so its second
\* look finds what the first one found (_process_batches).
THEOREM IdleQueueStaysEmpty == Spec => []NothingEntersIdleQueue
  <1>1. Inv => NothingEntersIdleQueue
    BY DEF Inv, LockOK, NothingEntersIdleQueue
  <1> QED BY <1>1, InvariantHolds, PTL

------------------------------------------------------------------------------
(***************************************************************************)
(* The order of service.                                                   *)
(***************************************************************************)
Ordered ==
  \A i, k \in 1..Len(queue) :
    /\ i < k
    /\ client[queue[k]] = "await"
    /\ client'[queue[k]] \in {"answered", "error"}
    => client'[queue[i]] # "await"

LEMMA ServeOrdered ==
  ASSUME Inv, NEW n \in 0..Len(queue), Serve(n)
  PROVE  Ordered
  <1>1. Typed /\ Once /\ Len(queue) \in Nat
    BY LenProperties DEF Inv, Typed
  <1> SUFFICES ASSUME NEW i \in 1..Len(queue), NEW k \in 1..Len(queue), i < k,
                      client[queue[k]] = "await",
                      client'[queue[k]] \in {"answered", "error"}
               PROVE  client'[queue[i]] # "await"
    BY DEF Ordered
  <1>2. queue[k] \in Requests
    BY <1>1, ElementOfSeq DEF Typed
  <1>3. PICK l \in 1..n : queue[l] = queue[k]
    BY <1>2 DEF Serve
  <1>4. l = k
    BY <1>1, <1>3 DEF Once
  <1>5. i \in 1..n
    BY <1>1, <1>3, <1>4
  <1> QED BY <1>1, <1>5, ServeClient

LEMMA NobodySettled ==
  ASSUME Typed, NEW r \in Requests,
         \/ UNCHANGED client
         \/ \E x \in {"lock", "await", "gone"} : client' = [client EXCEPT ![r] = x]
  PROVE  Ordered
  <1> SUFFICES ASSUME NEW k \in 1..Len(queue), client[queue[k]] = "await"
               PROVE  client'[queue[k]] \notin {"answered", "error"}
    BY DEF Ordered
  <1>1. queue[k] \in Requests
    BY ElementOfSeq, LenProperties DEF Typed
  <1> QED BY <1>1 DEF Typed

LEMMA CollectOrdered ==
  ASSUME Inv, NEW t \in Requests, NEW rest, Collect(t, rest)
  PROVE  Ordered
  <1>1. BatchSize \in 0..Len(queue) /\ 0 \in 0..Len(queue)
    BY BatchSizeRange, LenProperties DEF Inv, Typed
  <1>2. CASE Triggered
    BY <1>1, <1>2, ServeOrdered DEF Collect
  <1>3. CASE ~Triggered
    BY <1>1, <1>3, ServeOrdered DEF Collect
  <1> QED BY <1>2, <1>3

LEMMA DrainOrdered ==
  ASSUME Inv, NEW rest, Drain(rest)
  PROVE  Ordered
  <1>1. BatchSize \in 0..Len(queue) /\ Len(queue) \in 0..Len(queue)
    BY BatchSizeRange, LenProperties DEF Inv, Typed
  <1>2. CASE rest = << >>
    BY <1>1, <1>2, ServeOrdered DEF Drain
  <1>3. CASE rest # << >>
    BY <1>1, <1>3, ServeOrdered DEF Drain
  <1> QED BY <1>2, <1>3

\* No request is settled before one that was queued ahead of it: tasks and
\* shutdown take whole batches from the same end of the queue and resolve
\* them in the step that takes them (_should_process_batch, shutdown).
THEOREM ServedInOrder == Spec => OldestFirst
  <1>1. ASSUME Inv, Next
        PROVE  Ordered
    <2>1. Typed
      BY <1>1 DEF Inv
    <2>2. ASSUME NEW r \in Requests, Arrive(r) \/ Enter(r) \/ Abandon(r)
          PROVE  Ordered
      <3>1. \E x \in {"lock", "await", "gone"} :
              client' = [client EXCEPT ![r] = x]
        BY <2>2 DEF Arrive, Enter, Abandon, Enqueue
      <3> QED BY <2>1, <3>1, NobodySettled
    <2>3. ASSUME NEW t \in Requests, TaskStep(t)
          PROVE  Ordered
      <3>1. CASE TaskStart(t) \/ RestLocked(t) \/ IdleEnd(t) \/ TaskCancelled(t)
        <4>1. UNCHANGED client
          BY <3>1 DEF TaskStart, RestLocked, IdleEnd, TaskCancelled
        <4> QED BY <2>1, <4>1, NobodySettled
      <3>2. CASE Wake(t)
        <4>1. CASE Available
          <5>1. Collect(t, << >>)
            BY <3>2, <4>1 DEF Wake
          <5> QED BY <1>1, <5>1, CollectOrdered
        <4>2. CASE ~Available
          <5>1. UNCHANGED client
            BY <3>2, <4>2 DEF Wake
          <5> QED BY <2>1, <5>1, NobodySettled
        <4> QED BY <4>1, <4>2
      <3>3. CASE CollectLocked(t)
        <4>1. Collect(t, Tail(waiters))
          BY <3>3 DEF CollectLocked
        <4> QED BY <1>1, <4>1, CollectOrdered
      <3> QED BY <2>3, <3>1, <3>2, <3>3 DEF TaskStep
    <2>4. CASE Shutdown
      <3>1. CASE queue = << >> \/ Available
        <4>1. Drain(waiters)
          BY <2>4, <3>1 DEF Shutdown
        <4> QED BY <1>1, <4>1, DrainOrdered
      <3>2. CASE ~(queue = << >> \/ Available)
        <4>1. UNCHANGED client
          BY <2>4, <3>2 DEF Shutdown
        <4> QED BY <4>1 DEF Ordered
      <3> QED BY <3>1, <3>2
    <2>5. CASE ShutdownLocked
      <3>1. Drain(Tail(waiters))
        BY <2>5 DEF ShutdownLocked
      <3> QED BY <1>1, <3>1, DrainOrdered
    <2>6. CASE ShutdownEnd \/ Tick
      <3>1. UNCHANGED client
        BY <2>6 DEF ShutdownEnd, Tick
      <3> QED BY <3>1 DEF Ordered
    <2> QED BY <1>1, <2>2, <2>3, <2>4, <2>5, <2>6 DEF Next
  <1>2. ASSUME Inv, [Next]_vars
        PROVE  [Ordered]_vars
    BY <1>1, <1>2
  <1>3. OldestFirst <=> [][Ordered]_vars
    BY DEF OldestFirst, Ordered
  <1> QED BY <1>2, <1>3, InvariantHolds, PTL DEF Spec

------------------------------------------------------------------------------
(***************************************************************************)
(* Types, those of the lock's waiters and of shutdown included.            *)
(***************************************************************************)
Rested ==
  /\ waited \in Waits
  /\ cancelled \subseteq Requests
  /\ processing \in BOOLEAN
  /\ batchTask \in Requests \union {None}
  /\ waiters \in Seq(Waiter)
  /\ sd \in {"no", "lock", "await", "done"}
  /\ awaited \in Requests \union {None}

\* Leaving the line changes nothing about who else is in it.
LEMMA WithoutType ==
  ASSUME waiters \in Seq(Waiter), NEW w
  PROVE  Without(w) \in Seq(Waiter)
  <1>1. CASE \E i \in 1..Len(waiters) : waiters[i] = w
    <2> DEFINE i == CHOOSE i \in 1..Len(waiters) : waiters[i] = w
    <2>1. i \in 1..Len(waiters)
      BY <1>1
    <2>2. Len(waiters) \in Nat
      BY LenProperties
    <2>3. Without(w) = SubSeq(waiters, 1, i - 1)
                         \o SubSeq(waiters, i + 1, Len(waiters))
      BY <1>1 DEF Without
    <2> HIDE DEF i
    <2>4. SubSeq(waiters, 1, i - 1) \in Seq(Waiter)
      BY <2>1, <2>2, SubSeqProperties
    <2>5. SubSeq(waiters, i + 1, Len(waiters)) \in Seq(Waiter)
      BY <2>1, <2>2, SubSeqProperties
    <2> QED BY <2>3, <2>4, <2>5, ConcatProperties
  <1>2. CASE ~ \E i \in 1..Len(waiters) : waiters[i] = w
    BY <1>2 DEF Without
  <1> QED BY <1>1, <1>2

LEMMA WaitersAre ==
  ASSUME NEW r \in Requests
  PROVE  /\ <<"client", r>> \in Waiter /\ <<"task", r>> \in Waiter
         /\ <<"shutdown", None>> \in Waiter
  BY DEF Waiter

LEMMA Joining ==
  ASSUME NEW line \in Seq(Waiter), NEW w \in Waiter
  PROVE  Append(line, w) \in Seq(Waiter)
  BY AppendProperties

LEMMA TailOfWaiters ==
  ASSUME waiters \in Seq(Waiter), waiters # << >>
  PROVE  Tail(waiters) \in Seq(Waiter)
  BY HeadTailProperties

LEMMA ServeWaited ==
  ASSUME waited \in Waits, NEW n, Serve(n)
  PROVE  waited' \in Waits
  <1>1. waited' \in {waited} \union {0} \union 0..waited
    BY DEF Serve
  <1> QED BY <1>1 DEF Waits

LEMMA EnqueueRested ==
  ASSUME Rested, NEW r \in Requests, Enqueue(r), waiters' \in Seq(Waiter)
  PROVE  Rested'
  BY DEF Rested, Enqueue, sdVars, Waits

LEMMA CollectRested ==
  ASSUME Rested, NEW t \in Requests, NEW rest \in Seq(Waiter), Collect(t, rest)
  PROVE  Rested'
  <1>1. waited' \in Waits
    BY ServeWaited DEF Collect, Rested
  <1>2. waiters' \in Seq(Waiter)
    <2>1. CASE rest = << >>
      BY <2>1 DEF Collect
    <2>2. CASE rest # << >>
      <3>1. waiters' = Append(rest, <<"task", t>>)
        BY <2>2 DEF Collect
      <3> QED BY <3>1, WaitersAre, Joining
    <2> QED BY <2>1, <2>2
  <1> QED BY <1>1, <1>2 DEF Rested, Collect, sdVars

LEMMA DrainRested ==
  ASSUME Rested, NEW rest \in Seq(Waiter), Drain(rest)
  PROVE  Rested'
  <1>1. waited' \in Waits
    BY ServeWaited DEF Drain, Rested
  <1>2. CASE queue' = << >>
    <2>1. StopTask /\ waiters' = rest /\ batchTask' = batchTask
      BY <1>2 DEF Drain
    <2> QED BY <1>1, <2>1 DEF Rested, StopTask
  <1>3. CASE queue' # << >>
    <2>1. /\ waiters' = Append(rest, <<"shutdown", None>>)
          /\ sd' = "lock"
          /\ UNCHANGED <<cancelled, processing, awaited, batchTask>>
      BY <1>3 DEF Drain
    <2>2. waiters' \in Seq(Waiter)
      BY <2>1, AppendProperties DEF Waiter
    <2> QED BY <1>1, <2>1, <2>2 DEF Rested
  <1> QED BY <1>2, <1>3

LEMMA NextRested == Rested /\ [Next]_vars => Rested'
  <1> SUFFICES ASSUME Rested, [Next]_vars PROVE Rested'
    OBVIOUS
  <1>1. waiters \in Seq(Waiter)
    BY DEF Rested
  <1>2. ASSUME NEW r \in Requests, Arrive(r)
        PROVE  Rested'
    <2>1. CASE Available
      BY <1>1, <1>2, <2>1, EnqueueRested DEF Arrive
    <2>2. CASE ~Available
      <3>1. waiters' \in Seq(Waiter)
        <4>1. waiters' = Append(waiters, <<"client", r>>)
          BY <1>2, <2>2 DEF Arrive
        <4> QED BY <1>1, <4>1, WaitersAre, Joining
      <3> QED BY <1>2, <2>2, <3>1 DEF Arrive, Rested, taskVars, sdVars
    <2> QED BY <2>1, <2>2
  <1>3. ASSUME NEW r \in Requests, Enter(r)
        PROVE  Rested'
    <2>1. waiters' \in Seq(Waiter)
      BY <1>1, <1>3, TailOfWaiters DEF Enter, Granted
    <2> QED BY <1>3, <2>1, EnqueueRested DEF Enter
  <1>4. ASSUME NEW r \in Requests, Abandon(r)
        PROVE  Rested'
    <2>1. waiters' \in Seq(Waiter)
      BY <1>1, <1>4, WithoutType DEF Abandon
    <2> QED BY <1>4, <2>1 DEF Abandon, Rested, taskVars, sdVars
  <1>5. ASSUME NEW t \in Requests, TaskStart(t)
        PROVE  Rested'
    BY <1>5 DEF TaskStart, Rested, sdVars
  <1>6. ASSUME NEW t \in Requests, Wake(t)
        PROVE  Rested'
    <2>1. CASE Available
      <3>1. << >> \in Seq(Waiter)
        BY EmptySeq
      <3> QED BY <1>6, <2>1, <3>1, CollectRested DEF Wake
    <2>2. CASE ~Available
      <3>1. waiters' \in Seq(Waiter)
        <4>1. waiters' = Append(waiters, <<"task", t>>)
          BY <1>6, <2>2 DEF Wake
        <4> QED BY <1>1, <4>1, WaitersAre, Joining
      <3> QED BY <1>6, <2>2, <3>1 DEF Wake, Rested, sdVars
    <2> QED BY <2>1, <2>2
  <1>7. ASSUME NEW t \in Requests, CollectLocked(t)
        PROVE  Rested'
    <2>1. Tail(waiters) \in Seq(Waiter) /\ Collect(t, Tail(waiters))
      BY <1>1, <1>7, TailOfWaiters DEF CollectLocked, Granted
    <2> QED BY <2>1, CollectRested
  <1>8. ASSUME NEW t \in Requests, RestLocked(t)
        PROVE  Rested'
    <2>1. waiters' \in Seq(Waiter)
      BY <1>1, <1>8, TailOfWaiters DEF RestLocked, Granted
    <2> QED BY <1>8, <2>1 DEF RestLocked, Rested, sdVars
  <1>9. ASSUME NEW t \in Requests, IdleEnd(t)
        PROVE  Rested'
    BY <1>9 DEF IdleEnd, Rested, sdVars
  <1>10. ASSUME NEW t \in Requests, TaskCancelled(t)
         PROVE  Rested'
    <2>1. waiters' \in Seq(Waiter)
      BY <1>1, <1>10, WithoutType DEF TaskCancelled
    <2> QED BY <1>10, <2>1 DEF TaskCancelled, Rested, sdVars
  <1>11. CASE Shutdown
    <2>1. CASE queue = << >> \/ Available
      BY <1>1, <1>11, <2>1, DrainRested DEF Shutdown
    <2>2. CASE ~(queue = << >> \/ Available)
      <3>1. waiters' \in Seq(Waiter)
        <4>1. waiters' = Append(waiters, <<"shutdown", None>>)
          BY <1>11, <2>2 DEF Shutdown
        <4>2. <<"shutdown", None>> \in Waiter
          BY DEF Waiter
        <4> QED BY <1>1, <4>1, <4>2, Joining
      <3> QED BY <1>11, <2>2, <3>1 DEF Shutdown, Rested, taskVars
    <2> QED BY <2>1, <2>2
  <1>12. CASE ShutdownLocked
    <2>1. Tail(waiters) \in Seq(Waiter) /\ Drain(Tail(waiters))
      BY <1>1, <1>12, TailOfWaiters DEF ShutdownLocked, Granted
    <2> QED BY <2>1, DrainRested
  <1>13. CASE ShutdownEnd
    BY <1>13 DEF ShutdownEnd, Rested
  <1>14. CASE Tick
    BY <1>14 DEF Tick, Rested, Waits, taskVars, sdVars
  <1>15. CASE UNCHANGED vars
    BY <1>15 DEF vars, Rested, taskVars, sdVars
  <1> QED BY <1>2, <1>3, <1>4, <1>5, <1>6, <1>7, <1>8, <1>9, <1>10, <1>11,
             <1>12, <1>13, <1>14, <1>15 DEF Next, TaskStep

\* Every variable keeps its type, the line before the lock included, from
\* whose middle the cancelled leave (asyncio.Lock.acquire, shutdown).
THEOREM TypeCorrect == Spec => []TypeOK
  <1>1. Init => Rested
    <2>1. << >> \in Seq(Waiter)
      BY EmptySeq
    <2>2. 0 \in Waits
      BY DEF Waits
    <2> QED BY <2>1, <2>2, Zenon DEF Init, Rested
  <1>2. Inv /\ Rested => TypeOK
    BY DEF Inv, Typed, Rested, TypeOK
  <1> QED BY <1>1, <1>2, NextRested, InvariantHolds, PTL DEF Spec

==============================================================================
