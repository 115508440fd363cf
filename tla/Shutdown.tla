------------------------------- MODULE Shutdown -------------------------------
(***************************************************************************)
(* The life of the application (core/events.py): the lifespan starts the   *)
(* services one after the other; termination signals, which may come from  *)
(* its first line on, start a task that drains them; the exit of the       *)
(* lifespan waits for the task it knows or drains itself.                  *)
(***************************************************************************)
EXTENDS Naturals, Sequences, FiniteSets

CONSTANTS
  Signals,   \* signals that arrive, each with the task it may create
  None

\* The services in the order in which _shutdown_services stops them.
Order == <<"kafka_consumer", "async_batch_service", "data_writer",
           "feedback_service", "shadow_mode_service">>

\* Their places in Order, in the order in which the lifespan starts them.
StartOrder == <<5, 1, 2, 3, 4>>

Exit  == "lifespan"     \* the coroutine that leaves the lifespan
Tasks == Signals \union {Exit}

NamesAreDifferent == Exit \notin Signals /\ None \notin Tasks

VARIABLES
  started,          \* how far in StartOrder the lifespan has come
  present,          \* services that are attributes of app.state
  arrived,          \* signals handled
  shutdown_task, draining,
  awaited,          \* the task the exit of the lifespan waits for
  pc,               \* of each task: none, created, draining, waiting or done
  at,               \* place in Order of the stop() a draining task awaits
  \* history
  stops,            \* how often stop() of each service was called
  missed            \* services that became attributes behind the drain

vars == <<started, present, arrived, shutdown_task, draining, awaited, pc, at, stops, missed>>

TypeOK ==
  /\ started \in 0 .. Len(StartOrder)
  /\ present \subseteq DOMAIN Order /\ missed \subseteq present
  /\ arrived \subseteq Signals
  /\ shutdown_task \in Tasks \union {None} /\ awaited \in Signals \union {None}
  /\ draining \in BOOLEAN
  /\ pc \in [Tasks -> {"none", "created", "draining", "waiting", "done"}]
  /\ at \in [Tasks -> 0 .. Len(Order) + 1]
  /\ stops \in [DOMAIN Order -> 0 .. Cardinality(Tasks)]

\* The handlers have been registered, no service has been started.
Init ==
  /\ started = 0 /\ present = {} /\ missed = {}
  /\ arrived = {}
  /\ shutdown_task = None /\ draining = FALSE /\ awaited = None
  /\ pc = [t \in Tasks |-> "none"]
  /\ at = [t \in Tasks |-> 0]
  /\ stops = [i \in DOMAIN Order |-> 0]

\* The event loop runs until the lifespan has been left.
LoopRuns == pc[Exit] # "done"

Passed(i) == \E t \in Tasks : at[t] > i

\* The lifespan before its yield: the next service becomes an attribute of
\* app.state when its start() has returned; one that is not enabled, or whose
\* start() raised, which is logged, does not.
StartNext ==
  /\ LoopRuns /\ started < Len(StartOrder)
  /\ started' = started + 1
  /\ LET i == StartOrder[started + 1]
     IN \/ UNCHANGED <<present, missed>>
        \/ /\ present' = present \union {i}
           /\ missed' = IF Passed(i) THEN missed \union {i} ELSE missed
  /\ UNCHANGED <<arrived, shutdown_task, draining, awaited, pc, at, stops>>

\* mutant
IgnoredUnlessDraining == ~draining

\* A signal that finds the application draining is ignored.
Ignored == draining

\* _handle_shutdown_signal
Signal(s) ==
  /\ s \notin arrived /\ pc[Exit] # "done"
  /\ arrived' = arrived \union {s}
  /\ IF Ignored THEN UNCHANGED <<shutdown_task, pc>>
     ELSE /\ shutdown_task' = s
          /\ pc' = [pc EXCEPT ![s] = "created"]
  /\ UNCHANGED <<started, present, draining, awaited, at, stops, missed>>

\* mutant
NotDrainingYet == \A t \in Tasks : pc[t] # "done"

MayDrain == ~draining

\* _shutdown_services from its beginning.
Drain(t) ==
  IF MayDrain
  THEN /\ draining' = TRUE
       /\ shutdown_task' = IF shutdown_task = None THEN t ELSE shutdown_task
       /\ pc' = [pc EXCEPT ![t] = "draining"]
  ELSE /\ pc' = [pc EXCEPT ![t] = "done"]
       /\ UNCHANGED <<draining, shutdown_task>>

Begin(s) ==
  /\ LoopRuns /\ pc[s] = "created"
  /\ Drain(s)
  /\ UNCHANGED <<started, present, arrived, awaited, at, stops, missed>>

\* The next service there is to stop, behind the last when none is left.
NextPresent(i) ==
  CHOOSE j \in i + 1 .. Len(Order) + 1 :
    /\ j \in present \union {Len(Order) + 1}
    /\ \A k \in i + 1 .. j - 1 : k \notin present

\* The stop() awaited returns or raises, which is logged; the next one is called.
StopNext(t) ==
  /\ LoopRuns /\ pc[t] = "draining"
  /\ LET j == NextPresent(at[t])
     IN /\ at' = [at EXCEPT ![t] = j]
        /\ IF j <= Len(Order)
           THEN stops' = [stops EXCEPT ![j] = @ + 1] /\ UNCHANGED pc
           ELSE pc' = [pc EXCEPT ![t] = "done"] /\ UNCHANGED stops
  /\ UNCHANGED <<started, present, arrived, shutdown_task, draining, awaited, missed>>

\* The lifespan after its yield: it awaits the task it knows, or drains.
LeaveLifespan ==
  /\ started = Len(StartOrder) /\ pc[Exit] = "none"
  /\ IF shutdown_task # None /\ pc[shutdown_task] # "done"
     THEN /\ pc' = [pc EXCEPT ![Exit] = "waiting"]
          /\ awaited' = shutdown_task
          /\ UNCHANGED <<draining, shutdown_task>>
     ELSE Drain(Exit) /\ UNCHANGED awaited
  /\ UNCHANGED <<started, present, arrived, at, stops, missed>>

\* `await shutdown_task` returns.
Awaited ==
  /\ pc[Exit] = "waiting" /\ pc[awaited] = "done"
  /\ pc' = [pc EXCEPT ![Exit] = "done"]
  /\ UNCHANGED <<started, present, arrived, shutdown_task, draining, awaited, at, stops, missed>>

Next ==
  \/ \E s \in Signals : Signal(s) \/ Begin(s)
  \/ \E t \in Tasks : StopNext(t)
  \/ StartNext \/ LeaveLifespan \/ Awaited

\* The event loop runs every task that is ready, and every stop() ends; nothing
\* makes the start-up go on or the server leave the lifespan.
Fairness ==
  /\ \A s \in Signals : WF_vars(Begin(s))
  /\ \A t \in Tasks : WF_vars(StopNext(t))

Spec == Init /\ [][Next]_vars /\ Fairness

-----------------------------------------------------------------------------
(* Properties *)

\* One task drains: whatever signals arrive while services are started or the
\* lifespan is left, no stop() is called twice, and a service is stopped only
\* after those before it that were there in time.
StoppedOnceInOrder ==
  /\ \A i \in DOMAIN Order : stops[i] <= 1
  /\ \A i, j \in present \ missed : (i < j /\ stops[j] > 0) => stops[i] > 0

\* A signal drains every service that is there before the drain has passed its
\* place, unless the lifespan ends under it.
SignalDrains ==
  \A i \in DOMAIN Order :
    (arrived # {} /\ i \in present)
      ~> (pc[Exit] = "done" \/ stops[i] > 0 \/ i \in missed)

\* events.py:67, "Stop background services safely; idempotent to handle repeated
\* triggers.": when the lifespan has ended every service has been stopped, but
\* those that a drain begun during the start-up had passed.
EndsDrained ==
  pc[Exit] = "done" =>
    /\ \A i \in present \ missed : stops[i] > 0
    /\ \A t \in Tasks : pc[t] # "draining"

\* Services are stopped once and in order, and with at most one signal, whenever
\* it comes, the lifespan ends only after the last of them; none is passed by
\* the drain but by a signal during the start-up.
ServicesDrain ==
  /\ StoppedOnceInOrder
  /\ Cardinality(arrived) <= 1 => EndsDrained
  /\ missed # {} => arrived # {}

\* The docstring of lifespan (events.py:125-128): on shutdown resources "are
\* properly initialized and released".  A signal during the start-up (:138
\* registers the handlers "early") drains once and for all: what is started
\* behind the drain is in use until the process ends, and never stopped.
EverythingIsReleased ==
  (pc[Exit] = "done" /\ Cardinality(arrived) <= 1) => \A i \in present : stops[i] > 0

==============================================================================
