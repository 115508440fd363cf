--------------------------- MODULE FeedbackProducer ---------------------------
(***************************************************************************)
(* FeedbackService: one Kafka producer, created in a thread with retries   *)
(* by start(), or by a submission that finds the service not started, used *)
(* by submissions in threads, and closed by stop().  The coroutines        *)
(* interleave at every await on the executor.                              *)
(***************************************************************************)
EXTENDS Naturals, FiniteSets

CONSTANTS
  Clients,        \* submissions
  kafka_enabled,
  MayStop,        \* the drain of the application stops the service
  MaxRetries,     \* kafka_producer_init_retries
  None

FeedbackAssumption ==
  /\ kafka_enabled \in BOOLEAN /\ MayStop \in BOOLEAN
  /\ MaxRetries \in Nat \ {0}

\* A producer is named after whoever created it.
Lifespan == "lifespan"
Producers == Clients \union {Lifespan}

NamesAreDifferent ==
  Lifespan \notin Clients /\ None \notin Producers /\ None \notin BOOLEAN

VARIABLES
  producer, started,
  pc,         \* of each submission: idle, creating, sending or done
  attempts,   \* failed attempts of a submission to create its producer
  using,      \* the producer a submission sends with
  answer,     \* what submit_feedback returned, or None
  \* history
  open,       \* producers created and not closed
  acked,      \* submissions Kafka acknowledged
  stopped

vars == <<producer, started, pc, attempts, using, answer, open, acked, stopped>>

TypeOK ==
  /\ producer \in Producers \union {None} /\ started \in BOOLEAN
  /\ pc \in [Clients -> {"idle", "creating", "sending", "done"}]
  /\ attempts \in [Clients -> 0 .. MaxRetries]
  /\ using \in [Clients -> Producers \union {None}]
  /\ answer \in [Clients -> BOOLEAN \union {None}]
  /\ open \subseteq Producers /\ acked \subseteq Clients
  /\ stopped \in BOOLEAN

\* Requests are served after the lifespan has called start(): with Kafka there is
\* a producer, or none after all retries; without Kafka there is none.
Init ==
  /\ producer \in IF kafka_enabled THEN {Lifespan, None} ELSE {None}
  /\ started = TRUE
  /\ pc = [c \in Clients |-> "idle"]
  /\ attempts = [c \in Clients |-> 0]
  /\ using = [c \in Clients |-> None]
  /\ answer = [c \in Clients |-> None]
  /\ open = {producer} \ {None}
  /\ acked = {} /\ stopped = FALSE

Answer(c, a) ==
  /\ answer' = [answer EXCEPT ![c] = a]
  /\ pc' = [pc EXCEPT ![c] = "done"]

\* What a submission that finds no producer returns.
WithoutProducer == ~kafka_enabled

\* submit_feedback once the service is started: no producer, or send with p.
GoOn(c, p) ==
  IF p = None
  THEN Answer(c, WithoutProducer) /\ UNCHANGED using
  ELSE /\ pc' = [pc EXCEPT ![c] = "sending"]
       /\ using' = [using EXCEPT ![c] = p]
       /\ UNCHANGED answer

\* The submission arrives; a service that is not started is started by it.
Submit(c) ==
  /\ pc[c] = "idle"
  /\ IF started THEN GoOn(c, producer)
     ELSE pc' = [pc EXCEPT ![c] = "creating"] /\ UNCHANGED <<using, answer>>
  /\ UNCHANGED <<producer, started, attempts, open, acked, stopped>>

\* The constructor returns in its thread: start() ends and the submission goes on.
Created(c) ==
  /\ pc[c] = "creating"
  /\ producer' = c /\ started' = TRUE
  /\ open' = open \union {c}
  /\ GoOn(c, c)
  /\ UNCHANGED <<attempts, acked, stopped>>

NextAttempt(n) == n + 1

\* mutant
OneMore(n) == n <= MaxRetries

Again(n) == n < MaxRetries

\* The constructor raises: again after a pause, or on without a producer, also if
\* another submission has created one meanwhile.
NotCreated(c) ==
  /\ pc[c] = "creating"
  /\ attempts' = [attempts EXCEPT ![c] = NextAttempt(@)]
  /\ IF Again(attempts'[c]) THEN UNCHANGED <<producer, started, pc, using, answer>>
     ELSE /\ producer' = None /\ started' = TRUE
          /\ GoOn(c, None)
  /\ UNCHANGED <<open, acked, stopped>>

MaySend(c) == using[c] \in open

\* Kafka acknowledges; a closed producer raises instead.
Acknowledged(c) ==
  /\ pc[c] = "sending" /\ MaySend(c)
  /\ acked' = acked \union {c}
  /\ Answer(c, TRUE)
  /\ UNCHANGED <<producer, started, attempts, using, open, stopped>>

OnError == FALSE

\* The send raises or times out; the record may have been delivered all the same.
NotAcknowledged(c) ==
  /\ pc[c] = "sending"
  /\ Answer(c, OnError)
  /\ UNCHANGED <<producer, started, attempts, using, open, acked, stopped>>

ProducerAfterStop == None

\* stop(): a service without a producer stays started.
Stop ==
  /\ MayStop /\ ~stopped
  /\ stopped' = TRUE
  /\ IF producer = None THEN UNCHANGED <<producer, started, open>>
     ELSE /\ open' = open \ {producer}
          /\ producer' = ProducerAfterStop /\ started' = FALSE
  /\ UNCHANGED <<pc, attempts, using, answer, acked>>

Next ==
  \/ \E c \in Clients :
       \/ Submit(c) \/ Created(c) \/ NotCreated(c)
       \/ Acknowledged(c) \/ NotAcknowledged(c)
  \/ Stop

Fairness ==
  \A c \in Clients :
    /\ WF_vars(Submit(c)) /\ WF_vars(Created(c) \/ NotCreated(c))
    /\ WF_vars(Acknowledged(c) \/ NotAcknowledged(c))

Spec == Init /\ [][Next]_vars /\ Fairness

-----------------------------------------------------------------------------
(* Properties *)

\* True is answered only for a feedback Kafka has acknowledged, or without Kafka:
\* never for one that met a stopped service, a lost producer or a failed restart
\* (feedback_service.py:92-164).
TrueMeansDelivered == \A c \in Clients : answer[c] = TRUE => c \in acked \/ ~kafka_enabled

\* The producer a submission finds is open: stop() never leaves a closed one behind.
HeldIsOpen == producer # None => producer \in open

\* What submissions are told agrees with Kafka, and what the service holds is open.
FeedbackIsHonest == TrueMeansDelivered /\ HeldIsOpen

\* Every submission is answered, although retries and a stop overtake it.
EveryoneIsAnswered == \A c \in Clients : <>(answer[c] # None)

\* feedback_service.py:53, "Close the Kafka producer.": after stop() no producer
\* stays open, once every submission has ended.
StopCloses ==
  (stopped /\ \A c \in Clients : pc[c] = "done") => open = {}

==============================================================================
