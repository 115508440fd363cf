----------------------------- MODULE KafkaBatches -----------------------------
(***************************************************************************)
(* HighThroughputKafkaConsumer: messages delivered by Kafka are collected  *)
(* in one MessageBatch per partition; a round hands every batch to the     *)
(* model, counts the failures of each message id and, after                *)
(* kafka_max_retries of them, sends the message to the dead-letter queue.  *)
(* The coroutine of the round gives way only while a prediction is         *)
(* awaited: deliveries, stop and time come in between.  The poll loop is   *)
(* not part of the repository: nothing in src/app calls add_message or     *)
(* _is_duplicate_message.  Deliver calls them in the order in which their  *)
(* answers make sense, the look at the offset first, and as the tests do   *)
(* it adds whether or not there is room.  A partition without an entry in  *)
(* _message_batches and one with an empty batch are both <<>> here: an     *)
(* entry is made for its first message and removed when its batch is       *)
(* cleared.                                                                *)
(***************************************************************************)
EXTENDS Naturals, Sequences, FiniteSets, SequencesExt

CONSTANTS
  Partitions,     \* (topic, partition) pairs
  Offsets,        \* offsets of a partition
  IdAt,           \* the message id published at a partition and offset
  MaxSize,        \* kafka_batch_size
  MaxRetries,     \* kafka_max_retries
  History,        \* _max_offset_history
  FlagOnTop,      \* the settings object has kafka_dlq_enabled itself, and set
  KafkaSection,   \* the settings object has the section .kafka
  SendsSucceed,   \* the dead-letter topic takes every message sent to it
  Deliveries,     \* bound: deliveries that are no duplicates
  MaxTime,        \* bound on time
  Window,         \* kafka_metrics_window_s
  None

Messages == Partitions \X Offsets

KafkaAssumption ==
  /\ IsFiniteSet(Partitions) /\ IsFiniteSet(Offsets) /\ Offsets \subseteq Nat \ {0}
  /\ MaxSize \in Nat \ {0} /\ MaxRetries \in Nat \ {0}
  /\ History \in Nat \ {0} /\ Window \in Nat \ {0}
  /\ {FlagOnTop, KafkaSection, SendsSucceed} \subseteq BOOLEAN
  /\ Deliveries \in Nat /\ MaxTime \in Nat
  /\ None \notin Partitions

Ids == {IdAt[m] : m \in Messages}

VARIABLES
  running,      \* _running
  batch,        \* _message_batches: the messages of each partition, oldest first
  recent,       \* _recent_offsets, oldest first
  tracker,      \* _retry_tracker; an absent id counts 0
  todo,         \* batch keys the round has still to look at
  current,      \* partition whose prediction is awaited, or None
  asked,        \* the messages handed to the model for it
  dead,         \* messages in the dead-letter topic
  metrics,      \* ConsumerMetrics
  now,
  \* history of the behaviour, read by no action
  accepted,     \* per partition, the offsets taken for new, in order
  handled,      \* how often each message went through the model
  late,         \* messages that joined a batch whose prediction was awaited
  refused,      \* messages whose batch was full
  failures,     \* failed results per id
  givenUp       \* per id, how often its retries were used up

consumer == <<running, batch, recent, tracker, todo, current, asked, dead, metrics>>
history  == <<accepted, handled, late, refused, failures, givenUp>>
vars     == <<consumer, now, history>>

TypeOK ==
  /\ running \in BOOLEAN
  /\ batch \in [Partitions -> Seq(Messages)]
  /\ recent \in [Partitions -> Seq(Offsets)]
  /\ tracker \in [Ids -> Nat]
  /\ todo \in SUBSET Partitions
  /\ current \in Partitions \union {None}
  /\ asked \in Seq(Messages)
  /\ dead \in SUBSET Messages
  /\ metrics \in [consumed : Nat, processed : Nat, failed : Nat, commit : Nat, tps : BOOLEAN]
  /\ now \in Nat
  /\ accepted \in [Partitions -> Seq(Offsets)]
  /\ handled \in [Messages -> Nat]
  /\ late \in SUBSET Messages /\ refused \in SUBSET Messages
  /\ failures \in [Ids -> Nat] /\ givenUp \in [Ids -> Nat]

Init ==
  /\ running = FALSE
  /\ batch = [p \in Partitions |-> <<>>]
  /\ recent = [p \in Partitions |-> <<>>]
  /\ tracker = [i \in Ids |-> 0]
  /\ todo = {} /\ current = None /\ asked = <<>>
  /\ dead = {}
  /\ metrics = [consumed |-> 0, processed |-> 0, failed |-> 0, commit |-> 0, tps |-> FALSE]
  /\ now = 0
  /\ accepted = [p \in Partitions |-> <<>>]
  /\ handled = [m \in Messages |-> 0]
  /\ late = {} /\ refused = {}
  /\ failures = [i \in Ids |-> 0] /\ givenUp = [i \in Ids |-> 0]

\* __init__ builds the dead-letter queue if the settings object itself has the
\* flag; the producer is then configured from settings.kafka, and an exception
\* leaves _dlq None.
DlqBuilt == FlagOnTop /\ KafkaSection

-----------------------------------------------------------------------------
Start ==
  /\ ~running
  /\ running' = TRUE
  /\ UNCHANGED <<batch, recent, tracker, todo, current, asked, dead, metrics, now, history>>

\* stop() cancels the consumer threads, of which there are none, and touches
\* no batch.
Stop ==
  /\ running
  /\ running' = FALSE
  /\ UNCHANGED <<batch, recent, tracker, todo, current, asked, dead, metrics, now, history>>

\* MessageBatch.add_message.
IsFull(b) == Len(b) >= MaxSize

\* The deque of _is_duplicate_message with one more offset.
Remember(offsets, o) ==
  LET longer == Append(offsets, o) IN
  IF Len(longer) > History THEN Tail(longer) ELSE longer

Accepted == FoldFunction(LAMBDA s, n : n + Len(s), 0, accepted)

\* One delivery: a repeated offset is dropped; a new one is remembered, and
\* then joins the batch of its partition, or is refused if that is full.
Deliver(p, o) ==
  /\ running
  /\ Accepted < Deliveries
  /\ ~Contains(recent[p], o)
  /\ recent' = [recent EXCEPT ![p] = Remember(@, o)]
  /\ accepted' = [accepted EXCEPT ![p] = Append(@, o)]
  /\ \/ /\ ~IsFull(batch[p])
        /\ batch' = [batch EXCEPT ![p] = Append(@, <<p, o>>)]
        /\ late' = IF current = p THEN late \union {<<p, o>>} ELSE late
        /\ UNCHANGED refused
     \/ /\ IsFull(batch[p])
        /\ refused' = refused \union {<<p, o>>}
        /\ UNCHANGED <<batch, late>>
  /\ UNCHANGED <<running, tracker, todo, current, asked, dead, metrics, now,
                 handled, failures, givenUp>>

-----------------------------------------------------------------------------
\* _process_ready_batches: the keys are listed once, at the beginning.
StartRound ==
  /\ todo = {} /\ current = None
  /\ todo' = {p \in Partitions : batch[p] # <<>>}
  /\ todo' # {}
  /\ UNCHANGED <<running, batch, recent, tracker, current, asked, dead, metrics, now, history>>

\* The texts and ids are copied out of the batch, then the prediction is awaited.
Ask(p) ==
  /\ current = None /\ p \in todo
  /\ current' = p
  /\ asked' = batch[p]
  /\ UNCHANGED <<running, batch, recent, tracker, todo, dead, metrics, now, history>>

\* mutant
ClearedAll(p) == [q \in Partitions |-> <<>>]

\* The batch is cleared and its entry removed, whatever joined it meanwhile.
Cleared(p) == [batch EXCEPT ![p] = <<>>]

\* _update_throughput: an average over the time since the last commit.
Throughput(consumed, commit) ==
  IF now - commit >= Window THEN consumed > 0 ELSE metrics.tps

\* The counters after a successful prediction of n messages; the last commit
\* is now.
Counted(n) ==
  [metrics EXCEPT !.consumed = @ + n, !.processed = @ + n, !.commit = now,
                  !.tps = Throughput(metrics.consumed + n, now)]

CountedFailed(n) == [metrics EXCEPT !.consumed = @ + n, !.failed = @ + n]

EndOfBatch ==
  /\ batch' = Cleared(current)
  /\ todo' = todo \ {current}
  /\ current' = None /\ asked' = <<>>
  /\ handled' = [m \in Messages |->
       handled[m] + Cardinality({k \in DOMAIN asked : asked[k] = m})]

\* predict_batch answers one result per text.
AnswerOk ==
  /\ current # None
  /\ EndOfBatch
  /\ metrics' = Counted(Len(asked))
  /\ UNCHANGED <<running, recent, tracker, dead, now, accepted, late, refused, failures,
                 givenUp>>

\* One failed result: the count of its id grows, and at the limit the id is
\* given up and forgotten.
Retried(s, m) ==
  LET i == IdAt[m]
      n == s.tracker[i] + 1
  IN IF n >= MaxRetries
     THEN [tracker |-> [s.tracker EXCEPT ![i] = 0], over |-> s.over \union {m},
           ups |-> [s.ups EXCEPT ![i] = @ + 1]]
     ELSE [tracker |-> [s.tracker EXCEPT ![i] = n], over |-> s.over, ups |-> s.ups]

\* _handle_batch_results over the failed results of the awaited batch.
HandleFailures ==
  FoldLeft(Retried, [tracker |-> tracker, over |-> {}, ups |-> givenUp], asked)

\* send_to_dlq: each message reaches the topic or, after as many attempts as
\* the queue allows, does not; without a queue nothing is sent.
Sent(over) ==
  IF ~DlqBuilt THEN {{}} ELSE IF SendsSucceed THEN {over} ELSE SUBSET over

\* predict_batch raises: every message of the batch has failed.
AnswerFailed ==
  /\ current # None
  /\ EndOfBatch
  /\ metrics' = CountedFailed(Len(asked))
  /\ tracker' = HandleFailures.tracker
  /\ givenUp' = HandleFailures.ups
  /\ \E sent \in Sent(HandleFailures.over) : dead' = dead \union sent
  /\ failures' = [i \in Ids |->
       failures[i] + Cardinality({k \in DOMAIN asked : IdAt[asked[k]] = i})]
  /\ UNCHANGED <<running, recent, now, accepted, late, refused>>

Tick ==
  /\ now < MaxTime
  /\ now' = now + 1
  /\ UNCHANGED <<consumer, history>>

Round == StartRound \/ (\E p \in Partitions : Ask(p)) \/ AnswerOk \/ AnswerFailed

Next ==
  \/ Start \/ Stop \/ Tick \/ Round
  \/ \E p \in Partitions, o \in Offsets : Deliver(p, o)

Spec == Init /\ [][Next]_vars

-----------------------------------------------------------------------------
(* Properties *)

\* A message that was taken for new is in its batch, has been through the
\* model, joined the batch while its prediction was awaited, or met a full
\* batch: clearing after the await (kafka_consumer.py:335-339) and remembering
\* an offset before there is room for it lose those and no other message.
OnlyLateOrRefusedIsLost ==
  \A p \in Partitions : \A k \in DOMAIN accepted[p] :
    LET m == <<p, accepted[p][k]>> IN
    Contains(batch[p], m) \/ handled[m] > 0 \/ m \in late \/ m \in refused

\* Every failed result is on the books: what an id has failed is what is
\* counted for it now plus MaxRetries for each time it was given up, over
\* batches, partitions and deliveries that repeat the id (:353-361).
RetriesAddUp ==
  \A i \in Ids : failures[i] = tracker[i] + MaxRetries * givenUp[i]

\* An offset is taken for new again only after History other deliveries of its
\* partition: the window of remembered offsets drops the oldest (:388-394).
NoRepeatInWindow ==
  \A p \in Partitions : \A j, k \in DOMAIN accepted[p] :
    (j < k /\ accepted[p][j] = accepted[p][k]) => k - j > History

\* What is counted as consumed went through the model, message by message.
CountsWhatWasAsked ==
  /\ metrics.consumed = FoldFunction(+, 0, handled)
  /\ metrics.consumed = metrics.processed + metrics.failed

\* Whatever the order of deliveries, rounds and retries, no message leaves the
\* consumer's books.
MessagesAreAccounted ==
  OnlyLateOrRefusedIsLost /\ RetriesAddUp /\ NoRepeatInWindow /\ CountsWhatWasAsked

\* docs/kafka-high-throughput.md:10, "Exactly-once processing semantics" (:149,
\* :385): a message that was taken for new waits in its batch or has been
\* through the model, once.  Late and refused messages are not there at all,
\* and one that is delivered again after the window comes twice.
ExactlyOnce ==
  \A m \in Messages :
    Contains(accepted[m[1]], m[2])
      => handled[m] + Cardinality({k \in DOMAIN batch[m[1]] : batch[m[1]][k] = m}) = 1

\* IKafkaConsumer.stop (interfaces/kafka_interface.py:34): "Processes
\* remaining batched messages and commits offsets."
StopProcessesTheRest ==
  [][Stop => \A p \in Partitions : batch'[p] = <<>>]_vars

\* core/config/kafka.py:143, "Maximum number of retries before sending to DLQ":
\* an id whose retries are used up has a message in the dead-letter topic.
GivenUpIsDeadLettered ==
  [][\A i \in Ids : givenUp'[i] > givenUp[i] => \E m \in dead' : IdAt[m] = i]_vars

\* kafka_consumer.py:364: throughput follows the consumption; after a batch
\* that was committed a window after the start there is one.
ThroughputIsKnown == metrics.commit >= Window => metrics.tps

==============================================================================
