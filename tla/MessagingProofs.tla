---------------------------- MODULE MessagingProofs ----------------------------
(***************************************************************************)
(* Proofs about Messaging, for every value of the constants.  Each         *)
(* component has an inductive invariant: its initial states satisfy it     *)
(* (...Init), its steps keep it (...Next, ...Keeps), and it implies the    *)
(* property of the component (...Sound).  The end puts them together.      *)
(***************************************************************************)
EXTENDS Messaging, SequenceTheorems, FiniteSetTheorems, WellFoundedInduction, TLAPS

-----------------------------------------------------------------------------
(***************************************************************************)
(* The shadow mode.  What stop() waits for holds every prediction that was *)
(* running for an answered request when it was called.                     *)
(***************************************************************************)
ShadowInv ==
  /\ Shadow!TypeOK /\ Shadow!ShadowsAreTracked
  /\ \A r \in returned : shadow_pc[r] # "new"
  /\ before_stop \subseteq returned
  /\ phase = "stopping" =>
       \A r \in before_stop : shadow_pc[r] = "predicting" => r \in gathered

LEMMA ShadowInit == Shadow!Init => ShadowInv
  BY DEF Shadow!Init, ShadowInv, Shadow!TypeOK, Shadow!ShadowsAreTracked,
         Shadow!NoneUntracked, Shadow!NothingLeftBehind

LEMMA ShadowNext ==
  ASSUME ShadowInv, [Shadow!Next]_(Shadow!vars)
  PROVE  ShadowInv'
  <1> USE DEF ShadowInv, Shadow!TypeOK, Shadow!ShadowsAreTracked,
              Shadow!NoneUntracked, Shadow!NothingLeftBehind
  <1>1. CASE Shadow!Start
    BY <1>1 DEF Shadow!Start
  <1>2. ASSUME NEW r \in Requests, Shadow!Dispatch(r)
        PROVE  ShadowInv'
    <2>1. r \notin returned /\ r \notin before_stop
      BY <1>2 DEF Shadow!Dispatch
    <2> QED BY <1>2, <2>1 DEF Shadow!Dispatch, Shadow!Tracked
  <1>3. ASSUME NEW r \in Requests, Shadow!Predicted(r)
        PROVE  ShadowInv'
    BY <1>3 DEF Shadow!Predicted
  <1>4. CASE Shadow!StopBegins
    BY <1>4 DEF Shadow!StopBegins, Shadow!Gathered
  <1>5. CASE Shadow!StopEnds
    BY <1>5 DEF Shadow!StopEnds, Shadow!Waiting
  <1>6. CASE UNCHANGED Shadow!vars
    BY <1>6 DEF Shadow!vars
  <1> QED BY <1>1, <1>2, <1>3, <1>4, <1>5, <1>6 DEF Shadow!Next

-----------------------------------------------------------------------------
(***************************************************************************)
(* The feedback service.  Nobody makes more attempts than there are, and   *)
(* what the service holds is open whoever created it.                      *)
(***************************************************************************)
FeedbackInv ==
  /\ Feedback!TypeOK /\ Feedback!FeedbackIsHonest
  /\ \A c \in Clients :
       /\ feedback_pc[c] = "idle" => attempts[c] = 0
       /\ feedback_pc[c] = "creating" => attempts[c] < MaxRetries

\* Answered or not, a submission is told nothing that Kafka does not know.
LEMMA AnswersAreHonest ==
  ASSUME FeedbackInv, NEW c \in Clients, NEW a \in BOOLEAN,
         Feedback!Answer(c, a), acked \subseteq acked', a => c \in acked' \/ ~kafka_enabled
  PROVE  /\ feedback_pc' = [feedback_pc EXCEPT ![c] = "done"]
         /\ answer' \in [Clients -> BOOLEAN \union {None}]
         /\ Feedback!TrueMeansDelivered'
  <1>1. answer \in [Clients -> BOOLEAN \union {None}]
    BY DEF FeedbackInv, Feedback!TypeOK
  <1>2. answer' = [answer EXCEPT ![c] = a]
    BY DEF Feedback!Answer
  <1>3. \A d \in Clients : d # c => answer'[d] = answer[d]
    BY <1>1, <1>2
  <1>4. answer'[c] = a
    BY <1>1, <1>2
  <1>5. \A d \in Clients : answer[d] = TRUE => d \in acked \/ ~kafka_enabled
    BY DEF FeedbackInv, Feedback!FeedbackIsHonest, Feedback!TrueMeansDelivered
  <1>6. \A d \in Clients : answer'[d] = TRUE => d \in acked' \/ ~kafka_enabled
    BY <1>3, <1>4, <1>5, Zenon
  <1> QED BY <1>1, <1>2, <1>6 DEF Feedback!Answer, Feedback!TrueMeansDelivered

\* A submission goes on with an open producer or with none.
LEMMA GoingOnIsHonest ==
  ASSUME FeedbackInv, NEW c \in Clients, NEW p \in Feedback!Producers \union {None},
         Feedback!GoOn(c, p), UNCHANGED acked
  PROVE  /\ feedback_pc' \in {[feedback_pc EXCEPT ![c] = "done"],
                             [feedback_pc EXCEPT ![c] = "sending"]}
         /\ using' \in [Clients -> Feedback!Producers \union {None}]
         /\ answer' \in [Clients -> BOOLEAN \union {None}]
         /\ Feedback!TrueMeansDelivered'
  <1>1. /\ using \in [Clients -> Feedback!Producers \union {None}]
        /\ answer \in [Clients -> BOOLEAN \union {None}]
        /\ Feedback!TrueMeansDelivered
    BY DEF FeedbackInv, Feedback!TypeOK, Feedback!FeedbackIsHonest
  <1>2. CASE p = None
    <2>1. PICK a \in BOOLEAN : a = ~kafka_enabled
      OBVIOUS
    <2>2. Feedback!Answer(c, a) /\ UNCHANGED using
      BY <1>2, <2>1, Zenon DEF Feedback!GoOn, Feedback!WithoutProducer
    <2>3. a => c \in acked' \/ ~kafka_enabled
      BY <2>1
    <2>4. acked \subseteq acked'
      OBVIOUS
    <2> QED BY <1>1, <2>2, <2>3, <2>4, AnswersAreHonest
  <1>3. CASE p # None
    <2>1. /\ feedback_pc' = [feedback_pc EXCEPT ![c] = "sending"]
          /\ using' = [using EXCEPT ![c] = p] /\ answer' = answer
      BY <1>3, Zenon DEF Feedback!GoOn
    <2>2. Feedback!TrueMeansDelivered'
      BY <1>1, <2>1, Zenon DEF Feedback!TrueMeansDelivered
    <2> QED BY <1>1, <2>1, <2>2
  <1> QED BY <1>2, <1>3

LEMMA FeedbackInit == Feedback!Init => FeedbackInv
  <1> SUFFICES ASSUME Feedback!Init PROVE FeedbackInv
    OBVIOUS
  <1>1. MaxRetries \in Nat \ {0} /\ None \notin BOOLEAN
    BY Assumptions DEF Feedback!FeedbackAssumption, Feedback!NamesAreDifferent
  <1>2. /\ producer \in Feedback!Producers \union {None}
        /\ producer # None => producer \in open
        /\ open \subseteq Feedback!Producers
    BY DEF Feedback!Init, Feedback!Producers
  <1>3. Feedback!TypeOK /\ Feedback!HeldIsOpen
    <2>1. /\ attempts \in [Clients -> 0 .. MaxRetries]
          /\ feedback_pc \in [Clients -> {"idle", "creating", "sending", "done"}]
      BY <1>1 DEF Feedback!Init
    <2>2. /\ answer \in [Clients -> BOOLEAN \union {None}]
          /\ using \in [Clients -> Feedback!Producers \union {None}]
      BY DEF Feedback!Init
    <2>3. started \in BOOLEAN /\ stopped \in BOOLEAN /\ acked \subseteq Clients
      BY DEF Feedback!Init
    <2> QED BY <1>2, <2>1, <2>2, <2>3 DEF Feedback!TypeOK, Feedback!HeldIsOpen
  <1>4. \A c \in Clients : answer[c] = None /\ None # TRUE
    BY <1>1 DEF Feedback!Init
  <1>5. Feedback!TrueMeansDelivered
    BY <1>4, Zenon DEF Feedback!TrueMeansDelivered
  <1> QED BY <1>1, <1>3, <1>5 DEF Feedback!Init, FeedbackInv, Feedback!FeedbackIsHonest

LEMMA FeedbackNext ==
  ASSUME FeedbackInv, [Feedback!Next]_(Feedback!vars)
  PROVE  FeedbackInv'
  <1> USE DEF FeedbackInv, Feedback!TypeOK, Feedback!FeedbackIsHonest, Feedback!HeldIsOpen
  <1>1. ASSUME NEW c \in Clients, Feedback!Submit(c)
        PROVE  FeedbackInv'
    <2>1. /\ UNCHANGED <<producer, started, attempts, open, acked, stopped>>
          /\ feedback_pc[c] = "idle"
      BY <1>1 DEF Feedback!Submit
    <2>2. CASE started
      <3>1. Feedback!GoOn(c, producer)
        BY <1>1, <2>2 DEF Feedback!Submit
      <3>2. /\ feedback_pc' \in {[feedback_pc EXCEPT ![c] = "done"],
                                [feedback_pc EXCEPT ![c] = "sending"]}
            /\ using' \in [Clients -> Feedback!Producers \union {None}]
            /\ answer' \in [Clients -> BOOLEAN \union {None}]
            /\ Feedback!TrueMeansDelivered'
        BY <2>1, <3>1, GoingOnIsHonest
      <3> QED BY <2>1, <3>2
    <2>3. CASE ~started
      <3>1. /\ feedback_pc' = [feedback_pc EXCEPT ![c] = "creating"]
            /\ using' = using /\ answer' = answer
        BY <1>1, <2>3 DEF Feedback!Submit
      <3>2. Feedback!TrueMeansDelivered'
        BY <2>1, <3>1 DEF Feedback!TrueMeansDelivered
      <3>3. MaxRetries > 0
        BY Assumptions DEF Feedback!FeedbackAssumption
      <3> QED BY <2>1, <3>1, <3>2, <3>3
    <2> QED BY <2>2, <2>3
  <1>2. ASSUME NEW c \in Clients, Feedback!Created(c)
        PROVE  FeedbackInv'
    <2>1. /\ producer' = c /\ started' = TRUE /\ open' = open \union {c}
          /\ UNCHANGED <<attempts, acked, stopped>> /\ Feedback!GoOn(c, c)
          /\ c \in Feedback!Producers
      BY <1>2 DEF Feedback!Created, Feedback!Producers
    <2>2. /\ feedback_pc' \in {[feedback_pc EXCEPT ![c] = "done"],
                              [feedback_pc EXCEPT ![c] = "sending"]}
          /\ using' \in [Clients -> Feedback!Producers \union {None}]
          /\ answer' \in [Clients -> BOOLEAN \union {None}]
          /\ Feedback!TrueMeansDelivered'
      BY <2>1, GoingOnIsHonest
    <2> QED BY <2>1, <2>2
  <1>3. ASSUME NEW c \in Clients, Feedback!NotCreated(c)
        PROVE  FeedbackInv'
    <2>1. /\ feedback_pc[c] = "creating"
          /\ attempts' = [attempts EXCEPT ![c] = attempts[c] + 1]
          /\ UNCHANGED <<open, acked, stopped>>
      BY <1>3 DEF Feedback!NotCreated, Feedback!NextAttempt
    <2>2. MaxRetries \in Nat /\ attempts'[c] = attempts[c] + 1 /\ attempts[c] < MaxRetries
      BY <2>1, Assumptions DEF Feedback!FeedbackAssumption
    <2>3. attempts' \in [Clients -> 0 .. MaxRetries]
      BY <2>1, <2>2
    <2>4. CASE attempts'[c] < MaxRetries
      <3>1. UNCHANGED <<producer, started, feedback_pc, using, answer>>
        BY <1>3, <2>4 DEF Feedback!NotCreated, Feedback!Again
      <3>2. Feedback!TrueMeansDelivered'
        BY <2>1, <3>1 DEF Feedback!TrueMeansDelivered
      <3> QED BY <2>1, <2>3, <2>4, <3>1, <3>2
    <2>5. CASE ~(attempts'[c] < MaxRetries)
      <3>1. producer' = None /\ started' = TRUE /\ Feedback!GoOn(c, None)
        BY <1>3, <2>5 DEF Feedback!NotCreated, Feedback!Again
      <3>2. /\ feedback_pc' \in {[feedback_pc EXCEPT ![c] = "done"],
                                [feedback_pc EXCEPT ![c] = "sending"]}
            /\ using' \in [Clients -> Feedback!Producers \union {None}]
            /\ answer' \in [Clients -> BOOLEAN \union {None}]
            /\ Feedback!TrueMeansDelivered'
        BY <2>1, <3>1, GoingOnIsHonest
      <3> QED BY <2>1, <2>3, <3>1, <3>2
    <2> QED BY <2>4, <2>5
  <1>4. ASSUME NEW c \in Clients, Feedback!Acknowledged(c)
        PROVE  FeedbackInv'
    <2>1. /\ Feedback!Answer(c, TRUE) /\ acked' = acked \union {c}
          /\ UNCHANGED <<producer, started, attempts, using, open, stopped>>
      BY <1>4 DEF Feedback!Acknowledged
    <2>2. /\ feedback_pc' = [feedback_pc EXCEPT ![c] = "done"]
          /\ answer' \in [Clients -> BOOLEAN \union {None}]
          /\ Feedback!TrueMeansDelivered'
      BY <2>1, AnswersAreHonest
    <2> QED BY <2>1, <2>2
  <1>5. ASSUME NEW c \in Clients, Feedback!NotAcknowledged(c)
        PROVE  FeedbackInv'
    <2>1. /\ Feedback!Answer(c, FALSE)
          /\ UNCHANGED <<producer, started, attempts, using, open, acked, stopped>>
      BY <1>5 DEF Feedback!NotAcknowledged, Feedback!OnError
    <2>2. /\ feedback_pc' = [feedback_pc EXCEPT ![c] = "done"]
          /\ answer' \in [Clients -> BOOLEAN \union {None}]
          /\ Feedback!TrueMeansDelivered'
      BY <2>1, AnswersAreHonest
    <2> QED BY <2>1, <2>2
  <1>6. CASE Feedback!Stop
    <2>1. UNCHANGED <<feedback_pc, attempts, using, answer, acked>>
      BY <1>6 DEF Feedback!Stop
    <2>2. Feedback!TrueMeansDelivered'
      BY <2>1 DEF Feedback!TrueMeansDelivered
    <2> QED BY <1>6, <2>1, <2>2 DEF Feedback!Stop, Feedback!ProducerAfterStop
  <1>7. CASE UNCHANGED Feedback!vars
    BY <1>7 DEF Feedback!vars, Feedback!TrueMeansDelivered
  <1> QED BY <1>1, <1>2, <1>3, <1>4, <1>5, <1>6, <1>7 DEF Feedback!Next

-----------------------------------------------------------------------------
(***************************************************************************)
(* The data lake writer.  The argument is one of custody: a record that    *)
(* was accepted is in one place of the buffer or of one task's data, or it *)
(* has left for storage or was cut off.  A flush moves the whole buffer to *)
(* one task, a failure moves it back, and both leave every record one      *)
(* place.                                                                  *)
(***************************************************************************)
Distinct(s) == \A j, k \in DOMAIN s : j # k => s[j] # s[k]
Disjoint(s, t) == Writer!ToSet(s) \intersect Writer!ToSet(t) = {}

\* Only a task that uploads has records.
OnlyUploadsHold == \A t \in Writer!Tasks : writer_pc[t] # "uploading" => data[t] = <<>>

\* No record is in two places.
OnePlace ==
  /\ Distinct(buffer)
  /\ \A t \in Writer!Tasks : Distinct(data[t]) /\ Disjoint(data[t], buffer)
  /\ \A t, u \in Writer!Tasks : t # u => Disjoint(data[t], data[u])

\* What is held was given to write_prediction.
HeldWasWritten ==
  /\ Writer!ToSet(buffer) \subseteq written
  /\ \A t \in Writer!Tasks : Writer!ToSet(data[t]) \subseteq written

\* What was given is held, stored or cut off.
WrittenIsSomewhere ==
  \A r \in written :
    \/ r \in Writer!ToSet(buffer) \/ stored[r] > 0 \/ r \in cut
    \/ \E t \in Writer!Tasks : r \in Writer!ToSet(data[t])

Custody ==
  Writer!TypeOK /\ OnlyUploadsHold /\ OnePlace /\ HeldWasWritten /\ WrittenIsSomewhere

LEMMA DomainOfSeq ==
  ASSUME NEW s \in Seq(Records)
  PROVE  DOMAIN s = 1 .. Len(s) /\ Len(s) \in Nat
  BY LenProperties

LEMMA ContainsIsIn ==
  ASSUME NEW s \in Seq(Records), NEW r
  PROVE  Writer!Contains(s, r) <=> r \in Writer!ToSet(s)
  BY DomainOfSeq DEF Writer!Contains, Writer!ToSet

LEMMA EmptyHoldsNothing ==
  /\ << >> \in Seq(Records) /\ Writer!ToSet(<< >>) = {} /\ Distinct(<< >>)
  <1>1. << >> \in Seq(Records) /\ DOMAIN << >> = {}
    OBVIOUS
  <1> QED BY <1>1 DEF Writer!ToSet, Distinct

LEMMA AppendHolds ==
  ASSUME NEW s \in Seq(Records), NEW r \in Records
  PROVE  /\ Append(s, r) \in Seq(Records)
         /\ Writer!ToSet(Append(s, r)) = Writer!ToSet(s) \union {r}
         /\ Distinct(s) /\ r \notin Writer!ToSet(s) => Distinct(Append(s, r))
  <1> DEFINE a == Append(s, r)
  <1>1. /\ a \in Seq(Records) /\ Len(a) = Len(s) + 1
        /\ \A i \in 1 .. Len(s) : a[i] = s[i]
        /\ a[Len(s) + 1] = r
    BY AppendProperties
  <1>2. /\ DOMAIN s = 1 .. Len(s) /\ Len(s) \in Nat
        /\ DOMAIN a = 1 .. Len(s) + 1
    BY <1>1, DomainOfSeq
  <1> HIDE DEF a
  <1>3. \A i \in DOMAIN a : i \in DOMAIN s \/ i = Len(s) + 1
    BY <1>2
  <1>4. DOMAIN s \subseteq DOMAIN a /\ Len(s) + 1 \in DOMAIN a
    BY <1>2
  <1>5. Writer!ToSet(a) = Writer!ToSet(s) \union {r}
    BY <1>1, <1>2, <1>3, <1>4 DEF Writer!ToSet
  <1>6. ASSUME Distinct(s), r \notin Writer!ToSet(s)
        PROVE  Distinct(a)
    <2> SUFFICES ASSUME NEW j \in DOMAIN a, NEW k \in DOMAIN a, j # k
                 PROVE  a[j] # a[k]
      BY DEF Distinct
    <2>1. \A i \in DOMAIN s : s[i] # r
      BY <1>6 DEF Writer!ToSet
    <2> QED BY <1>1, <1>2, <1>3, <1>6, <2>1 DEF Distinct
  <1> QED BY <1>1, <1>5, <1>6 DEF a

LEMMA ConcatHolds ==
  ASSUME NEW s \in Seq(Records), NEW u \in Seq(Records)
  PROVE  /\ s \o u \in Seq(Records)
         /\ Writer!ToSet(s \o u) = Writer!ToSet(s) \union Writer!ToSet(u)
         /\ Distinct(s) /\ Distinct(u) /\ Disjoint(s, u) => Distinct(s \o u)
  <1> DEFINE c == s \o u
  <1>1. /\ c \in Seq(Records) /\ Len(c) = Len(s) + Len(u)
        /\ \A i \in 1 .. Len(c) :
             c[i] = IF i <= Len(s) THEN s[i] ELSE u[i - Len(s)]
    BY ConcatProperties
  <1>2. /\ DOMAIN s = 1 .. Len(s) /\ Len(s) \in Nat
        /\ DOMAIN u = 1 .. Len(u) /\ Len(u) \in Nat
        /\ DOMAIN c = 1 .. Len(s) + Len(u)
    BY <1>1, DomainOfSeq
  <1> HIDE DEF c
  <1>3. ASSUME NEW i \in DOMAIN c
        PROVE  \/ i \in DOMAIN s /\ c[i] = s[i]
               \/ i \notin DOMAIN s /\ i - Len(s) \in DOMAIN u /\ c[i] = u[i - Len(s)]
    BY <1>1, <1>2
  <1>4. ASSUME NEW i \in DOMAIN s
        PROVE  i \in DOMAIN c /\ c[i] = s[i]
    BY <1>1, <1>2
  <1>5. ASSUME NEW i \in DOMAIN u
        PROVE  i + Len(s) \in DOMAIN c /\ c[i + Len(s)] = u[i]
    BY <1>1, <1>2
  <1>6. Writer!ToSet(c) = Writer!ToSet(s) \union Writer!ToSet(u)
    <2>1. Writer!ToSet(c) \subseteq Writer!ToSet(s) \union Writer!ToSet(u)
      BY <1>3 DEF Writer!ToSet
    <2>2. Writer!ToSet(s) \union Writer!ToSet(u) \subseteq Writer!ToSet(c)
      <3>1. ASSUME NEW x \in Writer!ToSet(s) PROVE x \in Writer!ToSet(c)
        BY <1>4, <3>1 DEF Writer!ToSet
      <3>2. ASSUME NEW x \in Writer!ToSet(u) PROVE x \in Writer!ToSet(c)
        BY <1>5, <3>2 DEF Writer!ToSet
      <3> QED BY <3>1, <3>2
    <2> QED BY <2>1, <2>2
  <1>7. ASSUME Distinct(s), Distinct(u), Disjoint(s, u)
        PROVE  Distinct(c)
    <2> SUFFICES ASSUME NEW j \in DOMAIN c, NEW k \in DOMAIN c, j # k
                 PROVE  c[j] # c[k]
      BY DEF Distinct
    <2>1. \A i \in DOMAIN s, l \in DOMAIN u : s[i] # u[l]
      BY <1>7 DEF Disjoint, Writer!ToSet
    <2>2. CASE j \in DOMAIN s /\ k \in DOMAIN s
      BY <1>3, <1>7, <2>2 DEF Distinct
    <2>3. CASE j \in DOMAIN s /\ k \notin DOMAIN s
      BY <1>3, <2>1, <2>3
    <2>4. CASE j \notin DOMAIN s /\ k \in DOMAIN s
      BY <1>3, <2>1, <2>4
    <2>5. CASE j \notin DOMAIN s /\ k \notin DOMAIN s
      <3>1. j - Len(s) # k - Len(s)
        BY <1>2
      <3> QED BY <1>3, <1>7, <2>5, <3>1 DEF Distinct
    <2> QED BY <2>2, <2>3, <2>4, <2>5
  <1> QED BY <1>1, <1>6, <1>7 DEF c

\* What an upload brings to storage stays there.
LEMMA PutStores ==
  ASSUME Writer!TypeOK, NEW s \in Seq(Records)
  PROVE  /\ Writer!Put(s) \in [Records -> Nat]
         /\ \A r \in Records : stored[r] > 0 \/ r \in Writer!ToSet(s) => Writer!Put(s)[r] > 0
  <1>1. \A r \in Records : stored[r] \in Nat
    BY DEF Writer!TypeOK
  <1> QED BY <1>1, ContainsIsIn DEF Writer!Put

LEMMA WriterInit == Writer!Init => Custody
  <1> SUFFICES ASSUME Writer!Init PROVE Custody
    OBVIOUS
  <1>1. Writer!TypeOK
    <2>1. buffer \in Seq(Records) /\ data \in [Writer!Tasks -> Seq(Records)]
      BY EmptyHoldsNothing DEF Writer!Init
    <2>2. failed \in 0 .. Failures
      BY Assumptions DEF Writer!Init, Writer!WriterAssumption
    <2> QED BY <2>1, <2>2 DEF Writer!Init, Writer!TypeOK
  <1>2. \A t \in Writer!Tasks : data[t] = <<>>
    BY DEF Writer!Init
  <1>3. OnePlace /\ HeldWasWritten
    BY <1>2, EmptyHoldsNothing DEF Writer!Init, OnePlace, HeldWasWritten, Disjoint
  <1> QED BY <1>1, <1>2, <1>3 DEF Custody, OnlyUploadsHold, WrittenIsSomewhere, Writer!Init

\* The new record is in the buffer and nowhere else; the flush it may start
\* has nothing yet.
LEMMA WriteCustody ==
  ASSUME Custody, NEW r \in Records, Writer!Write(r)
  PROVE  Custody'
  <1>1. Writer!TypeOK /\ OnlyUploadsHold /\ OnePlace /\ HeldWasWritten /\ WrittenIsSomewhere
    BY DEF Custody
  <1>2. /\ buffer' = Append(buffer, r) /\ written' = written \union {r}
        /\ r \notin written
        /\ UNCHANGED <<initialized, data, stopping, stored, failed, cut>>
    BY DEF Writer!Write
  <1>3. \/ UNCHANGED <<writer_pc, batch_task>>
        \/ \E t \in Flushers : /\ writer_pc[t] = "unused" /\ writer_pc' = [writer_pc EXCEPT ![t] = "ready"]
                               /\ batch_task' = t
    BY DEF Writer!Write
  <1>4. r \notin Writer!ToSet(buffer) /\ \A t \in Writer!Tasks : r \notin Writer!ToSet(data[t])
    BY <1>1, <1>2 DEF HeldWasWritten
  <1>5. /\ buffer' \in Seq(Records)
        /\ Writer!ToSet(buffer') = Writer!ToSet(buffer) \union {r}
        /\ Distinct(buffer')
    <2>1. buffer \in Seq(Records) /\ Distinct(buffer)
      BY <1>1 DEF Writer!TypeOK, OnePlace
    <2> QED BY <1>2, <1>4, <2>1, AppendHolds
  <1>6. Flushers \subseteq Writer!Tasks
    BY DEF Writer!Tasks
  <1>7. Writer!TypeOK'
    BY <1>1, <1>2, <1>3, <1>5, <1>6 DEF Writer!TypeOK
  <1>8. OnlyUploadsHold'
    BY <1>1, <1>2, <1>3, <1>6 DEF Writer!TypeOK, OnlyUploadsHold
  <1>9. OnePlace'
    BY <1>1, <1>2, <1>4, <1>5 DEF OnePlace, Disjoint
  <1>10. HeldWasWritten'
    BY <1>1, <1>2, <1>5 DEF HeldWasWritten
  <1>11. WrittenIsSomewhere'
    BY <1>1, <1>2, <1>5 DEF WrittenIsSomewhere
  <1> QED BY <1>7, <1>8, <1>9, <1>10, <1>11 DEF Custody

\* The buffer becomes the data of a task that had none.
LEMMA FlushCustody ==
  ASSUME Custody, NEW t \in Writer!Tasks, Writer!Flush(t)
  PROVE  Custody'
  <1>1. Writer!TypeOK /\ OnlyUploadsHold /\ OnePlace /\ HeldWasWritten /\ WrittenIsSomewhere
    BY DEF Custody
  <1>2. UNCHANGED <<initialized, batch_task, stopping, stored, failed, written, cut>>
    BY DEF Writer!Flush
  <1>3. writer_pc[t] # "uploading"
    BY DEF Writer!Flush
  <1>4. data[t] = <<>> /\ Writer!ToSet(data[t]) = {}
    BY <1>1, <1>3, EmptyHoldsNothing DEF OnlyUploadsHold
  <1>5. CASE buffer = <<>>
    <2>1. writer_pc' = [writer_pc EXCEPT ![t] = Writer!AfterFlush(t)] /\ UNCHANGED <<buffer, data>>
      BY <1>5 DEF Writer!Flush
    <2>2. Writer!TypeOK'
      BY <1>1, <1>2, <2>1 DEF Writer!TypeOK, Writer!AfterFlush
    <2>3. OnlyUploadsHold'
      BY <1>1, <1>4, <2>1 DEF Writer!TypeOK, OnlyUploadsHold
    <2>4. OnePlace' /\ HeldWasWritten' /\ WrittenIsSomewhere'
      BY <1>1, <1>2, <2>1 DEF OnePlace, HeldWasWritten, WrittenIsSomewhere
    <2> QED BY <2>2, <2>3, <2>4 DEF Custody
  <1>6. CASE buffer # <<>>
    <2>1. /\ writer_pc' = [writer_pc EXCEPT ![t] = "uploading"]
          /\ data' = [data EXCEPT ![t] = buffer]
          /\ buffer' = <<>>
      BY <1>6 DEF Writer!Flush, Writer!LeftInBuffer
    <2>2. /\ data'[t] = buffer
          /\ \A u \in Writer!Tasks : u # t => data'[u] = data[u] /\ writer_pc'[u] = writer_pc[u]
      BY <1>1, <2>1 DEF Writer!TypeOK
    <2>3. /\ buffer' \in Seq(Records) /\ Writer!ToSet(buffer') = {} /\ Distinct(buffer')
      BY <2>1, EmptyHoldsNothing
    <2>4. Writer!TypeOK'
      BY <1>1, <1>2, <2>1, <2>3 DEF Writer!TypeOK
    <2>5. OnlyUploadsHold'
      BY <1>1, <2>1, <2>2 DEF Writer!TypeOK, OnlyUploadsHold
    <2>6. OnePlace'
      BY <1>1, <2>2, <2>3 DEF OnePlace, Disjoint
    <2>7. HeldWasWritten'
      BY <1>1, <1>2, <2>2, <2>3 DEF HeldWasWritten
    <2>8. WrittenIsSomewhere'
      <3> SUFFICES ASSUME NEW r \in written
                   PROVE  \/ stored[r] > 0 \/ r \in cut
                          \/ \E u \in Writer!Tasks : r \in Writer!ToSet(data'[u])
        BY <1>2 DEF WrittenIsSomewhere
      <3>1. CASE r \in Writer!ToSet(buffer)
        BY <2>2, <3>1
      <3>2. ASSUME NEW u \in Writer!Tasks, r \in Writer!ToSet(data[u])
            PROVE  \E v \in Writer!Tasks : r \in Writer!ToSet(data'[v])
        <4>1. u # t
          BY <1>4, <3>2
        <4> QED BY <2>2, <3>2, <4>1
      <3> QED BY <1>1, <3>1, <3>2 DEF WrittenIsSomewhere
    <2> QED BY <2>4, <2>5, <2>6, <2>7, <2>8 DEF Custody
  <1> QED BY <1>5, <1>6

\* A task that gives up its data, to storage, to the buffer or to nobody.
LEMMA ReleaseKeeps ==
  ASSUME Custody, NEW t \in Writer!Tasks, NEW x \in {"sleeping", "done"},
         writer_pc' = [writer_pc EXCEPT ![t] = x], data' = [data EXCEPT ![t] = <<>>],
         written' = written
  PROVE  /\ writer_pc' \in [Writer!Tasks -> {"unused", "ready", "sleeping", "uploading", "done"}]
         /\ data' \in [Writer!Tasks -> Seq(Records)]
         /\ OnlyUploadsHold'
         /\ \A u \in Writer!Tasks : /\ Distinct(data'[u]) /\ Disjoint(data'[u], buffer)
                                    /\ Disjoint(data'[u], data[t])
                                    /\ Writer!ToSet(data'[u]) \subseteq written
         /\ \A u, v \in Writer!Tasks : u # v => Disjoint(data'[u], data'[v])
         /\ \A u \in Writer!Tasks : Writer!ToSet(data[u]) = Writer!ToSet(data'[u]) \/ u = t
  <1>1. Writer!TypeOK /\ OnlyUploadsHold /\ OnePlace /\ HeldWasWritten
    BY DEF Custody
  <1>2. /\ data'[t] = <<>> /\ writer_pc'[t] = x
        /\ \A u \in Writer!Tasks : u # t => data'[u] = data[u] /\ writer_pc'[u] = writer_pc[u]
    BY <1>1 DEF Writer!TypeOK
  <1>3. Writer!ToSet(data'[t]) = {} /\ Distinct(data'[t])
    BY <1>2, EmptyHoldsNothing
  <1>4. /\ writer_pc' \in [Writer!Tasks -> {"unused", "ready", "sleeping", "uploading", "done"}]
        /\ data' \in [Writer!Tasks -> Seq(Records)]
    BY <1>1, EmptyHoldsNothing DEF Writer!TypeOK
  <1>5. OnlyUploadsHold'
    BY <1>1, <1>2 DEF OnlyUploadsHold
  <1>6. \A u \in Writer!Tasks : /\ Distinct(data'[u]) /\ Disjoint(data'[u], buffer)
                                /\ Disjoint(data'[u], data[t])
                                /\ Writer!ToSet(data'[u]) \subseteq written
    BY <1>1, <1>2, <1>3 DEF OnePlace, HeldWasWritten, Disjoint
  <1>7. \A u, v \in Writer!Tasks : u # v => Disjoint(data'[u], data'[v])
    BY <1>1, <1>2, <1>3 DEF OnePlace, Disjoint
  <1> QED BY <1>2, <1>4, <1>5, <1>6, <1>7

LEMMA UploadedCustody ==
  ASSUME Custody, NEW t \in Writer!Tasks, Writer!Uploaded(t)
  PROVE  Custody'
  <1>1. Writer!TypeOK /\ OnePlace /\ HeldWasWritten /\ WrittenIsSomewhere
    BY DEF Custody
  <1>2. /\ writer_pc' = [writer_pc EXCEPT ![t] = Writer!AfterFlush(t)]
        /\ data' = [data EXCEPT ![t] = <<>>]
        /\ stored' = Writer!Put(data[t])
        /\ UNCHANGED <<initialized, buffer, batch_task, stopping, failed, written, cut>>
    BY DEF Writer!Uploaded, Writer!EndFlush
  <1>3. Writer!AfterFlush(t) \in {"sleeping", "done"}
    BY DEF Writer!AfterFlush
  <1>4. /\ stored' \in [Records -> Nat]
        /\ \A r \in Records : stored[r] > 0 \/ r \in Writer!ToSet(data[t]) => stored'[r] > 0
    BY <1>1, <1>2, PutStores DEF Writer!TypeOK
  <1>5. Writer!TypeOK' /\ OnlyUploadsHold'
    BY <1>1, <1>2, <1>3, <1>4, ReleaseKeeps DEF Writer!TypeOK
  <1>6. OnePlace' /\ HeldWasWritten'
    BY <1>1, <1>2, <1>3, ReleaseKeeps DEF OnePlace, HeldWasWritten
  <1>7. WrittenIsSomewhere'
    <2> SUFFICES ASSUME NEW r \in written
                 PROVE  \/ r \in Writer!ToSet(buffer) \/ stored'[r] > 0 \/ r \in cut
                        \/ \E u \in Writer!Tasks : r \in Writer!ToSet(data'[u])
      BY <1>2 DEF WrittenIsSomewhere
    <2>1. r \in Records
      BY <1>1 DEF Writer!TypeOK
    <2>2. ASSUME NEW u \in Writer!Tasks, r \in Writer!ToSet(data[u])
          PROVE  stored'[r] > 0 \/ r \in Writer!ToSet(data'[u])
      BY <1>2, <1>3, <1>4, <2>1, <2>2, ReleaseKeeps
    <2> QED BY <1>1, <1>4, <2>1, <2>2 DEF WrittenIsSomewhere
  <1> QED BY <1>5, <1>6, <1>7 DEF Custody

LEMMA UploadFailedCustody ==
  ASSUME Custody, NEW t \in Writer!Tasks, Writer!UploadFailed(t)
  PROVE  Custody'
  <1>1. Writer!TypeOK /\ OnePlace /\ HeldWasWritten /\ WrittenIsSomewhere
    BY DEF Custody
  <1>2. /\ writer_pc' = [writer_pc EXCEPT ![t] = Writer!AfterFlush(t)]
        /\ data' = [data EXCEPT ![t] = <<>>]
        /\ stored' \in {stored, Writer!Put(data[t])}
        /\ buffer' = buffer \o data[t]
        /\ UNCHANGED <<initialized, batch_task, stopping, written, cut>>
    BY DEF Writer!UploadFailed, Writer!EndFlush, Writer!BackInBuffer
  <1>3. Writer!AfterFlush(t) \in {"sleeping", "done"}
    BY DEF Writer!AfterFlush
  <1>4. /\ stored' \in [Records -> Nat]
        /\ \A r \in Records : stored[r] > 0 => stored'[r] > 0
    <2>1. data[t] \in Seq(Records) /\ stored \in [Records -> Nat]
      BY <1>1 DEF Writer!TypeOK
    <2> QED BY <1>1, <1>2, <2>1, PutStores
  <1>5. /\ buffer' \in Seq(Records)
        /\ Writer!ToSet(buffer') = Writer!ToSet(buffer) \union Writer!ToSet(data[t])
        /\ Distinct(buffer')
    <2>1. buffer \in Seq(Records) /\ data[t] \in Seq(Records)
      BY <1>1 DEF Writer!TypeOK
    <2>2. Distinct(buffer) /\ Distinct(data[t]) /\ Disjoint(buffer, data[t])
      BY <1>1 DEF OnePlace, Disjoint
    <2> QED BY <1>2, <2>1, <2>2, ConcatHolds
  <1>6. failed' \in 0 .. Failures
    BY <1>1, Assumptions DEF Writer!UploadFailed, Writer!TypeOK, Writer!WriterAssumption
  <1>7. Writer!TypeOK' /\ OnlyUploadsHold'
    BY <1>1, <1>2, <1>3, <1>4, <1>5, <1>6, ReleaseKeeps DEF Writer!TypeOK
  <1>8. \A u \in Writer!Tasks : Disjoint(data'[u], buffer')
    <2>1. \A u \in Writer!Tasks : Disjoint(data'[u], buffer) /\ Disjoint(data'[u], data[t])
      BY <1>2, <1>3, ReleaseKeeps
    <2> QED BY <1>5, <2>1 DEF Disjoint
  <1>9. OnePlace'
    BY <1>2, <1>3, <1>5, <1>8, ReleaseKeeps DEF OnePlace
  <1>10. HeldWasWritten'
    <2>1. Writer!ToSet(buffer) \subseteq written /\ Writer!ToSet(data[t]) \subseteq written
      BY <1>1 DEF HeldWasWritten
    <2>2. \A u \in Writer!Tasks : Writer!ToSet(data'[u]) \subseteq written
      BY <1>2, <1>3, ReleaseKeeps
    <2> QED BY <1>2, <1>5, <2>1, <2>2 DEF HeldWasWritten
  <1>11. WrittenIsSomewhere'
    <2> SUFFICES ASSUME NEW r \in written
                 PROVE  \/ r \in Writer!ToSet(buffer') \/ stored'[r] > 0 \/ r \in cut
                        \/ \E u \in Writer!Tasks : r \in Writer!ToSet(data'[u])
      BY <1>2 DEF WrittenIsSomewhere
    <2>1. r \in Records
      BY <1>1 DEF Writer!TypeOK
    <2>2. ASSUME NEW u \in Writer!Tasks, r \in Writer!ToSet(data[u])
          PROVE  r \in Writer!ToSet(buffer') \/ r \in Writer!ToSet(data'[u])
      BY <1>2, <1>3, <1>5, <2>2, ReleaseKeeps
    <2> QED BY <1>1, <1>4, <1>5, <2>1, <2>2 DEF WrittenIsSomewhere
  <1> QED BY <1>7, <1>9, <1>10, <1>11 DEF Custody

\* What the cancelled task held is cut off; nobody else loses anything.
LEMMA StopCancelsCustody ==
  ASSUME Custody, Writer!StopCancels
  PROVE  Custody'
  <1>1. Writer!TypeOK /\ OnlyUploadsHold /\ OnePlace /\ HeldWasWritten /\ WrittenIsSomewhere
    BY DEF Custody
  <1>2. stopping' = "cancelling" /\ UNCHANGED <<initialized, buffer, batch_task, failed, written>>
    BY DEF Writer!StopCancels
  <1>3. CASE Writer!TaskIsRunning
    <2> DEFINE t == batch_task
    <2>1. t \in Writer!Tasks
      BY <1>1, <1>3 DEF Writer!TaskIsRunning, Writer!TypeOK, Writer!Tasks
    <2>2. /\ writer_pc' = [writer_pc EXCEPT ![t] = "done"]
          /\ data' = [data EXCEPT ![t] = <<>>]
          /\ stored' \in {stored, Writer!Put(data[t])}
          /\ cut' = cut \union Writer!ToSet(data[t])
      BY <1>3 DEF Writer!StopCancels
    <2> HIDE DEF t
    <2>3. data[t] \in Seq(Records) /\ Writer!ToSet(data[t]) \subseteq written /\ written \subseteq Records
      BY <1>1, <2>1 DEF Writer!TypeOK, HeldWasWritten
    <2>4. /\ stored' \in [Records -> Nat]
          /\ \A r \in Records : stored[r] > 0 => stored'[r] > 0
      <3>1. stored \in [Records -> Nat]
        BY <1>1 DEF Writer!TypeOK
      <3> QED BY <1>1, <2>2, <2>3, <3>1, PutStores
    <2>5. Writer!TypeOK' /\ OnlyUploadsHold'
      BY <1>1, <1>2, <2>1, <2>2, <2>3, <2>4, ReleaseKeeps DEF Writer!TypeOK
    <2>6. OnePlace' /\ HeldWasWritten'
      BY <1>1, <1>2, <2>1, <2>2, ReleaseKeeps DEF OnePlace, HeldWasWritten
    <2>7. WrittenIsSomewhere'
      <3> SUFFICES ASSUME NEW r \in written
                   PROVE  \/ r \in Writer!ToSet(buffer) \/ stored'[r] > 0 \/ r \in cut'
                          \/ \E u \in Writer!Tasks : r \in Writer!ToSet(data'[u])
        BY <1>2 DEF WrittenIsSomewhere
      <3>1. r \in Records
        BY <2>3
      <3>2. ASSUME NEW u \in Writer!Tasks, r \in Writer!ToSet(data[u])
            PROVE  r \in cut' \/ r \in Writer!ToSet(data'[u])
        BY <1>2, <2>1, <2>2, <3>2, ReleaseKeeps
      <3> QED BY <1>1, <2>2, <2>4, <3>1, <3>2 DEF WrittenIsSomewhere
    <2> QED BY <2>5, <2>6, <2>7 DEF Custody
  <1>4. CASE ~Writer!TaskIsRunning
    <2>1. UNCHANGED <<writer_pc, data, stored, cut>>
      BY <1>4 DEF Writer!StopCancels
    <2> QED BY <1>1, <1>2, <2>1 DEF Custody, Writer!TypeOK, OnlyUploadsHold, OnePlace,
                                    HeldWasWritten, WrittenIsSomewhere
  <1> QED BY <1>3, <1>4

LEMMA WriterNext == Custody /\ [Writer!Next]_writerVars => Custody'
  <1> SUFFICES ASSUME Custody, [Writer!Next]_writerVars PROVE Custody'
    OBVIOUS
  <1>1. ASSUME UNCHANGED <<buffer, data, stored, written, cut>>, Writer!TypeOK', OnlyUploadsHold'
        PROVE  Custody'
    BY <1>1 DEF Custody, OnePlace, HeldWasWritten, WrittenIsSomewhere
  <1>2. CASE Writer!Start
    <2>1. Writer!TypeOK'
      BY <1>2 DEF Custody, Writer!Start, Writer!TypeOK
    <2>2. OnlyUploadsHold'
      BY <1>2 DEF Custody, Writer!Start, Writer!TypeOK, OnlyUploadsHold
    <2> QED BY <1>1, <1>2, <2>1, <2>2 DEF Writer!Start
  <1>3. CASE Writer!StopFlushes \/ Writer!StopReturns
    <2>1. UNCHANGED <<initialized, buffer, batch_task, writer_pc, data, stored, failed, written, cut>>
          /\ stopping' \in {"flushing", "done"}
      BY <1>3 DEF Writer!StopFlushes, Writer!StopReturns
    <2>2. Writer!TypeOK' /\ OnlyUploadsHold'
      BY <2>1 DEF Custody, Writer!TypeOK, OnlyUploadsHold
    <2> QED BY <1>1, <2>1, <2>2
  <1>4. CASE UNCHANGED writerVars
    <2>1. Writer!TypeOK' /\ OnlyUploadsHold'
      BY <1>4 DEF writerVars, Custody, Writer!TypeOK, OnlyUploadsHold
    <2> QED BY <1>1, <1>4, <2>1 DEF writerVars
  <1>5. ASSUME NEW t \in Writer!Tasks, Writer!Task(t)
        PROVE  Custody'
    BY <1>5, FlushCustody, UploadedCustody, UploadFailedCustody DEF Writer!Task
  <1> QED BY <1>2, <1>3, <1>4, <1>5, WriteCustody, StopCancelsCustody DEF Writer!Next, Writer!Stop

LEMMA WriterSound == Custody => Writer!RecordsAreSafe
  <1> SUFFICES ASSUME Custody PROVE Writer!RecordsAreSafe
    OBVIOUS
  <1>1. Writer!TypeOK /\ OnlyUploadsHold /\ OnePlace /\ WrittenIsSomewhere
    BY DEF Custody
  <1>2. \A t \in Writer!Tasks : Writer!ToSet(data[t]) # {} => t \in Writer!Uploading
    BY <1>1, EmptyHoldsNothing DEF OnlyUploadsHold, Writer!Uploading
  <1>3. buffer \in Seq(Records) /\ \A t \in Writer!Tasks : data[t] \in Seq(Records)
    BY <1>1 DEF Writer!TypeOK
  <1>4. Writer!NothingVanishes
    <2> SUFFICES ASSUME NEW r \in written
                 PROVE  \/ Writer!Contains(buffer, r) \/ stored[r] > 0 \/ r \in cut
                        \/ \E t \in Writer!Uploading : Writer!Contains(data[t], r)
      BY DEF Writer!NothingVanishes
    <2>1. ASSUME NEW t \in Writer!Tasks, r \in Writer!ToSet(data[t])
          PROVE  t \in Writer!Uploading /\ Writer!Contains(data[t], r)
      BY <1>2, <1>3, <2>1, ContainsIsIn
    <2>2. r \in Writer!ToSet(buffer) => Writer!Contains(buffer, r)
      BY <1>3, ContainsIsIn
    <2> QED BY <1>1, <2>1, <2>2 DEF WrittenIsSomewhere
  <1>5. Writer!HeldOnce
    BY <1>1 DEF Writer!HeldOnce, OnePlace, Distinct, Disjoint, Writer!Uploading
  <1> QED BY <1>4, <1>5 DEF Writer!RecordsAreSafe

-----------------------------------------------------------------------------
(*****************************************************************************)
(* The start and the end of the application, with any number of signals at   *)
(* any moments. One task at most drains, since a task begins only while      *)
(* nobody has; how far it is tells which services have been stopped, and     *)
(* which of those still to be started it will not meet. That the lifespan    *)
(* ends after the drain needs that the task it awaits is the one that        *)
(* drains, which holds as long as one signal at most has arrived.            *)
(*****************************************************************************)
Draining(t) == shutdown_pc[t] = "draining"

\* The services up to the n-th have been stopped, once.
Stopped(n) ==
  \A i \in DOMAIN Stop!Order : stops[i] = IF i \in present \ missed /\ i <= n THEN 1 ELSE 0

Drained == Stopped(Len(Stop!Order))

OneDrains ==
  /\ \A t, u \in Stop!Tasks : Draining(t) /\ t # u => ~Draining(u) /\ at[u] = 0
  /\ \A t \in Stop!Tasks :
       /\ Draining(t) => Stopped(at[t]) /\ at[t] \in present \union {0}
       /\ shutdown_pc[t] \notin {"draining", "done"} => at[t] = 0
  /\ ~draining => Stopped(0) /\ \A t \in Stop!Tasks : ~Draining(t) /\ at[t] = 0
  /\ draining => \/ Drained /\ \E t \in Stop!Tasks : at[t] = Len(Stop!Order) + 1
                 \/ \E t \in Stop!Tasks : Draining(t)

\* Services come in their order, while the lifespan has not been left, and are
\* missed only behind a drain, which is that of a signal then.
StartIsOrderly ==
  /\ \A i \in present : \E k \in 1 .. services_started : Stop!StartOrder[k] = i
  /\ shutdown_pc[Stop!Exit] # "none" => services_started = Len(Stop!StartOrder)
  /\ missed # {} => arrived # {}
  /\ \A i \in missed : \E t \in Stop!Tasks : at[t] > i

\* The task the application knows.
TaskIsKnown ==
  /\ \A s \in Signals : shutdown_pc[s] # "none" => s \in arrived
  /\ shutdown_task = None => ~draining /\ \A t \in Stop!Tasks : shutdown_pc[t] = "none"
  /\ shutdown_task # None => shutdown_pc[shutdown_task] # "none"

Alone == \A s, u \in arrived : s = u

\* One signal, whose task drains unless the exit of the lifespan does.
AloneDrains ==
  Alone =>
    /\ \A s \in Signals :
         /\ shutdown_pc[s] # "none" => shutdown_task = s /\ ~Draining(Stop!Exit)
         /\ shutdown_pc[s] = "created" => ~draining
         /\ shutdown_pc[s] = "done" => draining /\ Drained /\ \A t \in Stop!Tasks : ~Draining(t)
    /\ shutdown_pc[Stop!Exit] = "waiting" => awaited \in Signals
    /\ shutdown_pc[Stop!Exit] = "done" => Drained /\ \A t \in Stop!Tasks : ~Draining(t)

StopInv == Stop!TypeOK /\ OneDrains /\ StartIsOrderly /\ TaskIsKnown /\ AloneDrains

LEMMA OrderHas ==
  /\ Len(Stop!Order) = 5 /\ DOMAIN Stop!Order = 1 .. 5
  /\ Len(Stop!StartOrder) = 5 /\ \A k \in 1 .. 5 : Stop!StartOrder[k] \in 1 .. 5
  /\ \A k, l \in 1 .. 5 : Stop!StartOrder[k] = Stop!StartOrder[l] => k = l
  BY DEF Stop!Order, Stop!StartOrder

Next1(i, j) ==
  /\ j \in i + 1 .. Len(Stop!Order) + 1
  /\ j \in present \union {Len(Stop!Order) + 1}
  /\ \A k \in i + 1 .. j - 1 : k \notin present

LEMMA NextBefore ==
  ASSUME NEW i \in 0 .. Len(Stop!Order) - 1, \E j \in Nat : Next1(i + 1, j)
  PROVE  \E j \in Nat : Next1(i, j)
  <1>1. CASE i + 1 \in present
    <2>1. Next1(i, i + 1)
      BY <1>1, OrderHas DEF Next1
    <2> QED BY <2>1, OrderHas
  <1>2. CASE i + 1 \notin present
    <2>1. PICK j \in Nat : Next1(i + 1, j)
      OBVIOUS
    <2>2. \A k \in i + 1 .. j - 1 : k = i + 1 \/ k \in (i + 1) + 1 .. j - 1
      BY OrderHas
    <2>3. Next1(i, j)
      BY <1>2, <2>1, <2>2, OrderHas DEF Next1
    <2> QED BY <2>3
  <1> QED BY <1>1, <1>2

\* A draining task always finds its next service, or the end.
LEMMA NextPresentIs ==
  ASSUME NEW i \in 0 .. Len(Stop!Order)
  PROVE  /\ Stop!NextPresent(i) \in i + 1 .. Len(Stop!Order) + 1
         /\ Stop!NextPresent(i) \in present \union {Len(Stop!Order) + 1}
         /\ \A k \in i + 1 .. Stop!NextPresent(i) - 1 : k \notin present
  <1> DEFINE Has(n) == \E j \in Nat : Next1(n, j)
  <1>1. Has(5)
    <2>1. Next1(5, 6)
      BY OrderHas DEF Next1
    <2> QED BY <2>1
  <1> HIDE DEF Has
  <1>2. ASSUME NEW n \in 0 .. 4, Has(n + 1)
        PROVE  Has(n)
    BY <1>2, NextBefore, OrderHas DEF Has
  <1>3. Has(4)
    BY <1>1, <1>2
  <1>4. Has(3)
    BY <1>3, <1>2
  <1>5. Has(2)
    BY <1>4, <1>2
  <1>6. Has(1)
    BY <1>5, <1>2
  <1>7. Has(0)
    BY <1>6, <1>2
  <1>8. Has(i)
    BY <1>1, <1>3, <1>4, <1>5, <1>6, <1>7, OrderHas
  <1>9. \E j \in i + 1 .. Len(Stop!Order) + 1 :
          /\ j \in present \union {Len(Stop!Order) + 1}
          /\ \A k \in i + 1 .. j - 1 : k \notin present
    BY <1>8 DEF Has, Next1
  <1> QED BY <1>9 DEF Stop!NextPresent

\* The size of a set is the same in the shutdown as here.
LEMMA SameSize == \A S : Stop!Cardinality(S) = Cardinality(S)
  BY DEF Stop!Cardinality, Cardinality

LEMMA AtLeastOneTask ==
  ASSUME IsFiniteSet(Signals)
  PROVE  IsFiniteSet(Stop!Tasks) /\ Cardinality(Stop!Tasks) \in Nat /\ Cardinality(Stop!Tasks) >= 1
  <1>1. IsFiniteSet(Stop!Tasks)
    BY FS_AddElement DEF Stop!Tasks
  <1>2. Cardinality({Stop!Exit}) = 1 /\ {Stop!Exit} \in SUBSET Stop!Tasks
    BY FS_Singleton DEF Stop!Tasks
  <1>3. Cardinality({Stop!Exit}) <= Cardinality(Stop!Tasks) /\ Cardinality(Stop!Tasks) \in Nat
    BY <1>1, <1>2, FS_Subset, FS_CardinalityType
  <1> QED BY <1>1, <1>2, <1>3

LEMMA OneSignalIsAlone ==
  ASSUME IsFiniteSet(Signals), arrived \subseteq Signals, Cardinality(arrived) <= 1
  PROVE  Alone
  <1> SUFFICES ASSUME NEW s \in arrived, NEW u \in arrived, s # u
               PROVE  FALSE
    BY DEF Alone
  <1>1. IsFiniteSet(arrived) /\ Cardinality(arrived) \in Nat
    BY FS_Subset, FS_CardinalityType
  <1>2. IsFiniteSet({s}) /\ Cardinality({s}) = 1
    BY FS_Singleton
  <1>3. Cardinality({s} \union {u}) = 2
    <2>1. u \notin {s}
      OBVIOUS
    <2>2. Cardinality({s} \union {u}) = Cardinality({s}) + 1
      BY <1>2, <2>1, FS_AddElement, Zenon
    <2> QED BY <1>2, <2>2
  <1>4. Cardinality({s} \union {u}) <= Cardinality(arrived)
    <2>1. {s} \union {u} \in SUBSET arrived
      OBVIOUS
    <2> QED BY <1>1, <2>1, FS_Subset
  <1> QED BY <1>1, <1>3, <1>4

LEMMA StopInit ==
  ASSUME IsFiniteSet(Signals), Stop!NamesAreDifferent, Stop!Init
  PROVE  StopInv
  <1>1. Stop!TypeOK
    <2>1. /\ 0 \in 0 .. Cardinality(Stop!Tasks) /\ 0 \in 0 .. Len(Stop!Order) + 1
          /\ 0 \in 0 .. Len(Stop!StartOrder)
      BY AtLeastOneTask, OrderHas
    <2> QED BY <2>1, SameSize DEF Stop!Init, Stop!TypeOK
  <1>2. OneDrains
    <2>1. \A i \in DOMAIN Stop!Order : ~(i <= 0)
      BY OrderHas
    <2> QED BY <2>1 DEF Stop!Init, OneDrains, Draining, Stopped
  <1>5. StartIsOrderly
    BY DEF Stop!Init, StartIsOrderly, Stop!Tasks
  <1>3. TaskIsKnown
    BY DEF Stop!Init, TaskIsKnown, Stop!Tasks
  <1>4. AloneDrains
    BY DEF Stop!Init, AloneDrains, Stop!Tasks
  <1> QED BY <1>1, <1>2, <1>3, <1>4, <1>5 DEF StopInv

LEMMA SignalKeeps ==
  ASSUME Stop!NamesAreDifferent, StopInv, NEW s \in Signals, Stop!Signal(s)
  PROVE  StopInv'
  <1>1. Stop!TypeOK /\ OneDrains /\ StartIsOrderly /\ TaskIsKnown /\ AloneDrains
    BY DEF StopInv
  <1>2. /\ s \notin arrived /\ arrived' = arrived \union {s} /\ shutdown_pc[Stop!Exit] # "done"
        /\ UNCHANGED <<services_started, present, draining, awaited, at, stops, missed>>
        /\ shutdown_pc[s] = "none"
    BY <1>1 DEF Stop!Signal, TaskIsKnown
  <1>3. s \in Stop!Tasks /\ s # Stop!Exit /\ s # None /\ Stop!Exit \in Stop!Tasks
    BY DEF Stop!Tasks, Stop!NamesAreDifferent
  <1>4. Alone' => Alone /\ arrived = {}
    BY <1>2 DEF Alone
  <1>5. CASE draining
    <2>1. UNCHANGED <<shutdown_task, shutdown_pc>>
      BY <1>5 DEF Stop!Signal, Stop!Ignored
    <2>2. Stop!TypeOK' /\ OneDrains' /\ TaskIsKnown'
      BY <1>1, <1>2, <2>1 DEF Stop!TypeOK, OneDrains, TaskIsKnown, Draining, Stopped, Drained
    <2>4. StartIsOrderly'
      BY <1>1, <1>2, <2>1 DEF StartIsOrderly
    <2>3. AloneDrains'
      BY <1>1, <1>2, <1>4, <2>1 DEF AloneDrains, Draining, Stopped, Drained
    <2> QED BY <2>2, <2>3, <2>4 DEF StopInv
  <1>6. CASE ~draining
    <2>1. shutdown_task' = s /\ shutdown_pc' = [shutdown_pc EXCEPT ![s] = "created"]
      BY <1>6 DEF Stop!Signal, Stop!Ignored
    <2>2. /\ shutdown_pc'[s] = "created"
          /\ \A t \in Stop!Tasks : t # s => shutdown_pc'[t] = shutdown_pc[t]
          /\ \A t \in Stop!Tasks : Draining(t)' <=> Draining(t)
      BY <1>1, <1>2, <1>3, <2>1 DEF Stop!TypeOK, Draining
    <2>3. Stop!TypeOK'
      BY <1>1, <1>2, <1>3, <2>1 DEF Stop!TypeOK
    <2>4. OneDrains'
      BY <1>1, <1>2, <2>2 DEF OneDrains, Draining, Stopped, Drained
    <2>5. TaskIsKnown'
      BY <1>1, <1>2, <1>3, <2>1, <2>2 DEF TaskIsKnown, Stop!Tasks
    <2>6. AloneDrains'
      <3> SUFFICES ASSUME Alone'
                   PROVE  AloneDrains'
        BY DEF AloneDrains
      <3>1. \A u \in Signals : u # s => shutdown_pc'[u] = "none"
        BY <1>1, <1>4, <2>2 DEF TaskIsKnown, Stop!Tasks
      <3>2. ~Draining(Stop!Exit)'
        BY <1>1, <1>3, <1>6, <2>2 DEF OneDrains
      <3>3. shutdown_pc'[Stop!Exit] = shutdown_pc[Stop!Exit]
        BY <1>3, <2>2
      <3> QED BY <1>1, <1>2, <1>4, <1>6, <2>1, <2>2, <3>1, <3>2, <3>3 DEF AloneDrains
    <2>7. StartIsOrderly'
      BY <1>1, <1>2, <1>3, <2>2 DEF StartIsOrderly
    <2> QED BY <2>3, <2>4, <2>5, <2>6, <2>7 DEF StopInv
  <1> QED BY <1>5, <1>6

\* Whoever begins while nobody has is the one that drains.
LEMMA DrainOne ==
  ASSUME StopInv, NEW t \in Stop!Tasks, shutdown_pc[t] \in {"none", "created"}, ~draining, Stop!Drain(t),
         UNCHANGED <<present, at, stops, missed>>
  PROVE  /\ OneDrains' /\ draining' = TRUE
         /\ shutdown_pc' = [shutdown_pc EXCEPT ![t] = "draining"]
         /\ shutdown_task' = IF shutdown_task = None THEN t ELSE shutdown_task
  <1>1. Stop!TypeOK /\ OneDrains
    BY DEF StopInv
  <1>2. /\ draining' = TRUE
        /\ shutdown_pc' = [shutdown_pc EXCEPT ![t] = "draining"]
        /\ shutdown_task' = IF shutdown_task = None THEN t ELSE shutdown_task
    BY DEF Stop!Drain, Stop!MayDrain
  <1>3. shutdown_pc'[t] = "draining" /\ \A u \in Stop!Tasks : u # t => shutdown_pc'[u] = shutdown_pc[u]
    BY <1>1, <1>2 DEF Stop!TypeOK
  <1>4. at[t] = 0 /\ Stopped(0) /\ \A u \in Stop!Tasks : ~Draining(u)
    BY <1>1 DEF OneDrains
  <1>5. Draining(t)' /\ \A u \in Stop!Tasks : Draining(u)' => u = t
    BY <1>3, <1>4 DEF Draining
  <1>6. Stopped(at[t])'
    BY <1>4 DEF Stopped
  <1>7. OneDrains'
    BY <1>1, <1>2, <1>3, <1>5, <1>6 DEF OneDrains, Stopped
  <1> QED BY <1>2, <1>7

\* Whoever finds that somebody has begun ends at once.
LEMMA DrainNot ==
  ASSUME StopInv, NEW t \in Stop!Tasks, shutdown_pc[t] \in {"none", "created"}, draining, Stop!Drain(t),
         UNCHANGED <<present, at, stops, missed>>
  PROVE  /\ OneDrains' /\ UNCHANGED <<draining, shutdown_task>>
         /\ shutdown_pc' = [shutdown_pc EXCEPT ![t] = "done"]
         /\ \A u \in Stop!Tasks : Draining(u)' <=> Draining(u)
  <1>1. Stop!TypeOK /\ OneDrains
    BY DEF StopInv
  <1>2. /\ UNCHANGED <<draining, shutdown_task>>
        /\ shutdown_pc' = [shutdown_pc EXCEPT ![t] = "done"]
    BY DEF Stop!Drain, Stop!MayDrain
  <1>3. shutdown_pc'[t] = "done" /\ \A u \in Stop!Tasks : u # t => shutdown_pc'[u] = shutdown_pc[u]
    BY <1>1, <1>2 DEF Stop!TypeOK
  <1>4. \A u \in Stop!Tasks : Draining(u)' <=> Draining(u)
    BY <1>3 DEF Draining
  <1>5. OneDrains'
    BY <1>1, <1>2, <1>3, <1>4 DEF OneDrains, Stopped, Drained
  <1> QED BY <1>2, <1>4, <1>5

LEMMA BeginKeeps ==
  ASSUME Stop!NamesAreDifferent, StopInv, NEW s \in Signals, Stop!Begin(s)
  PROVE  StopInv'
  <1>1. Stop!TypeOK /\ OneDrains /\ StartIsOrderly /\ TaskIsKnown /\ AloneDrains
    BY DEF StopInv
  <1>2. /\ shutdown_pc[s] = "created" /\ Stop!Drain(s) /\ shutdown_pc[Stop!Exit] # "done"
        /\ UNCHANGED <<services_started, present, arrived, awaited, at, stops, missed>>
    BY DEF Stop!Begin, Stop!LoopRuns
  <1>3. s \in Stop!Tasks /\ s # Stop!Exit /\ s # None /\ Stop!Exit \in Stop!Tasks
    BY DEF Stop!Tasks, Stop!NamesAreDifferent
  <1>4. Alone' <=> Alone
    BY <1>2 DEF Alone
  <1>5. Alone => ~draining /\ \A u \in Signals : u # s => shutdown_pc[u] = "none"
    BY <1>1, <1>2 DEF AloneDrains
  <1>6. CASE draining
    <2>1. /\ OneDrains' /\ UNCHANGED <<draining, shutdown_task>>
          /\ shutdown_pc' = [shutdown_pc EXCEPT ![s] = "done"]
      BY <1>2, <1>3, <1>6, DrainNot
    <2>2. Stop!TypeOK'
      BY <1>1, <1>2, <2>1 DEF Stop!TypeOK
    <2>3. TaskIsKnown'
      BY <1>1, <1>2, <1>3, <1>6, <2>1 DEF TaskIsKnown, Stop!TypeOK
    <2>4. AloneDrains'
      BY <1>4, <1>5, <1>6 DEF AloneDrains
    <2>5. StartIsOrderly'
      BY <1>1, <1>2, <1>3, <2>1 DEF StartIsOrderly, Stop!TypeOK
    <2> QED BY <2>1, <2>2, <2>3, <2>4, <2>5 DEF StopInv
  <1>7. CASE ~draining
    <2>1. /\ OneDrains' /\ draining' = TRUE
          /\ shutdown_pc' = [shutdown_pc EXCEPT ![s] = "draining"]
          /\ shutdown_task' = IF shutdown_task = None THEN s ELSE shutdown_task
      BY <1>2, <1>3, <1>7, DrainOne
    <2>2. shutdown_task # None /\ shutdown_task' = shutdown_task
      BY <1>1, <1>2, <1>3, <2>1 DEF TaskIsKnown
    <2>3. Stop!TypeOK'
      BY <1>1, <1>2, <2>1, <2>2 DEF Stop!TypeOK
    <2>4. shutdown_pc'[s] = "draining" /\ \A t \in Stop!Tasks : t # s => shutdown_pc'[t] = shutdown_pc[t]
      BY <1>1, <1>3, <2>1 DEF Stop!TypeOK
    <2>5. TaskIsKnown'
      <3>1. \A u \in Signals : shutdown_pc'[u] # "none" => u \in arrived'
        BY <1>1, <1>2, <1>3, <2>4 DEF TaskIsKnown, Stop!Tasks
      <3>2. shutdown_task' # None => shutdown_pc'[shutdown_task'] # "none"
        BY <1>1, <2>2, <2>4 DEF TaskIsKnown, Stop!TypeOK
      <3> QED BY <2>2, <3>1, <3>2 DEF TaskIsKnown
    <2>6. AloneDrains'
      <3> SUFFICES ASSUME Alone
                   PROVE  AloneDrains'
        BY <1>4 DEF AloneDrains
      <3>1. \A u \in Signals : u # s => shutdown_pc'[u] = "none"
        BY <1>5, <2>4 DEF Stop!Tasks
      <3>2. shutdown_task = s /\ ~Draining(Stop!Exit)
        BY <1>1, <1>2 DEF AloneDrains
      <3>3. shutdown_pc'[Stop!Exit] = shutdown_pc[Stop!Exit]
        BY <1>3, <2>4
      <3> QED BY <1>1, <1>2, <2>2, <2>4, <3>1, <3>2, <3>3 DEF AloneDrains, Draining
    <2>7. StartIsOrderly'
      BY <1>1, <1>2, <1>3, <2>4 DEF StartIsOrderly
    <2> QED BY <2>1, <2>3, <2>5, <2>6, <2>7 DEF StopInv
  <1> QED BY <1>6, <1>7

LEMMA StopNextKeeps ==
  ASSUME IsFiniteSet(Signals), Stop!NamesAreDifferent, StopInv, NEW t \in Stop!Tasks, Stop!StopNext(t)
  PROVE  StopInv'
  <1>1. Stop!TypeOK /\ OneDrains /\ StartIsOrderly /\ TaskIsKnown /\ AloneDrains
    BY DEF StopInv
  <1>2. /\ shutdown_pc[t] = "draining"
        /\ UNCHANGED <<services_started, present, arrived, shutdown_task, draining, awaited, missed>>
    BY DEF Stop!StopNext
  <1>3. Draining(t) /\ draining /\ Stopped(at[t]) /\ \A u \in Stop!Tasks : Draining(u) => u = t
    BY <1>1, <1>2 DEF OneDrains, Draining
  <1>4. at[t] \in 0 .. Len(Stop!Order)
    BY <1>1, <1>3, OrderHas DEF OneDrains, Stop!TypeOK
  <1>5. PICK j \in 1 .. Len(Stop!Order) + 1 : j = Stop!NextPresent(at[t])
    BY <1>4, NextPresentIs, OrderHas
  <1>6. /\ j \in at[t] + 1 .. Len(Stop!Order) + 1
        /\ j \in present \union {Len(Stop!Order) + 1}
        /\ \A k \in at[t] + 1 .. j - 1 : k \notin present
    BY <1>4, <1>5, NextPresentIs
  <1>7. /\ at' = [at EXCEPT ![t] = j]
        /\ j <= Len(Stop!Order) =>
             stops' = [stops EXCEPT ![j] = @ + 1] /\ UNCHANGED shutdown_pc
        /\ ~(j <= Len(Stop!Order)) =>
             shutdown_pc' = [shutdown_pc EXCEPT ![t] = "done"] /\ UNCHANGED stops
    BY <1>5 DEF Stop!StopNext
  <1>9. at'[t] = j /\ \A u \in Stop!Tasks : u # t => at'[u] = at[u]
    BY <1>1, <1>7 DEF Stop!TypeOK
  <1>10. at' \in [Stop!Tasks -> 0 .. Len(Stop!Order) + 1]
    BY <1>1, <1>5, <1>7, OrderHas DEF Stop!TypeOK
  <1>11. \A i \in missed : i < at[t]
    <2> SUFFICES ASSUME NEW i \in missed
                 PROVE  i < at[t]
      OBVIOUS
    <2>1. PICK u \in Stop!Tasks : at[u] > i
      BY <1>1 DEF StartIsOrderly
    <2>2. i \in 1 .. 5
      BY <1>1, OrderHas DEF Stop!TypeOK
    <2>3. u # t => at[u] = 0
      BY <1>1, <1>3 DEF OneDrains
    <2> QED BY <2>1, <2>2, <2>3
  <1>12. StartIsOrderly'
    <2>1. \A i \in missed : at'[t] > i
      BY <1>4, <1>6, <1>9, <1>11, <1>1, OrderHas DEF Stop!TypeOK
    <2>2. shutdown_pc'[Stop!Exit] # "none" => services_started = Len(Stop!StartOrder)
      <3>1. Stop!Exit \in Stop!Tasks /\ (shutdown_pc[Stop!Exit] = "none" => t # Stop!Exit)
        BY <1>2 DEF Stop!Tasks
      <3>2. shutdown_pc[Stop!Exit] = "none" => shutdown_pc'[Stop!Exit] = "none"
        BY <1>1, <1>7, <3>1 DEF Stop!TypeOK
      <3> QED BY <1>1, <3>2 DEF StartIsOrderly
    <2> QED BY <1>1, <1>2, <2>1, <2>2 DEF StartIsOrderly
  <1>8. Alone' <=> Alone
    BY <1>2 DEF Alone
  <1>13. CASE j <= Len(Stop!Order)
    <2>1. stops' = [stops EXCEPT ![j] = @ + 1] /\ UNCHANGED shutdown_pc
      BY <1>7, <1>13
    <2>2. j \in DOMAIN Stop!Order /\ j \in present \ missed /\ stops[j] = 0
      <3>1. j \in DOMAIN Stop!Order /\ ~(j <= at[t])
        BY <1>4, <1>6, <1>13, OrderHas
      <3>2. j \notin missed
        BY <1>4, <1>6, <1>11
      <3> QED BY <1>3, <1>6, <1>13, <3>1, <3>2, OrderHas DEF Stopped
    <2>3. Stopped(j)'
      <3> SUFFICES ASSUME NEW i \in DOMAIN Stop!Order
                   PROVE  stops'[i] = IF i \in present \ missed /\ i <= j THEN 1 ELSE 0
        BY <1>2 DEF Stopped
      <3>1. CASE i = j
        BY <1>1, <1>6, <2>1, <2>2, <3>1, OrderHas DEF Stop!TypeOK
      <3>2. CASE i # j
        <4>1. stops'[i] = stops[i]
          BY <1>1, <2>1, <3>2 DEF Stop!TypeOK
        <4>2. i \in present /\ i <= j => i <= at[t]
          BY <1>4, <1>6, <3>2, OrderHas
        <4>3. i <= at[t] => i <= j
          BY <1>4, <1>6, OrderHas
        <4> QED BY <1>3, <4>1, <4>2, <4>3 DEF Stopped
      <3> QED BY <3>1, <3>2
    <2>4. Stop!TypeOK'
      <3>1. stops' \in [DOMAIN Stop!Order -> 0 .. Cardinality(Stop!Tasks)]
        BY <1>1, <2>1, <2>2, AtLeastOneTask, SameSize DEF Stop!TypeOK
      <3> QED BY <1>1, <1>2, <1>10, <2>1, <3>1, SameSize DEF Stop!TypeOK
    <2>5. OneDrains'
      <3>2. \A u \in Stop!Tasks : /\ Draining(u)' <=> Draining(u)
                                  /\ Draining(u) => u = t
        BY <1>3, <2>1 DEF Draining
      <3>3. Stopped(at[t])'
        BY <1>9, <2>3
      <3>4. at'[t] \in present
        BY <1>9, <2>2
      <3> QED BY <1>1, <1>2, <1>3, <1>9, <2>1, <3>2, <3>3, <3>4 DEF OneDrains
    <2>6. TaskIsKnown'
      BY <1>1, <1>2, <2>1 DEF TaskIsKnown
    <2>7. AloneDrains'
      <3>1. Alone => /\ \A s \in Signals : shutdown_pc[s] # "done"
                     /\ shutdown_pc[Stop!Exit] # "done"
        BY <1>1, <1>3 DEF AloneDrains
      <3> QED BY <1>1, <1>2, <1>8, <2>1, <3>1 DEF AloneDrains, Draining
    <2> QED BY <1>12, <2>4, <2>5, <2>6, <2>7 DEF StopInv
  <1>14. CASE ~(j <= Len(Stop!Order))
    <2>1. shutdown_pc' = [shutdown_pc EXCEPT ![t] = "done"] /\ UNCHANGED stops
      BY <1>7, <1>14
    <2>2. shutdown_pc'[t] = "done" /\ \A u \in Stop!Tasks : u # t => shutdown_pc'[u] = shutdown_pc[u]
      BY <1>1, <2>1 DEF Stop!TypeOK
    <2>3. Drained'
      <3> SUFFICES ASSUME NEW i \in DOMAIN Stop!Order
                   PROVE  stops[i] = IF i \in present \ missed /\ i <= Len(Stop!Order) THEN 1 ELSE 0
        BY <1>2, <2>1 DEF Drained, Stopped
      <3>1. i \in present => i <= at[t]
        BY <1>4, <1>6, <1>14, OrderHas
      <3> QED BY <1>3, <1>4, <3>1, OrderHas DEF Stopped
    <2>4. \A u \in Stop!Tasks : ~Draining(u)'
      BY <1>3, <2>2 DEF Draining
    <2>5. Stop!TypeOK'
      BY <1>1, <1>2, <1>10, <2>1 DEF Stop!TypeOK
    <2>6. OneDrains'
      <3>1. at'[t] = Len(Stop!Order) + 1
        BY <1>5, <1>14, <1>9, OrderHas
      <3> QED BY <1>1, <1>2, <1>3, <1>9, <2>2, <2>3, <2>4, <3>1 DEF OneDrains
    <2>7. TaskIsKnown'
      <3>1. \A u \in Signals : shutdown_pc'[u] # "none" => u \in arrived'
        BY <1>1, <1>2, <2>2 DEF TaskIsKnown, Stop!Tasks
      <3>2. shutdown_task' # None => shutdown_pc'[shutdown_task'] # "none"
        BY <1>1, <1>2, <2>2 DEF TaskIsKnown, Stop!TypeOK
      <3>3. shutdown_task' # None
        BY <1>1, <1>2, <1>3 DEF TaskIsKnown
      <3> QED BY <3>1, <3>2, <3>3 DEF TaskIsKnown
    <2>8. AloneDrains'
      <3> SUFFICES ASSUME Alone
                   PROVE  AloneDrains'
        BY <1>8 DEF AloneDrains
      <3>1. ASSUME NEW s \in Signals
            PROVE  /\ shutdown_pc'[s] # "none" => shutdown_task' = s
                   /\ shutdown_pc'[s] = "created" => ~draining'
        BY <1>1, <1>2, <2>2, <3>1 DEF AloneDrains, Stop!Tasks
      <3>2. shutdown_pc'[Stop!Exit] = "waiting" => awaited' \in Signals
        BY <1>1, <1>2, <2>2 DEF AloneDrains, Stop!Tasks
      <3>3. draining' /\ ~Draining(Stop!Exit)'
        BY <1>2, <1>3, <2>4 DEF Stop!Tasks
      <3> QED BY <2>3, <2>4, <3>1, <3>2, <3>3 DEF AloneDrains
    <2> QED BY <1>12, <2>5, <2>6, <2>7, <2>8 DEF StopInv
  <1> QED BY <1>13, <1>14

LEMMA LifespanKeeps ==
  ASSUME Stop!NamesAreDifferent, StopInv, Stop!LeaveLifespan
  PROVE  StopInv'
  <1>1. Stop!TypeOK /\ OneDrains /\ StartIsOrderly /\ TaskIsKnown /\ AloneDrains
    BY DEF StopInv
  <1>2. /\ shutdown_pc[Stop!Exit] = "none" /\ services_started = Len(Stop!StartOrder)
        /\ UNCHANGED <<services_started, present, arrived, at, stops, missed>>
    BY DEF Stop!LeaveLifespan
  <1>3. Stop!Exit \in Stop!Tasks /\ Stop!Exit \notin Signals /\ Stop!Exit # None
    BY DEF Stop!Tasks, Stop!NamesAreDifferent
  <1>4. Alone' <=> Alone
    BY <1>2 DEF Alone
  <1>5. shutdown_task # None => shutdown_task \in Signals
    BY <1>1, <1>2 DEF Stop!TypeOK, TaskIsKnown, Stop!Tasks
  <1>6. StartIsOrderly'
    BY <1>1, <1>2 DEF StartIsOrderly
  <1>7. CASE shutdown_task # None /\ shutdown_pc[shutdown_task] # "done"
    <2>1. /\ shutdown_pc' = [shutdown_pc EXCEPT ![Stop!Exit] = "waiting"] /\ awaited' = shutdown_task
          /\ UNCHANGED <<draining, shutdown_task>>
      BY <1>7 DEF Stop!LeaveLifespan
    <2>2. /\ shutdown_pc'[Stop!Exit] = "waiting"
          /\ \A u \in Stop!Tasks : u # Stop!Exit => shutdown_pc'[u] = shutdown_pc[u]
      BY <1>1, <1>3, <2>1 DEF Stop!TypeOK
    <2>3. \A u \in Stop!Tasks : Draining(u)' <=> Draining(u)
      BY <1>2, <2>2 DEF Draining
    <2>4. Stop!TypeOK'
      BY <1>1, <1>2, <1>5, <1>7, <2>1 DEF Stop!TypeOK
    <2>5. OneDrains'
      BY <1>1, <1>2, <2>1, <2>2, <2>3 DEF OneDrains, Stopped, Drained
    <2>6. TaskIsKnown'
      BY <1>1, <1>2, <1>3, <1>5, <1>7, <2>1, <2>2 DEF TaskIsKnown, Stop!Tasks
    <2>7. AloneDrains'
      <3>1. \A s \in Signals : shutdown_pc'[s] = shutdown_pc[s]
        BY <1>3, <2>2 DEF Stop!Tasks
      <3>2. awaited' \in Signals
        BY <1>5, <1>7, <2>1
      <3> QED BY <1>1, <1>2, <1>3, <1>4, <2>1, <2>2, <2>3, <3>1, <3>2
              DEF AloneDrains, Stopped, Drained
    <2> QED BY <1>6, <2>4, <2>5, <2>6, <2>7 DEF StopInv
  <1>8. CASE ~(shutdown_task # None /\ shutdown_pc[shutdown_task] # "done")
    <2>1. Stop!Drain(Stop!Exit) /\ awaited' = awaited
      BY <1>8 DEF Stop!LeaveLifespan
    <2>2. \A s \in Signals : Alone /\ shutdown_pc[s] # "none" => shutdown_pc[s] = "done" /\ draining
      BY <1>1, <1>5, <1>8 DEF AloneDrains, Stop!NamesAreDifferent, Stop!Tasks
    <2>3. CASE draining
      <3>1. /\ OneDrains' /\ UNCHANGED <<draining, shutdown_task>>
            /\ shutdown_pc' = [shutdown_pc EXCEPT ![Stop!Exit] = "done"]
            /\ \A u \in Stop!Tasks : Draining(u)' <=> Draining(u)
        BY <1>2, <1>3, <2>1, <2>3, DrainNot
      <3>2. /\ shutdown_pc'[Stop!Exit] = "done"
            /\ \A u \in Stop!Tasks : u # Stop!Exit => shutdown_pc'[u] = shutdown_pc[u]
        BY <1>1, <1>3, <3>1 DEF Stop!TypeOK
      <3>3. shutdown_task \in Signals /\ shutdown_pc[shutdown_task] = "done"
        BY <1>1, <1>5, <1>8, <2>3 DEF TaskIsKnown
      <3>4. Stop!TypeOK'
        BY <1>1, <1>2, <2>1, <3>1 DEF Stop!TypeOK
      <3>5. TaskIsKnown'
        BY <1>1, <1>2, <1>3, <3>1, <3>2, <3>3 DEF TaskIsKnown, Stop!Tasks
      <3>6. AloneDrains'
        <4> SUFFICES ASSUME Alone
                     PROVE  AloneDrains'
          BY <1>4 DEF AloneDrains
        <4>1. Drained /\ \A u \in Stop!Tasks : ~Draining(u)
          BY <1>1, <3>3 DEF AloneDrains
        <4>2. Drained' /\ \A u \in Stop!Tasks : ~Draining(u)'
          BY <1>2, <3>1, <4>1 DEF Drained, Stopped
        <4>3. \A s \in Signals : shutdown_pc'[s] = shutdown_pc[s]
          BY <1>3, <3>2 DEF Stop!Tasks
        <4>4. shutdown_pc'[Stop!Exit] # "waiting" /\ ~Draining(Stop!Exit)'
          BY <3>2 DEF Draining
        <4> QED BY <1>1, <1>3, <2>3, <3>1, <4>2, <4>3, <4>4 DEF AloneDrains
      <3> QED BY <1>6, <3>1, <3>4, <3>5, <3>6 DEF StopInv
    <2>4. CASE ~draining
      <3>1. /\ OneDrains' /\ draining' = TRUE
            /\ shutdown_pc' = [shutdown_pc EXCEPT ![Stop!Exit] = "draining"]
            /\ shutdown_task' = IF shutdown_task = None THEN Stop!Exit ELSE shutdown_task
        BY <1>2, <1>3, <2>1, <2>4, DrainOne
      <3>2. /\ shutdown_pc'[Stop!Exit] = "draining"
            /\ \A u \in Stop!Tasks : u # Stop!Exit => shutdown_pc'[u] = shutdown_pc[u]
        BY <1>1, <1>3, <3>1 DEF Stop!TypeOK
      <3>3. Stop!TypeOK'
        BY <1>1, <1>2, <1>3, <2>1, <3>1 DEF Stop!TypeOK
      <3>4. TaskIsKnown'
        BY <1>1, <1>2, <1>3, <1>5, <1>8, <3>1, <3>2 DEF TaskIsKnown, Stop!Tasks
      <3>5. AloneDrains'
        <4> SUFFICES ASSUME Alone
                     PROVE  AloneDrains'
          BY <1>4 DEF AloneDrains
        <4>1. \A s \in Signals : shutdown_pc'[s] = "none"
          BY <1>3, <2>2, <2>4, <3>2 DEF Stop!Tasks
        <4> QED BY <3>2, <4>1 DEF AloneDrains
      <3> QED BY <1>6, <3>1, <3>3, <3>4, <3>5 DEF StopInv
    <2> QED BY <2>3, <2>4
  <1> QED BY <1>7, <1>8

\* What is started behind the drain is missed by it, everything else it will meet.
LEMMA StartNextKeeps ==
  ASSUME Stop!NamesAreDifferent, StopInv, Stop!StartNext
  PROVE  StopInv'
  <1>1. Stop!TypeOK /\ OneDrains /\ StartIsOrderly /\ TaskIsKnown /\ AloneDrains
    BY DEF StopInv
  <1> DEFINE i == Stop!StartOrder[services_started + 1]
  <1>2. /\ services_started < Len(Stop!StartOrder) /\ services_started' = services_started + 1
        /\ \/ UNCHANGED <<present, missed>>
           \/ /\ present' = present \union {i}
              /\ missed' = IF Stop!Passed(i) THEN missed \union {i} ELSE missed
        /\ UNCHANGED <<arrived, shutdown_task, draining, awaited, shutdown_pc, at, stops>>
    BY DEF Stop!StartNext
  <1>3. /\ services_started \in 0 .. 4 /\ services_started' \in 1 .. 5
        /\ i \in DOMAIN Stop!Order /\ i \in 1 .. 5
    BY <1>1, <1>2, OrderHas DEF Stop!TypeOK
  <1>4. i \notin present /\ i \notin missed
    BY <1>1, <1>3, OrderHas DEF StartIsOrderly, Stop!TypeOK
  <1>5. shutdown_pc[Stop!Exit] = "none"
    BY <1>1, <1>2 DEF StartIsOrderly
  <1>6. draining => arrived # {}
    BY <1>1, <1>5 DEF TaskIsKnown, Stop!TypeOK, Stop!Tasks
  <1>7. Stop!Passed(i) => draining
    BY <1>1, <1>3 DEF OneDrains, Stop!Passed
  <1>8. Stop!TypeOK'
    BY <1>1, <1>2, <1>3, OrderHas DEF Stop!TypeOK
  <1>9. StartIsOrderly'
    <2>1. \A k \in present' : \E n \in 1 .. services_started' : Stop!StartOrder[n] = k
      <3>1. services_started + 1 \in 1 .. services_started'
        BY <1>2, <1>3
      <3>2. \A n \in 1 .. services_started : n \in 1 .. services_started'
        BY <1>2, <1>3
      <3> QED BY <1>1, <1>2, <3>1, <3>2 DEF StartIsOrderly
    <2>2. \A k \in missed' : \E t \in Stop!Tasks : at'[t] > k
      BY <1>1, <1>2 DEF StartIsOrderly, Stop!Passed
    <2>3. missed' # {} => arrived' # {}
      BY <1>1, <1>2, <1>6, <1>7 DEF StartIsOrderly
    <2> QED BY <1>2, <1>5, <2>1, <2>2, <2>3 DEF StartIsOrderly
  <1>10. ASSUME NEW n \in 0 .. Len(Stop!Order) + 1, Stopped(n), i <= n => Stop!Passed(i)
         PROVE  Stopped(n)'
    <2>1. stops[i] = 0
      BY <1>3, <1>4, <1>10 DEF Stopped
    <2>2. \A k \in DOMAIN Stop!Order :
            (k \in present' \ missed' /\ k <= n) <=> (k \in present \ missed /\ k <= n)
      BY <1>2, <1>4, <1>10
    <2> QED BY <1>2, <1>10, <2>2 DEF Stopped
  <1>11. /\ \A t \in Stop!Tasks : Draining(t) => Stopped(at[t])'
         /\ ~draining => Stopped(0)'
         /\ (Drained /\ \E t \in Stop!Tasks : at[t] = Len(Stop!Order) + 1) => Drained'
    <2>1. ASSUME NEW t \in Stop!Tasks, Draining(t)
          PROVE  Stopped(at[t])'
      <3>1. Stopped(at[t]) /\ at[t] \in present \union {0}
        BY <1>1, <2>1 DEF OneDrains
      <3>2. at[t] \in 0 .. Len(Stop!Order) + 1 /\ at[t] # i
        BY <1>1, <1>3, <1>4, <3>1 DEF Stop!TypeOK
      <3>3. i <= at[t] => Stop!Passed(i)
        BY <1>3, <3>2, OrderHas DEF Stop!Passed
      <3>4. Stopped(at[t])' <=> \A k \in DOMAIN Stop!Order :
                stops'[k] = IF k \in present' \ missed' /\ k <= at'[t] THEN 1 ELSE 0
        BY DEF Stopped
      <3> HIDE DEF i
      <3> QED BY <1>2, <1>10, <3>1, <3>2, <3>3, <3>4 DEF Stopped
    <2>2. ~draining => Stopped(0)'
      BY <1>1, <1>3, <1>10, OrderHas DEF OneDrains
    <2>3. ASSUME Drained, NEW t \in Stop!Tasks, at[t] = Len(Stop!Order) + 1
          PROVE  Drained'
      <3>1. Stop!Passed(i)
        BY <1>3, <2>3, OrderHas DEF Stop!Passed
      <3> QED BY <1>10, <2>3, <3>1, OrderHas DEF Drained
    <2> QED BY <2>1, <2>2, <2>3
  <1>12. OneDrains'
    BY <1>1, <1>2, <1>11 DEF OneDrains, Draining
  <1>13. TaskIsKnown'
    BY <1>1, <1>2 DEF TaskIsKnown
  <1>14. AloneDrains'
    <2>1. Drained /\ (\A t \in Stop!Tasks : ~Draining(t)) /\ draining => Drained'
      BY <1>1, <1>11 DEF OneDrains
    <2> QED BY <1>1, <1>2, <1>5, <2>1 DEF AloneDrains, Alone, Draining
  <1> QED BY <1>8, <1>9, <1>12, <1>13, <1>14 DEF StopInv

LEMMA AwaitedKeeps ==
  ASSUME Stop!NamesAreDifferent, StopInv, Stop!Awaited
  PROVE  StopInv'
  <1>1. Stop!TypeOK /\ OneDrains /\ StartIsOrderly /\ TaskIsKnown /\ AloneDrains
    BY DEF StopInv
  <1>2. /\ shutdown_pc[Stop!Exit] = "waiting" /\ shutdown_pc[awaited] = "done"
        /\ shutdown_pc' = [shutdown_pc EXCEPT ![Stop!Exit] = "done"]
        /\ UNCHANGED <<services_started, present, arrived, shutdown_task, draining, awaited, at, stops,
                       missed>>
    BY DEF Stop!Awaited
  <1>3. Stop!Exit \in Stop!Tasks /\ Stop!Exit \notin Signals
    BY DEF Stop!Tasks, Stop!NamesAreDifferent
  <1>4. /\ shutdown_pc'[Stop!Exit] = "done"
        /\ \A u \in Stop!Tasks : u # Stop!Exit => shutdown_pc'[u] = shutdown_pc[u]
    BY <1>1, <1>2, <1>3 DEF Stop!TypeOK
  <1>5. \A u \in Stop!Tasks : Draining(u)' <=> Draining(u)
    BY <1>2, <1>4 DEF Draining
  <1>6. Stop!TypeOK'
    BY <1>1, <1>2 DEF Stop!TypeOK
  <1>7. OneDrains'
    BY <1>1, <1>2, <1>4, <1>5 DEF OneDrains, Stopped, Drained
  <1>8. TaskIsKnown'
    BY <1>1, <1>2, <1>3, <1>4 DEF TaskIsKnown, Stop!TypeOK, Stop!Tasks
  <1>9. AloneDrains'
    <2> SUFFICES ASSUME Alone
                 PROVE  AloneDrains'
      BY <1>2 DEF AloneDrains, Alone
    <2>1. Drained /\ \A u \in Stop!Tasks : ~Draining(u)
      BY <1>1, <1>2 DEF AloneDrains
    <2>2. Drained' /\ \A u \in Stop!Tasks : ~Draining(u)'
      BY <1>2, <1>5, <2>1 DEF Drained, Stopped
    <2>3. \A s \in Signals : shutdown_pc'[s] = shutdown_pc[s]
      BY <1>3, <1>4 DEF Stop!Tasks
    <2> QED BY <1>1, <1>2, <1>3, <1>4, <2>2, <2>3 DEF AloneDrains
  <1>10. StartIsOrderly'
    BY <1>1, <1>2 DEF StartIsOrderly
  <1> QED BY <1>6, <1>7, <1>8, <1>9, <1>10 DEF StopInv

LEMMA StopKeeps ==
  IsFiniteSet(Signals) /\ Stop!NamesAreDifferent /\ StopInv /\ [Stop!Next]_stopVars => StopInv'
  <1> SUFFICES ASSUME IsFiniteSet(Signals), Stop!NamesAreDifferent, StopInv, [Stop!Next]_stopVars
               PROVE  StopInv'
    OBVIOUS
  <1>1. CASE UNCHANGED stopVars
    BY <1>1 DEF stopVars, StopInv, Stop!TypeOK, OneDrains, StartIsOrderly, TaskIsKnown, AloneDrains,
                Alone, Draining, Stopped, Drained
  <1>2. CASE Stop!Next
    BY <1>2, StartNextKeeps, SignalKeeps, BeginKeeps, StopNextKeeps, LifespanKeeps, AwaitedKeeps
       DEF Stop!Next
  <1> QED BY <1>1, <1>2

LEMMA StopSound == IsFiniteSet(Signals) /\ StopInv => Stop!ServicesDrain
  <1> SUFFICES ASSUME IsFiniteSet(Signals), StopInv PROVE Stop!ServicesDrain
    OBVIOUS
  <1>1. Stop!TypeOK /\ OneDrains /\ StartIsOrderly /\ AloneDrains
    BY DEF StopInv
  <1>2. PICK n \in 0 .. Len(Stop!Order) : Stopped(n)
    <2>1. 0 \in 0 .. Len(Stop!Order) /\ Len(Stop!Order) \in 0 .. Len(Stop!Order)
      BY OrderHas
    <2>2. \A t \in Stop!Tasks : Draining(t) => at[t] \in 0 .. Len(Stop!Order)
      BY <1>1, OrderHas DEF OneDrains, Stop!TypeOK
    <2> QED BY <1>1, <2>1, <2>2 DEF OneDrains, Drained, Stop!TypeOK
  <1>3. Stop!StoppedOnceInOrder
    <2>1. present \subseteq DOMAIN Stop!Order /\ \A i \in present : i \in Int
      BY <1>1, OrderHas DEF Stop!TypeOK
    <2>2. \A i \in DOMAIN Stop!Order : stops[i] <= 1
      BY <1>2 DEF Stopped
    <2>3. ASSUME NEW i \in present \ missed, NEW k \in present \ missed, i < k, stops[k] > 0
          PROVE  stops[i] > 0
      <3>1. k <= n
        BY <1>2, <2>1, <2>3 DEF Stopped
      <3>2. i <= n
        BY <1>2, <2>1, <2>3, <3>1, OrderHas
      <3> QED BY <1>2, <2>1, <3>2 DEF Stopped
    <2> QED BY <2>2, <2>3 DEF Stop!StoppedOnceInOrder
  <1>4. ASSUME Cardinality(arrived) <= 1
        PROVE  Stop!EndsDrained
    <2>1. Alone
      BY <1>1, <1>4, OneSignalIsAlone DEF Stop!TypeOK
    <2> SUFFICES ASSUME shutdown_pc[Stop!Exit] = "done"
                 PROVE  /\ \A i \in present \ missed : stops[i] > 0
                        /\ \A t \in Stop!Tasks : shutdown_pc[t] # "draining"
      BY DEF Stop!EndsDrained
    <2>2. Drained /\ \A t \in Stop!Tasks : ~Draining(t)
      BY <1>1, <2>1 DEF AloneDrains
    <2>3. \A i \in present : i \in DOMAIN Stop!Order /\ i <= Len(Stop!Order)
      BY <1>1, OrderHas DEF Stop!TypeOK
    <2> QED BY <2>2, <2>3 DEF Drained, Stopped, Draining
  <1> QED BY <1>1, <1>3, <1>4, SameSize DEF Stop!ServicesDrain, StartIsOrderly

-----------------------------------------------------------------------------
(*****************************************************************************)
(* The batch tab, with any number of jobs, polls and cancellations under     *)
(* way.  An answer is of an earlier moment than its handling.  What is       *)
(* displayed was so because each answer on its way states something that     *)
(* stays so: results are never taken back, a cancelled job can only expire.   *)
(*****************************************************************************)
Gone == {"cancelled", "expired"}

\* What the service says stays so.
CompletedIsWhole == \A j \in Jobs : status[j] = "completed" => results[j] = Tab!Whole(j)

\* What the answers under way say of the service.
AnswersWereSo ==
  /\ \A s \in Slots : polls[s] # None =>
       LET p == polls[s] IN
       /\ p.answer = "completed" => results[p.id] = Tab!Whole(p.id)
       /\ p.answer = "cancelled" => status[p.id] \in Gone
       /\ p.of = "results" =>
            /\ results[p.id] = Tab!Whole(p.id)
            /\ p.answer \in {None, "whole", "error"}
       /\ p.of = "status" => p.answer # "whole"
  /\ cancelling # None /\ cancelling.answer = "cancelled" => status[cancelling.card.id] \in Gone

\* The results of the latest job have been asked for.
Awaiting(j) == \E s \in Slots : polls[s] # None /\ polls[s].id = j /\ polls[s].of = "results"

\* A timer that was cleared leaves somebody who has something to say, or who said it.
ClearedHasReason ==
  mounted /\ latest # None /\ ~crossed /\ submission = None /\ pollRef = None
    => Awaiting(latest) \/ Tab!Settled(latest)

TabInv ==
  /\ Tab!TypeOK /\ CompletedIsWhole /\ AnswersWereSo /\ Tab!WhatIsShownWasSo
  /\ ClearedHasReason

ServiceTyped ==
  /\ status \in [Jobs -> Tab!Statuses] /\ job_late \subseteq Jobs
  /\ results \in [Jobs -> Jobs \union {None}]

\* A step of the service takes nothing back.
TakesNothingBack ==
  \A j \in Jobs : /\ results[j] = Tab!Whole(j) => results'[j] = Tab!Whole(j)
                  /\ status[j] \in Gone => status'[j] \in Gone

ServiceMove(j) ==
  \/ Tab!Service!Accept(j) \/ Tab!Service!Reject(j) \/ Tab!Service!Begin(j) \/ Tab!Service!Finish(j)
  \/ Tab!Service!Cancel(j) \/ Tab!Service!DeadlineReached(j)
  \/ Tab!Service!Move(j, {"processing"}, "failed") /\ UNCHANGED results

LEMMA MovesTakeNothingBack ==
  ASSUME ServiceTyped, CompletedIsWhole, NEW j \in Jobs, ServiceMove(j)
  PROVE  ServiceTyped' /\ CompletedIsWhole' /\ TakesNothingBack
  <1>1. CASE Tab!Service!Finish(j)
    <2>1. /\ status[j] = "processing" /\ status' = [status EXCEPT ![j] = "completed"]
          /\ job_late' = job_late /\ results' = [results EXCEPT ![j] = Tab!Whole(j)]
      BY <1>1 DEF Tab!Service!Finish, Tab!Service!Move
    <2> QED BY <2>1 DEF ServiceTyped, Tab!Statuses, CompletedIsWhole, TakesNothingBack, Gone, Tab!Whole
  <1>2. CASE Tab!Service!DeadlineReached(j)
    <2>1. UNCHANGED <<status, results>> /\ job_late' = job_late \union {j}
      BY <1>2 DEF Tab!Service!DeadlineReached
    <2> QED BY <2>1 DEF ServiceTyped, CompletedIsWhole, TakesNothingBack
  <1>3. CASE ~ Tab!Service!Finish(j) /\ ~ Tab!Service!DeadlineReached(j)
    <2>1. PICK from \in {"none", "pending", "processing"},
               to \in {"pending", "failed", "processing", "cancelled"} :
            /\ status[j] = from /\ status' = [status EXCEPT ![j] = to]
            /\ UNCHANGED <<job_late, results>>
      BY <1>3 DEF ServiceMove, Tab!Service!Accept, Tab!Service!Reject, Tab!Service!Begin, Tab!Service!Cancel,
                  Tab!Service!Move
    <2> QED BY <2>1 DEF ServiceTyped, Tab!Statuses, CompletedIsWhole, TakesNothingBack, Gone
  <1> QED BY <1>1, <1>2, <1>3

LEMMA ExpiringTakesNothingBack ==
  ASSUME ServiceTyped, CompletedIsWhole, NEW S, Tab!Service!Expire(S)
  PROVE  ServiceTyped' /\ CompletedIsWhole' /\ TakesNothingBack
  <1>1. /\ status' = [j \in Jobs |-> IF j \in S THEN "expired" ELSE status[j]]
        /\ UNCHANGED <<job_late, results>>
    BY DEF Tab!Service!Expire
  <1> QED BY <1>1 DEF ServiceTyped, Tab!Statuses, CompletedIsWhole, TakesNothingBack, Gone

LEMMA RestingTakesNothingBack ==
  ASSUME ServiceTyped, CompletedIsWhole, UNCHANGED Tab!serviceVars
  PROVE  ServiceTyped' /\ CompletedIsWhole' /\ TakesNothingBack
  BY DEF Tab!serviceVars, ServiceTyped, CompletedIsWhole, TakesNothingBack

ViewTyped ==
  /\ mounted \in BOOLEAN /\ error \in BOOLEAN
  /\ job \in Tab!Cards \union {None} /\ shown \in Jobs \union {None}

CardWasSo(card) ==
  card # None =>
    /\ card.status = "completed" => results[card.id] = Tab!Whole(card.id)
    /\ card.status = "cancelled" => status[card.id] \in Gone

ResultsWereSo(res) == res # None => results[res] = Tab!Whole(res)

LEMMA WhatIsShown ==
  Tab!WhatIsShownWasSo <=> CardWasSo(job) /\ ResultsWereSo(shown)
  BY DEF Tab!WhatIsShownWasSo, CardWasSo, ResultsWereSo, Gone

\* What was so stays so.
LEMMA ViewStays ==
  ASSUME ViewTyped, Tab!WhatIsShownWasSo, TakesNothingBack, UNCHANGED Tab!viewVars
  PROVE  ViewTyped' /\ Tab!WhatIsShownWasSo'
  <1>1. UNCHANGED <<mounted, job, shown, error>>
    BY DEF Tab!viewVars
  <1>2. job # None => job.id \in Jobs
    BY DEF ViewTyped, Tab!Cards
  <1> QED BY <1>1, <1>2 DEF ViewTyped, Tab!WhatIsShownWasSo, TakesNothingBack, Gone

LEMMA DisplayKeeps ==
  ASSUME ViewTyped, Tab!WhatIsShownWasSo, UNCHANGED Tab!serviceVars,
         NEW card \in Tab!Cards \union {None}, NEW res \in Jobs \union {None}, NEW err \in BOOLEAN,
         CardWasSo(card), ResultsWereSo(res), Tab!Display(card, res, err)
  PROVE  /\ ViewTyped' /\ Tab!WhatIsShownWasSo' /\ mounted' = mounted
         /\ mounted => job' = card /\ shown' = res /\ error' = err
  <1>1. UNCHANGED <<status, results>>
    BY DEF Tab!serviceVars
  <1>2. CASE mounted
    <2>1. job' = card /\ shown' = res /\ error' = err /\ mounted' = mounted
      BY <1>2 DEF Tab!Display
    <2> QED BY <1>1, <2>1 DEF ViewTyped, Tab!WhatIsShownWasSo, CardWasSo, ResultsWereSo, Gone
  <1>3. CASE ~mounted
    <2>1. UNCHANGED <<mounted, job, shown, error>>
      BY <1>3 DEF Tab!Display, Tab!viewVars
    <2> QED BY <1>1, <1>3, <2>1 DEF ViewTyped, Tab!WhatIsShownWasSo
  <1> QED BY <1>2, <1>3

LEMMA LeastOf ==
  ASSUME NEW S \in SUBSET Nat, S # {}
  PROVE  Tab!First(S) \in S
  <1> DEFINE R == OpToRel(<, Nat)
  <1>1. IsWellFoundedOn(R, Nat)
    BY NatLessThanWellFounded
  <1>2. \A x, y \in Nat : y < x => <<y, x>> \in R
    BY DEF OpToRel
  <1> HIDE DEF R
  <1>3. PICK x \in S : \A y \in S : ~ (<<y, x>> \in R)
    BY <1>1, WFMin
  <1>4. ASSUME NEW y \in S
        PROVE  x <= y
    <2>1. x \in Nat /\ y \in Nat /\ ~(y < x)
      BY <1>2, <1>3
    <2> QED BY <2>1
  <1> QED BY <1>4 DEF Tab!First

\* The parts of Tab!TypeOK.
LEMMA TabParts ==
  /\ Tab!TypeOK <=> /\ ServiceTyped /\ ViewTyped /\ crossed \in BOOLEAN
                    /\ pollRef \in Jobs \union {None} /\ latest \in Jobs \union {None}
                    /\ submission \in Tab!Submissions \union {None}
                    /\ polls \in [Slots -> Tab!Polls \union {None}]
                    /\ cancelling \in Tab!Cancellations \union {None}
  BY DEF Tab!TypeOK, ServiceTyped, ViewTyped

\* An answer that was so and is not handled yet is still so.
LEMMA AnswersStay ==
  ASSUME Tab!TypeOK, AnswersWereSo, TakesNothingBack, UNCHANGED <<polls, cancelling>>
  PROVE  AnswersWereSo'
  <1>1. \A s \in Slots : polls[s] # None => polls[s].id \in Jobs
    BY DEF Tab!TypeOK, Tab!Polls
  <1>2. cancelling # None => cancelling.card.id \in Jobs
    BY DEF Tab!TypeOK, Tab!Cancellations, Tab!Cards
  <1> QED BY <1>1, <1>2 DEF AnswersWereSo, TakesNothingBack, Gone

LEMMA TabInit ==
  ASSUME Tab!BatchTabAssumption, Tab!NamesAreDifferent, Tab!Init
  PROVE  TabInv
  <1>1. /\ status = [j \in Jobs |-> "none"] /\ job_late = {} /\ results = [j \in Jobs |-> None]
    BY DEF Tab!Init, Tab!Service!Init
  <1>2. Tab!TypeOK
    BY <1>1 DEF Tab!Init, Tab!TypeOK, Tab!Statuses
  <1>3. CompletedIsWhole
    BY <1>1 DEF CompletedIsWhole
  <1>4. AnswersWereSo /\ Tab!WhatIsShownWasSo /\ ClearedHasReason
    BY DEF Tab!Init, AnswersWereSo, Tab!WhatIsShownWasSo, ClearedHasReason
  <1> QED BY <1>2, <1>3, <1>4 DEF TabInv

\* While only the service acts, the tab has as much reason to wait as before.
LEMMA ReasonStays ==
  ASSUME ClearedHasReason, UNCHANGED <<Tab!viewVars, pollRef, submission, latest, crossed>>,
         \A s \in Slots : polls[s] # None =>
           polls'[s] # None /\ polls'[s].id = polls[s].id /\ polls'[s].of = polls[s].of
  PROVE  ClearedHasReason'
  <1>1. Awaiting(latest) => Awaiting(latest)'
    BY DEF Awaiting
  <1>2. Tab!Settled(latest)' <=> Tab!Settled(latest)
    BY DEF Tab!Settled, Tab!Over, Tab!viewVars
  <1> QED BY <1>1, <1>2 DEF ClearedHasReason, Tab!viewVars

LEMMA ServiceOnly ==
  ASSUME TabInv, ServiceTyped', CompletedIsWhole', TakesNothingBack,
         UNCHANGED <<Tab!viewVars, pollRef, polls, cancelling, latest, crossed>>,
         submission' \in Tab!Submissions \union {None}, submission' = None => submission = None,
         submission = None => submission' = None
  PROVE  TabInv'
  <1>1. Tab!TypeOK /\ AnswersWereSo /\ Tab!WhatIsShownWasSo /\ ClearedHasReason
    BY DEF TabInv
  <1>2. ViewTyped' /\ Tab!WhatIsShownWasSo'
    BY <1>1, ViewStays, TabParts
  <1>3. Tab!TypeOK'
    BY <1>1, <1>2, TabParts DEF Tab!TypeOK, ServiceTyped, ViewTyped
  <1>4. AnswersWereSo'
    BY <1>1, AnswersStay
  <1>5. ClearedHasReason'
    BY <1>1 DEF ClearedHasReason, Awaiting, Tab!Settled, Tab!Over, Tab!viewVars
  <1> QED BY <1>2, <1>3, <1>4, <1>5 DEF TabInv

LEMMA WorkKeeps ==
  ASSUME Tab!BatchTabAssumption, TabInv, Tab!Work \/ Tab!Cleanup
  PROVE  TabInv'
  <1>1. ServiceTyped /\ CompletedIsWhole /\ submission \in Tab!Submissions \union {None}
    BY TabParts DEF TabInv
  <1>2. UNCHANGED <<Tab!viewVars, pollRef, submission, polls, cancelling, latest, crossed>>
    BY DEF Tab!Work, Tab!Cleanup
  <1>3. \/ \E j \in Jobs : ServiceMove(j)
        \/ \E S \in SUBSET job_late : Tab!Service!Expire(S)
    BY DEF Tab!Work, Tab!Cleanup, ServiceMove
  <1>4. ServiceTyped' /\ CompletedIsWhole' /\ TakesNothingBack
    BY <1>1, <1>3, MovesTakeNothingBack, ExpiringTakesNothingBack
  <1> QED BY <1>1, <1>2, <1>4, ServiceOnly

LEMMA ServeSubmissionKeeps ==
  ASSUME Tab!NamesAreDifferent, TabInv, Tab!ServeSubmission
  PROVE  TabInv'
  <1>1. ServiceTyped /\ CompletedIsWhole /\ submission \in Tab!Submissions \union {None}
    BY TabParts DEF TabInv
  <1>2. /\ submission # None /\ submission.id \in Jobs
        /\ UNCHANGED <<Tab!viewVars, pollRef, polls, cancelling, latest, crossed>>
    BY <1>1 DEF Tab!ServeSubmission, Tab!Submissions
  <1>3. PICK a \in {"accepted", "error"} : submission' = [submission EXCEPT !.answer = a]
    BY DEF Tab!ServeSubmission
  <1>4. submission' \in Tab!Submissions
    BY <1>1, <1>2, <1>3 DEF Tab!Submissions
  <1>5. submission' # None
    BY <1>4 DEF Tab!NamesAreDifferent
  <1>6. ServiceMove(submission.id) \/ UNCHANGED Tab!serviceVars
    BY DEF Tab!ServeSubmission, ServiceMove
  <1>7. ServiceTyped' /\ CompletedIsWhole' /\ TakesNothingBack
    BY <1>1, <1>2, <1>6, MovesTakeNothingBack, RestingTakesNothingBack
  <1> QED BY <1>2, <1>4, <1>5, <1>7, ServiceOnly

LEMMA ServeCancelKeeps ==
  ASSUME Tab!NamesAreDifferent, TabInv, Tab!ServeCancel
  PROVE  TabInv'
  <1>1. /\ ServiceTyped /\ CompletedIsWhole /\ cancelling \in Tab!Cancellations
        /\ Tab!TypeOK /\ AnswersWereSo /\ Tab!WhatIsShownWasSo /\ ClearedHasReason
    BY TabParts DEF TabInv, Tab!ServeCancel
  <1>2. /\ cancelling # None /\ cancelling.card.id \in Jobs
        /\ UNCHANGED <<Tab!viewVars, pollRef, submission, polls, latest, crossed>>
    BY <1>1 DEF Tab!ServeCancel, Tab!Cancellations, Tab!Cards
  <1>3. PICK a \in {"cancelled", "error"} : cancelling' = [cancelling EXCEPT !.answer = a]
    BY DEF Tab!ServeCancel
  <1>4. /\ cancelling' \in Tab!Cancellations
        /\ cancelling'.card = cancelling.card /\ cancelling'.answer = a
    BY <1>1, <1>3 DEF Tab!Cancellations
  <1>5. Tab!Service!Cancel(cancelling.card.id) \/ (UNCHANGED Tab!serviceVars /\ a = "error")
    BY <1>3, <1>1, <1>4 DEF Tab!ServeCancel, Tab!Cancellations
  <1>6. ServiceTyped' /\ CompletedIsWhole' /\ TakesNothingBack
    BY <1>1, <1>2, <1>5, MovesTakeNothingBack, RestingTakesNothingBack DEF ServiceMove
  <1>7. ViewTyped' /\ Tab!WhatIsShownWasSo'
    BY <1>1, <1>2, <1>6, ViewStays, TabParts
  <1>8. Tab!TypeOK'
    BY <1>1, <1>2, <1>4, <1>6, <1>7, TabParts DEF Tab!TypeOK, ServiceTyped, ViewTyped
  <1>9. a = "cancelled" => status'[cancelling.card.id] \in Gone
    BY <1>1, <1>2, <1>5 DEF Tab!Service!Cancel, Tab!Service!Move, ServiceTyped, Gone
  <1>10. \A s \in Slots : polls[s] # None => polls[s].id \in Jobs
    BY <1>1 DEF Tab!TypeOK, Tab!Polls
  <1>11. AnswersWereSo'
    BY <1>1, <1>2, <1>4, <1>6, <1>9, <1>10 DEF AnswersWereSo, TakesNothingBack, Gone
  <1>12. ClearedHasReason'
    BY <1>1, <1>2, ReasonStays
  <1> QED BY <1>6, <1>7, <1>8, <1>11, <1>12 DEF TabInv

LEMMA ServeKeeps ==
  ASSUME Tab!NamesAreDifferent, TabInv, NEW s \in Slots, Tab!Serve(s)
  PROVE  TabInv'
  <1>1. /\ ServiceTyped /\ CompletedIsWhole /\ Tab!TypeOK /\ AnswersWereSo
        /\ Tab!WhatIsShownWasSo /\ ClearedHasReason /\ polls \in [Slots -> Tab!Polls \union {None}]
    BY TabParts DEF TabInv
  <1>2. /\ polls[s] \in Tab!Polls /\ polls[s].id \in Jobs /\ polls[s].of \in {"status", "results"}
        /\ polls[s].answer = None
        /\ UNCHANGED <<Tab!viewVars, pollRef, submission, cancelling, latest, crossed>>
    BY <1>1 DEF Tab!Serve, Tab!Polls
  <1>3. PICK S \in SUBSET {polls[s].id} : Tab!Service!Expire(S)
    BY DEF Tab!Serve, Tab!Look
  <1>4. ServiceTyped' /\ CompletedIsWhole' /\ TakesNothingBack
    BY <1>1, <1>3, ExpiringTakesNothingBack
  <1>5. PICK a \in {Tab!Answer(polls[s], status'[polls[s].id]), "error"} :
          polls' = [polls EXCEPT ![s].answer = a]
    BY DEF Tab!Serve
  <1>6. status'[polls[s].id] \in Tab!Statuses
    BY <1>2, <1>4 DEF ServiceTyped
  <1>7. a \in Tab!Statuses \union {"whole", "error"}
    BY <1>5, <1>6 DEF Tab!Answer
  <1>8. /\ polls'[s] = [polls[s] EXCEPT !.answer = a]
        /\ \A t \in Slots \ {s} : polls'[t] = polls[t]
        /\ DOMAIN polls' = Slots
    BY <1>1, <1>5
  <1>9. /\ polls'[s] \in Tab!Polls /\ polls'[s].answer = a
        /\ polls'[s].id = polls[s].id /\ polls'[s].of = polls[s].of
    BY <1>2, <1>7, <1>8 DEF Tab!Polls
  <1>10. polls' \in [Slots -> Tab!Polls \union {None}]
    BY <1>1, <1>5, <1>8, <1>9
  <1>11. polls'[s] # None
    BY <1>9 DEF Tab!NamesAreDifferent
  <1>12. ViewTyped' /\ Tab!WhatIsShownWasSo'
    BY <1>1, <1>2, <1>4, ViewStays, TabParts
  <1>13. Tab!TypeOK'
    BY <1>1, <1>2, <1>4, <1>10, <1>12, TabParts DEF Tab!TypeOK, ServiceTyped, ViewTyped
  <1>14. ClearedHasReason'
    <2>1. \A t \in Slots : polls[t] # None =>
            polls'[t] # None /\ polls'[t].id = polls[t].id /\ polls'[t].of = polls[t].of
      BY <1>8, <1>9, <1>11
    <2> QED BY <1>1, <1>2, <2>1, ReasonStays
  <1>15. /\ a = "completed" => results'[polls[s].id] = Tab!Whole(polls[s].id)
         /\ a = "cancelled" => status'[polls[s].id] \in Gone
         /\ polls[s].of = "results" => a \in {"whole", "error"}
         /\ polls[s].of = "status" => a # "whole"
    BY <1>2, <1>4, <1>5, <1>6 DEF Tab!Answer, CompletedIsWhole, Gone, Tab!Statuses
  <1>16. polls[s].of = "results" => results'[polls[s].id] = Tab!Whole(polls[s].id)
    <2>1. polls[s].of = "results" => results[polls[s].id] = Tab!Whole(polls[s].id)
      BY <1>1, <1>11, <1>2 DEF AnswersWereSo, Tab!NamesAreDifferent
    <2> QED BY <1>2, <1>4, <2>1 DEF TakesNothingBack
  <1>17. \A t \in Slots \ {s} : polls[t] # None => polls[t].id \in Jobs
    BY <1>1 DEF Tab!Polls
  <1>18. AnswersWereSo'
    <2>1. ASSUME NEW t \in Slots, polls'[t] # None
          PROVE  /\ polls'[t].answer = "completed" => results'[polls'[t].id] = Tab!Whole(polls'[t].id)
                 /\ polls'[t].answer = "cancelled" => status'[polls'[t].id] \in Gone
                 /\ polls'[t].of = "results" =>
                      /\ results'[polls'[t].id] = Tab!Whole(polls'[t].id)
                      /\ polls'[t].answer \in {None, "whole", "error"}
                 /\ polls'[t].of = "status" => polls'[t].answer # "whole"
      <3>1. CASE t = s
        BY <3>1, <1>9, <1>15, <1>16
      <3>2. CASE t # s
        BY <3>2, <1>1, <1>8, <1>17, <1>4, <2>1 DEF AnswersWereSo, TakesNothingBack, Gone
      <3> QED BY <3>1, <3>2
    <2>2. cancelling # None => cancelling.card.id \in Jobs
      BY <1>1 DEF Tab!TypeOK, Tab!Cancellations, Tab!Cards
    <2>3. (cancelling # None /\ cancelling.answer = "cancelled") =>
             status'[cancelling.card.id] \in Gone
      BY <1>1, <1>4, <2>2 DEF AnswersWereSo, TakesNothingBack
    <2> QED BY <1>2, <2>1, <2>3 DEF AnswersWereSo, Gone, Tab!Whole
  <1> QED BY <1>4, <1>12, <1>13, <1>14, <1>18 DEF TabInv

LEMMA ServiceRests ==
  ASSUME TabInv, UNCHANGED Tab!serviceVars
  PROVE  ServiceTyped' /\ CompletedIsWhole' /\ TakesNothingBack
  BY TabParts, RestingTakesNothingBack DEF TabInv

\* An answer was handled, and its slot is free or asks for results that are there.
LEMMA PollReplaced ==
  ASSUME Tab!NamesAreDifferent, TabInv, UNCHANGED <<Tab!serviceVars, cancelling>>,
         NEW s \in Slots, NEW p \in Tab!Polls \union {None}, polls' = [polls EXCEPT ![s] = p],
         p # None => /\ p.answer = None
                     /\ p.of = "results" => results[p.id] = Tab!Whole(p.id)
  PROVE  polls' \in [Slots -> Tab!Polls \union {None}] /\ AnswersWereSo'
  <1>1. polls \in [Slots -> Tab!Polls \union {None}] /\ AnswersWereSo
    BY DEF TabInv, Tab!TypeOK
  <1>2. /\ polls' \in [Slots -> Tab!Polls \union {None}]
        /\ polls'[s] = p /\ \A t \in Slots \ {s} : polls'[t] = polls[t]
    BY <1>1
  <1>3. UNCHANGED <<status, results, cancelling>>
    BY DEF Tab!serviceVars
  <1>4. p # None => p.answer \notin {"completed", "cancelled", "whole", "error"}
    BY DEF Tab!NamesAreDifferent, Tab!Statuses
  <1>5. ASSUME NEW t \in Slots, polls'[t] # None
        PROVE  /\ polls'[t].answer = "completed" => results[polls'[t].id] = Tab!Whole(polls'[t].id)
               /\ polls'[t].answer = "cancelled" => status[polls'[t].id] \in Gone
               /\ polls'[t].of = "results" =>
                    /\ results[polls'[t].id] = Tab!Whole(polls'[t].id)
                    /\ polls'[t].answer \in {None, "whole", "error"}
               /\ polls'[t].of = "status" => polls'[t].answer # "whole"
    <2>1. CASE t = s
      BY <2>1, <1>2, <1>4, <1>5
    <2>2. CASE t # s
      BY <2>2, <1>1, <1>2, <1>5 DEF AnswersWereSo
    <2> QED BY <2>1, <2>2
  <1>6. (cancelling # None /\ cancelling.answer = "cancelled") =>
          status[cancelling.card.id] \in Gone
    BY <1>1 DEF AnswersWereSo
  <1> QED BY <1>2, <1>3, <1>5, <1>6 DEF AnswersWereSo, Gone, Tab!Whole

LEMMA SubmitKeeps ==
  ASSUME Tab!BatchTabAssumption, Tab!NamesAreDifferent, TabInv, Tab!Submit
  PROVE  TabInv'
  <1>1. PICK new \in SUBSET Jobs :
          new # {} /\ submission' = [id |-> Tab!First(new), answer |-> None]
    BY DEF Tab!Submit
  <1>2. Tab!First(new) \in Jobs
    BY <1>1, LeastOf DEF Tab!BatchTabAssumption
  <1>3. submission' \in Tab!Submissions /\ submission' # None
    BY <1>1, <1>2 DEF Tab!Submissions, Tab!NamesAreDifferent
  <1>4. /\ Tab!Display(job, None, FALSE)
        /\ UNCHANGED <<Tab!serviceVars, pollRef, polls, cancelling, latest, crossed>>
    BY DEF Tab!Submit
  <1>5. ServiceTyped' /\ CompletedIsWhole' /\ TakesNothingBack
    BY <1>4, ServiceRests
  <1>6. Tab!TypeOK /\ ViewTyped /\ Tab!WhatIsShownWasSo /\ AnswersWereSo
    BY TabParts DEF TabInv
  <1>7. ViewTyped' /\ Tab!WhatIsShownWasSo'
    <2>1. CardWasSo(job) /\ ResultsWereSo(None) /\ job \in Tab!Cards \union {None}
      BY <1>6, WhatIsShown DEF ResultsWereSo, ViewTyped
    <2> QED BY <1>4, <1>6, <2>1, DisplayKeeps
  <1>8. Tab!TypeOK'
    BY <1>3, <1>4, <1>5, <1>6, <1>7 DEF Tab!TypeOK, ServiceTyped, ViewTyped
  <1>9. AnswersWereSo'
    BY <1>4, <1>5, <1>6, AnswersStay
  <1>10. ClearedHasReason'
    BY <1>3 DEF ClearedHasReason
  <1> QED BY <1>5, <1>7, <1>8, <1>9, <1>10 DEF TabInv

LEMMA SubmittedKeeps ==
  ASSUME Tab!BatchTabAssumption, Tab!NamesAreDifferent, TabInv, Tab!Submitted
  PROVE  TabInv'
  <1>1. Tab!TypeOK /\ ViewTyped /\ Tab!WhatIsShownWasSo /\ AnswersWereSo
    BY TabParts DEF TabInv
  <1>2. PICK j \in Jobs :
          /\ Tab!Display([id |-> j, status |-> "pending"], shown, error)
          /\ pollRef' = j /\ latest' = j
    BY <1>1 DEF Tab!Submitted, Tab!TypeOK, Tab!Submissions
  <1>3. submission' = None /\ UNCHANGED <<Tab!serviceVars, polls, cancelling, crossed>>
    BY DEF Tab!Submitted
  <1>4. ServiceTyped' /\ CompletedIsWhole' /\ TakesNothingBack
    BY <1>3, ServiceRests
  <1>5. ViewTyped' /\ Tab!WhatIsShownWasSo'
    <2>1. PICK card \in Tab!Cards : card = [id |-> j, status |-> "pending"]
      BY DEF Tab!Cards, Tab!Statuses
    <2>2. CardWasSo(card) /\ ResultsWereSo(shown) /\ shown \in Jobs \union {None} /\ error \in BOOLEAN
      BY <1>1, <2>1, WhatIsShown DEF CardWasSo, ViewTyped
    <2> QED BY <1>1, <1>2, <1>3, <2>1, <2>2, DisplayKeeps
  <1>6. Tab!TypeOK'
    BY <1>1, <1>2, <1>3, <1>4, <1>5 DEF Tab!TypeOK, ServiceTyped, ViewTyped
  <1>7. AnswersWereSo'
    BY <1>1, <1>3, <1>4, AnswersStay
  <1>8. ClearedHasReason'
    BY <1>2 DEF ClearedHasReason, Tab!BatchTabAssumption
  <1> QED BY <1>4, <1>5, <1>6, <1>7, <1>8 DEF TabInv

\* An error is displayed, to whoever is still there.
LEMMA FailureShown ==
  ASSUME TabInv, UNCHANGED Tab!serviceVars, Tab!Display(job, shown, TRUE)
  PROVE  ViewTyped' /\ Tab!WhatIsShownWasSo' /\ ClearedHasReason'
  <1>1. Tab!TypeOK /\ ViewTyped /\ Tab!WhatIsShownWasSo
    BY TabParts DEF TabInv
  <1>2. /\ CardWasSo(job) /\ ResultsWereSo(shown) /\ job \in Tab!Cards \union {None}
        /\ shown \in Jobs \union {None}
    BY <1>1, WhatIsShown DEF ViewTyped
  <1>3. /\ ViewTyped' /\ Tab!WhatIsShownWasSo' /\ mounted' = mounted
        /\ mounted => error' = TRUE
    BY <1>1, <1>2, DisplayKeeps
  <1>4. ClearedHasReason'
    BY <1>3 DEF ClearedHasReason, Tab!Settled
  <1> QED BY <1>3, <1>4

LEMMA SubmitFailedKeeps ==
  ASSUME Tab!NamesAreDifferent, TabInv, Tab!SubmitFailed \/ Tab!CancelFailed
  PROVE  TabInv'
  <1>1. Tab!TypeOK /\ ViewTyped /\ Tab!WhatIsShownWasSo /\ AnswersWereSo
    BY TabParts DEF TabInv
  <1>2. /\ Tab!Display(job, shown, TRUE)
        /\ UNCHANGED <<Tab!serviceVars, pollRef, polls, latest, crossed>>
        /\ submission' \in {submission, None} /\ cancelling' \in {cancelling, None}
    BY DEF Tab!SubmitFailed, Tab!CancelFailed
  <1>3. ServiceTyped' /\ CompletedIsWhole' /\ TakesNothingBack
    BY <1>2, ServiceRests
  <1>4. ViewTyped' /\ Tab!WhatIsShownWasSo' /\ ClearedHasReason'
    BY <1>2, FailureShown
  <1>5. Tab!TypeOK'
    BY <1>1, <1>2, <1>3, <1>4 DEF Tab!TypeOK, ServiceTyped, ViewTyped
  <1>6. AnswersWereSo'
    BY <1>1, <1>2 DEF AnswersWereSo, Tab!serviceVars, Gone, Tab!Whole
  <1> QED BY <1>3, <1>4, <1>5, <1>6 DEF TabInv

LEMMA FireKeeps ==
  ASSUME Tab!BatchTabAssumption, Tab!NamesAreDifferent, TabInv, Tab!Fire
  PROVE  TabInv'
  <1>1. Tab!TypeOK /\ ViewTyped /\ Tab!WhatIsShownWasSo
    BY TabParts DEF TabInv
  <1>2. PICK free \in SUBSET Slots :
          /\ free # {} /\ pollRef # None
          /\ polls' = [polls EXCEPT ![Tab!First(free)] =
                         [id |-> pollRef, of |-> "status", answer |-> None]]
    BY DEF Tab!Fire
  <1>3. UNCHANGED <<Tab!serviceVars, Tab!viewVars, pollRef, submission, cancelling, latest, crossed>>
    BY DEF Tab!Fire
  <1>4. Tab!First(free) \in Slots
    BY <1>2, LeastOf DEF Tab!BatchTabAssumption
  <1>5. [id |-> pollRef, of |-> "status", answer |-> None] \in Tab!Polls
    BY <1>1, <1>2 DEF Tab!TypeOK, Tab!Polls
  <1>6. PICK p \in Tab!Polls : p = [id |-> pollRef, of |-> "status", answer |-> None]
    BY <1>5
  <1>7. polls' \in [Slots -> Tab!Polls \union {None}] /\ AnswersWereSo'
    BY <1>2, <1>3, <1>4, <1>6, PollReplaced
  <1>8. ServiceTyped' /\ CompletedIsWhole' /\ TakesNothingBack
    BY <1>3, ServiceRests
  <1>9. ViewTyped' /\ Tab!WhatIsShownWasSo'
    BY <1>1, <1>3, <1>8, ViewStays
  <1>10. Tab!TypeOK'
    BY <1>1, <1>3, <1>7, <1>8, <1>9 DEF Tab!TypeOK, ServiceTyped, ViewTyped
  <1>11. ClearedHasReason'
    BY <1>2, <1>3 DEF ClearedHasReason
  <1> QED BY <1>7, <1>8, <1>9, <1>10, <1>11 DEF TabInv

\* The answer of a poll about the latest job leaves a timer, a request for its
\* results, an error or a card that says how it ended.
LEMMA StatusShownKeeps ==
  ASSUME Tab!NamesAreDifferent, TabInv, NEW s \in Slots, Tab!StatusShown(s)
  PROVE  TabInv'
  <1>1. /\ Tab!TypeOK /\ ViewTyped /\ Tab!WhatIsShownWasSo /\ AnswersWereSo /\ ClearedHasReason
        /\ polls \in [Slots -> Tab!Polls \union {None}]
    BY TabParts DEF TabInv
  <1>2. PICK p \in Tab!Polls :
          /\ p = polls[s] /\ p # None /\ p.id \in Jobs /\ p.of = "status"
          /\ p.answer \in Tab!Statuses
    <2>1. /\ polls[s] \in Tab!Polls /\ polls[s] # None /\ polls[s].of = "status"
          /\ polls[s].answer # None /\ polls[s].answer # "error"
      BY <1>1 DEF Tab!StatusShown, Tab!Answered
    <2>2. polls[s].answer # "whole"
      BY <1>1, <2>1 DEF AnswersWereSo
    <2> QED BY <2>1, <2>2 DEF Tab!Polls
  <1>3. PICK card \in Tab!Cards : card = [id |-> p.id, status |-> p.answer]
    BY <1>2 DEF Tab!Cards
  <1>4. PICK err \in BOOLEAN : err = (error \/ (Tab!Ends(p.answer) /\ p.answer # "completed"))
    OBVIOUS
  <1>5. /\ Tab!Display(card, shown, err)
        /\ pollRef' = IF Tab!Ends(p.answer) THEN None ELSE pollRef
        /\ polls' = [polls EXCEPT ![s] = Tab!NextRequest(p)]
        /\ crossed' = (crossed \/ Tab!Overtaken(p))
        /\ UNCHANGED <<Tab!serviceVars, submission, cancelling, latest>>
    BY <1>2, <1>3, <1>4 DEF Tab!StatusShown, Tab!Cleared
  <1>6. /\ p.answer = "completed" => results[p.id] = Tab!Whole(p.id)
        /\ p.answer = "cancelled" => status[p.id] \in Gone
    BY <1>1, <1>2 DEF AnswersWereSo
  <1>7. /\ ViewTyped' /\ Tab!WhatIsShownWasSo' /\ mounted' = mounted
        /\ mounted => job' = card /\ shown' = shown /\ error' = err
    <2>1. CardWasSo(card) /\ ResultsWereSo(shown) /\ shown \in Jobs \union {None}
      BY <1>1, <1>3, <1>6, WhatIsShown DEF CardWasSo, ViewTyped
    <2> QED BY <1>1, <1>5, <2>1, DisplayKeeps
  <1>8. PICK q \in Tab!Polls \union {None} :
          /\ q = Tab!NextRequest(p)
          /\ q # None => q.answer = None /\ q.of = "results" /\ results[q.id] = Tab!Whole(q.id)
          /\ p.answer = "completed" => q # None /\ q.id = p.id /\ q.of = "results"
    <2>1. CASE p.answer = "completed"
      <3>1. PICK q \in Tab!Polls : q = [id |-> p.id, of |-> "results", answer |-> None]
        BY <1>2 DEF Tab!Polls
      <3>2. q # None
        BY DEF Tab!NamesAreDifferent
      <3> QED BY <2>1, <1>6, <3>1, <3>2 DEF Tab!NextRequest
    <2>2. CASE p.answer # "completed"
      BY <2>2 DEF Tab!NextRequest
    <2> QED BY <2>1, <2>2
  <1>9. polls' \in [Slots -> Tab!Polls \union {None}] /\ AnswersWereSo'
    BY <1>5, <1>8, PollReplaced
  <1>10. ServiceTyped' /\ CompletedIsWhole' /\ TakesNothingBack
    BY <1>5, ServiceRests
  <1>11. Tab!TypeOK'
    <2>1. crossed' \in BOOLEAN
      BY <1>1, <1>5 DEF Tab!TypeOK, Tab!Overtaken, Tab!Over
    <2> QED BY <1>1, <1>5, <1>7, <1>9, <1>10, <2>1 DEF Tab!TypeOK, ServiceTyped, ViewTyped
  <1>12. ClearedHasReason'
    <2> SUFFICES ASSUME mounted', latest' # None, ~crossed', submission' = None, pollRef' = None
                 PROVE  Awaiting(latest)' \/ Tab!Settled(latest)'
      BY DEF ClearedHasReason
    <2>1. /\ mounted /\ latest # None /\ ~crossed /\ submission = None
          /\ p.id = latest /\ ~(Tab!Over(p.id) /\ p.answer \notin {"cancelled", "expired"})
          /\ job' = card /\ shown' = shown /\ error' = err /\ latest' = latest
      BY <1>5, <1>7 DEF Tab!Overtaken
    <2>2. polls'[s] = q /\ \A t \in Slots \ {s} : polls'[t] = polls[t]
      BY <1>1, <1>5, <1>8
    <2>3. CASE p.answer = "completed"
      BY <2>1, <2>2, <2>3, <1>8 DEF Awaiting
    <2>4. CASE p.answer = "failed"
      BY <2>1, <2>4, <1>4 DEF Tab!Settled, Tab!Ends
    <2>5. CASE p.answer \in {"cancelled", "expired"}
      <3>1. job' # None /\ job'.id = latest' /\ job'.status \in {"cancelled", "expired"}
        BY <2>1, <2>5, <1>3 DEF Tab!NamesAreDifferent
      <3> QED BY <3>1 DEF Tab!Settled, Tab!Over
    <2>6. CASE p.answer \notin {"completed", "failed", "cancelled", "expired"}
      <3>1. pollRef = None /\ ~Tab!Over(latest)
        BY <2>1, <2>6, <1>5 DEF Tab!Ends
      <3>2. Awaiting(latest) \/ shown = latest \/ error
        BY <1>1, <2>1, <3>1 DEF ClearedHasReason, Tab!Settled
      <3>3. CASE Awaiting(latest)
        <4>1. PICK t \in Slots : polls[t] # None /\ polls[t].id = latest /\ polls[t].of = "results"
          BY <3>3 DEF Awaiting
        <4>2. t # s
          BY <4>1, <1>2
        <4> QED BY <2>1, <2>2, <4>1, <4>2 DEF Awaiting
      <3>4. CASE shown = latest \/ error
        BY <2>1, <3>4, <1>4 DEF Tab!Settled
      <3> QED BY <3>2, <3>3, <3>4
    <2> QED BY <2>3, <2>4, <2>5, <2>6
  <1> QED BY <1>7, <1>9, <1>10, <1>11, <1>12 DEF TabInv

LEMMA ResultsShownKeeps ==
  ASSUME Tab!NamesAreDifferent, TabInv, NEW s \in Slots, Tab!ResultsShown(s)
  PROVE  TabInv'
  <1>1. /\ Tab!TypeOK /\ ViewTyped /\ Tab!WhatIsShownWasSo /\ AnswersWereSo /\ ClearedHasReason
        /\ polls \in [Slots -> Tab!Polls \union {None}]
    BY TabParts DEF TabInv
  <1>2. PICK p \in Tab!Polls : p = polls[s] /\ p # None /\ p.id \in Jobs /\ p.of = "results"
    BY <1>1 DEF Tab!ResultsShown, Tab!Answered, Tab!Polls
  <1>3. /\ Tab!Display(job, p.id, error)
        /\ polls' = [polls EXCEPT ![s] = None]
        /\ crossed' = (crossed \/ Tab!Overtaken(p))
        /\ UNCHANGED <<Tab!serviceVars, pollRef, submission, cancelling, latest>>
    BY <1>2 DEF Tab!ResultsShown
  <1>4. results[p.id] = Tab!Whole(p.id)
    BY <1>1, <1>2 DEF AnswersWereSo
  <1>5. /\ ViewTyped' /\ Tab!WhatIsShownWasSo' /\ mounted' = mounted
        /\ mounted => job' = job /\ shown' = p.id /\ error' = error
    <2>1. /\ CardWasSo(job) /\ ResultsWereSo(p.id) /\ job \in Tab!Cards \union {None}
          /\ error \in BOOLEAN
      BY <1>1, <1>4, WhatIsShown DEF ResultsWereSo, ViewTyped
    <2> QED BY <1>1, <1>2, <1>3, <2>1, DisplayKeeps
  <1>6. polls' \in [Slots -> Tab!Polls \union {None}] /\ AnswersWereSo'
    BY <1>3, PollReplaced
  <1>7. ServiceTyped' /\ CompletedIsWhole' /\ TakesNothingBack
    BY <1>3, ServiceRests
  <1>8. Tab!TypeOK'
    <2>1. crossed' \in BOOLEAN
      BY <1>1, <1>3 DEF Tab!TypeOK, Tab!Overtaken, Tab!Over
    <2> QED BY <1>1, <1>3, <1>5, <1>6, <1>7, <2>1 DEF Tab!TypeOK, ServiceTyped, ViewTyped
  <1>9. ClearedHasReason'
    <2> SUFFICES ASSUME mounted', ~crossed'
                 PROVE  Tab!Settled(latest)'
      BY DEF ClearedHasReason
    <2>1. p.id = latest /\ shown' = p.id /\ latest' = latest
      BY <1>3, <1>5 DEF Tab!Overtaken
    <2> QED BY <2>1 DEF Tab!Settled
  <1> QED BY <1>5, <1>6, <1>7, <1>8, <1>9 DEF TabInv

LEMMA PollFailedKeeps ==
  ASSUME Tab!NamesAreDifferent, TabInv, NEW s \in Slots, Tab!PollFailed(s)
  PROVE  TabInv'
  <1>1. Tab!TypeOK /\ ViewTyped
    BY TabParts DEF TabInv
  <1>2. /\ Tab!Display(job, shown, TRUE)
        /\ pollRef' = None /\ polls' = [polls EXCEPT ![s] = None]
        /\ crossed' = (crossed \/ Tab!Overtaken(polls[s]))
        /\ UNCHANGED <<Tab!serviceVars, submission, cancelling, latest>>
    BY DEF Tab!PollFailed, Tab!Cleared
  <1>3. ViewTyped' /\ Tab!WhatIsShownWasSo' /\ ClearedHasReason'
    BY <1>2, FailureShown
  <1>4. polls' \in [Slots -> Tab!Polls \union {None}] /\ AnswersWereSo'
    BY <1>2, PollReplaced
  <1>5. ServiceTyped' /\ CompletedIsWhole' /\ TakesNothingBack
    BY <1>2, ServiceRests
  <1>6. Tab!TypeOK'
    <2>1. crossed' \in BOOLEAN
      BY <1>1, <1>2 DEF Tab!TypeOK, Tab!Overtaken, Tab!Over
    <2> QED BY <1>1, <1>2, <1>3, <1>4, <1>5, <2>1 DEF Tab!TypeOK, ServiceTyped, ViewTyped
  <1> QED BY <1>3, <1>4, <1>5, <1>6 DEF TabInv

LEMMA CancelClickKeeps ==
  ASSUME Tab!NamesAreDifferent, TabInv, Tab!CancelClick
  PROVE  TabInv'
  <1>1. Tab!TypeOK /\ ViewTyped /\ Tab!WhatIsShownWasSo /\ AnswersWereSo /\ ClearedHasReason
    BY TabParts DEF TabInv
  <1>2. /\ job \in Tab!Cards /\ cancelling' = [card |-> job, answer |-> None]
        /\ UNCHANGED <<Tab!serviceVars, Tab!viewVars, pollRef, submission, polls, latest, crossed>>
    BY <1>1 DEF Tab!CancelClick, ViewTyped
  <1>3. cancelling' \in Tab!Cancellations /\ cancelling'.answer # "cancelled"
    BY <1>2 DEF Tab!Cancellations, Tab!NamesAreDifferent, Tab!Statuses
  <1>4. ServiceTyped' /\ CompletedIsWhole' /\ TakesNothingBack
    BY <1>2, ServiceRests
  <1>5. ViewTyped' /\ Tab!WhatIsShownWasSo'
    BY <1>1, <1>2, <1>4, ViewStays
  <1>6. Tab!TypeOK'
    BY <1>1, <1>2, <1>3, <1>4, <1>5 DEF Tab!TypeOK, ServiceTyped, ViewTyped
  <1>7. AnswersWereSo'
    BY <1>1, <1>2, <1>3 DEF AnswersWereSo, Tab!serviceVars, Gone, Tab!Whole
  <1>8. ClearedHasReason'
    BY <1>1, <1>2, ReasonStays
  <1> QED BY <1>4, <1>5, <1>6, <1>7, <1>8 DEF TabInv

LEMMA CancelledKeeps ==
  ASSUME Tab!NamesAreDifferent, TabInv, Tab!Cancelled
  PROVE  TabInv'
  <1>1. Tab!TypeOK /\ ViewTyped /\ Tab!WhatIsShownWasSo /\ AnswersWereSo
    BY TabParts DEF TabInv
  <1>2. /\ cancelling \in Tab!Cancellations /\ cancelling # None /\ cancelling.answer = "cancelled"
        /\ cancelling.card \in Tab!Cards
    BY <1>1 DEF Tab!Cancelled, Tab!TypeOK, Tab!Cancellations
  <1>3. PICK card \in Tab!Cards :
          /\ card = [cancelling.card EXCEPT !.status = "cancelled"]
          /\ card.id = cancelling.card.id /\ card.status = "cancelled"
    <2>1. PICK c \in Tab!Cards : c = cancelling.card
      BY <1>2
    <2>2. [c EXCEPT !.status = "cancelled"] = [id |-> c.id, status |-> "cancelled"]
      BY DEF Tab!Cards
    <2>3. [id |-> c.id, status |-> "cancelled"] \in Tab!Cards
      BY DEF Tab!Cards, Tab!Statuses
    <2> QED BY <2>1, <2>2, <2>3
  <1>4. /\ Tab!Display(card, shown, error)
        /\ pollRef' = None /\ cancelling' = None
        /\ crossed' = (crossed \/ card.id # latest)
        /\ UNCHANGED <<Tab!serviceVars, submission, polls, latest>>
    BY <1>3 DEF Tab!Cancelled, Tab!Cleared
  <1>5. status[card.id] \in Gone
    BY <1>1, <1>2, <1>3 DEF AnswersWereSo
  <1>6. /\ ViewTyped' /\ Tab!WhatIsShownWasSo' /\ mounted' = mounted
        /\ mounted => job' = card /\ shown' = shown /\ error' = error
    <2>1. /\ CardWasSo(card) /\ ResultsWereSo(shown) /\ shown \in Jobs \union {None}
          /\ error \in BOOLEAN
      BY <1>1, <1>3, <1>5, WhatIsShown DEF CardWasSo, ViewTyped
    <2> QED BY <1>1, <1>4, <2>1, DisplayKeeps
  <1>7. ServiceTyped' /\ CompletedIsWhole' /\ TakesNothingBack
    BY <1>4, ServiceRests
  <1>8. Tab!TypeOK'
    <2>1. crossed' \in BOOLEAN
      BY <1>1, <1>4 DEF Tab!TypeOK
    <2> QED BY <1>1, <1>4, <1>6, <1>7, <2>1 DEF Tab!TypeOK, ServiceTyped, ViewTyped
  <1>9. AnswersWereSo'
    BY <1>1, <1>4 DEF AnswersWereSo, Tab!serviceVars, Gone, Tab!Whole
  <1>10. ClearedHasReason'
    <2> SUFFICES ASSUME mounted', ~crossed'
                 PROVE  Tab!Settled(latest)'
      BY DEF ClearedHasReason
    <2>1. job' = card /\ card.id = latest' /\ job' # None
      BY <1>4, <1>6 DEF Tab!NamesAreDifferent
    <2> QED BY <2>1, <1>3 DEF Tab!Settled, Tab!Over
  <1> QED BY <1>6, <1>7, <1>8, <1>9, <1>10 DEF TabInv

LEMMA TabLeaveKeeps ==
  ASSUME TabInv, Tab!Leave
  PROVE  TabInv'
  <1>1. Tab!TypeOK /\ AnswersWereSo
    BY DEF TabInv
  <1>2. /\ mounted' = FALSE /\ job' = None /\ shown' = None /\ error' = FALSE /\ pollRef' = None
        /\ UNCHANGED <<Tab!serviceVars, submission, polls, cancelling, latest, crossed>>
    BY DEF Tab!Leave
  <1>3. ServiceTyped' /\ CompletedIsWhole' /\ TakesNothingBack
    BY <1>2, ServiceRests
  <1>4. Tab!TypeOK'
    BY <1>1, <1>2, <1>3 DEF Tab!TypeOK, ServiceTyped
  <1>5. AnswersWereSo'
    BY <1>1, <1>2, <1>3, AnswersStay
  <1>6. Tab!WhatIsShownWasSo' /\ ClearedHasReason'
    BY <1>2 DEF Tab!WhatIsShownWasSo, ClearedHasReason
  <1> QED BY <1>3, <1>4, <1>5, <1>6 DEF TabInv

LEMMA StutterKeeps ==
  ASSUME TabInv, UNCHANGED tabVars
  PROVE  TabInv'
  <1>1. ServiceTyped' /\ CompletedIsWhole' /\ TakesNothingBack
    BY ServiceRests DEF tabVars, Tab!serviceVars
  <1> QED BY <1>1, ServiceOnly DEF tabVars, Tab!viewVars, TabInv, Tab!TypeOK

LEMMA TabKeeps ==
  ASSUME Tab!BatchTabAssumption, Tab!NamesAreDifferent, TabInv, [Tab!Next]_tabVars
  PROVE  TabInv'
  <1>1. CASE Tab!Work \/ Tab!Cleanup
    BY <1>1, WorkKeeps
  <1>2. CASE Tab!ServeSubmission
    BY <1>2, ServeSubmissionKeeps
  <1>3. CASE Tab!Submitted
    BY <1>3, SubmittedKeeps
  <1>4. CASE Tab!SubmitFailed \/ Tab!CancelFailed
    BY <1>4, SubmitFailedKeeps
  <1>5. CASE Tab!ServeCancel
    BY <1>5, ServeCancelKeeps
  <1>6. CASE Tab!CancelClick
    BY <1>6, CancelClickKeeps
  <1>7. CASE Tab!Cancelled
    BY <1>7, CancelledKeeps
  <1>8. CASE Tab!Leave
    BY <1>8, TabLeaveKeeps
  <1>9. CASE Tab!Submit
    BY <1>9, SubmitKeeps
  <1>10. CASE Tab!Fire
    BY <1>10, FireKeeps
  <1>11. CASE \E s \in Slots : Tab!Serve(s) \/ Tab!Deliver(s)
    BY <1>11, ServeKeeps, StatusShownKeeps, ResultsShownKeeps, PollFailedKeeps DEF Tab!Deliver
  <1>12. CASE UNCHANGED tabVars
    BY <1>12, StutterKeeps
  <1> QED BY <1>1, <1>2, <1>3, <1>4, <1>5, <1>6, <1>7, <1>8, <1>9, <1>10, <1>11, <1>12 DEF Tab!Next

LEMMA TabSound == TabInv => Tab!TabTellsTheOutcome
  <1> SUFFICES ASSUME TabInv
               PROVE  Tab!TabTellsTheOutcome
    OBVIOUS
  <1>1. Tab!WhatIsShownWasSo /\ ClearedHasReason
    BY DEF TabInv
  <1>2. (\A s \in Slots : polls[s] = None \/ polls[s].id # latest) => ~Awaiting(latest)
    BY DEF Awaiting
  <1>3. Tab!NeverSilent
    BY <1>1, <1>2 DEF Tab!NeverSilent, ClearedHasReason
  <1> QED BY <1>1, <1>3 DEF Tab!TabTellsTheOutcome

-----------------------------------------------------------------------------
(***************************************************************************)
(* The components together.  A behaviour follows one of them while the     *)
(* others rest, so each invariant is kept by its component's own steps.    *)
(***************************************************************************)
Inv ==
  /\ Custody /\ FeedbackInv /\ ShadowInv
  /\ StopInv /\ TabInv

LEMMA InitInv == Init => Inv
  <1> SUFFICES ASSUME Init PROVE Inv
    OBVIOUS
  <1>1. /\ Writer!Init /\ Feedback!Init /\ Shadow!Init /\ Stop!Init /\ Tab!Init
    BY DEF Init
  <1>2. Custody
    BY <1>1, WriterInit
  <1>3. StopInv
    BY <1>1, Assumptions, StopInit
  <1>4. TabInv
    BY <1>1, Assumptions, TabInit
  <1> QED BY <1>1, <1>2, <1>3, <1>4, FeedbackInit, ShadowInit DEF Inv

LEMMA NextInv == Inv /\ [Next]_vars => Inv'
  <1> SUFFICES ASSUME Inv, [Next]_vars PROVE Inv'
    OBVIOUS
  <1>1. /\ [Writer!Next]_writerVars /\ [Feedback!Next]_feedbackVars
        /\ [Shadow!Next]_shadowVars /\ [Stop!Next]_stopVars /\ [Tab!Next]_tabVars
    BY DEF Next, vars
  <1>2. Custody'
    BY <1>1, WriterNext DEF Inv
  <1>3. StopInv'
    BY <1>1, Assumptions, StopKeeps DEF Inv
  <1>4. TabInv'
    BY <1>1, Assumptions, TabKeeps DEF Inv
  <1>5. FeedbackInv'
    BY <1>1, FeedbackNext DEF Inv, feedbackVars, Feedback!vars
  <1>6. ShadowInv'
    BY <1>1, ShadowNext DEF Inv, shadowVars, Shadow!vars
  <1> QED BY <1>2, <1>3, <1>4, <1>5, <1>6 DEF Inv

LEMMA InvHolds == Spec => []Inv
  <1> QED BY InitInv, NextInv, PTL DEF Spec

-----------------------------------------------------------------------------
\* Every variable of every component keeps its type.
THEOREM TypeCorrect == Spec => []TypeOK
  <1>1. Inv => TypeOK
    <2> SUFFICES ASSUME Inv PROVE TypeOK
      OBVIOUS
    <2>1. Writer!TypeOK /\ Stop!TypeOK /\ Tab!TypeOK
      BY DEF Inv, Custody, StopInv, TabInv
    <2>2. Feedback!TypeOK /\ Shadow!TypeOK
      BY DEF Inv, FeedbackInv, ShadowInv
    <2> QED BY <2>1, <2>2 DEF TypeOK
  <1> QED BY <1>1, InvHolds, PTL

\* data_writer.py:215-233: an accepted record is buffered, in one upload, stored or cut
\* off by stop(), and never held twice, whatever flushes overlap and fail.
THEOREM RecordsAreNotLost == Spec => []RecordsAreSafe
  <1>1. Inv => RecordsAreSafe
    BY WriterSound DEF Inv, RecordsAreSafe
  <1> QED BY <1>1, InvHolds, PTL

\* feedback_service.py:92-164, shadow_mode.py:76-110: a submission that is told True
\* reached Kafka, the producer that is held is open, and stop() waits for every shadow
\* prediction that was running for an answered request.
THEOREM SideWorkIsSeen == Spec => []SideWorkIsTracked
  <1>1. Inv => SideWorkIsTracked
    BY DEF Inv, FeedbackInv, ShadowInv, SideWorkIsTracked
  <1> QED BY <1>1, InvHolds, PTL

\* events.py:29-346: whatever signals come from the first line of the lifespan on, services
\* are stopped once and in order, with at most one signal the lifespan ends only after the
\* last of them, and none is passed by the drain but by a signal during the start-up.
THEOREM ServicesAreDrained == Spec => []ServicesDrain
  <1>1. Inv => ServicesDrain
    BY Assumptions, StopSound DEF Inv, ServicesDrain
  <1> QED BY <1>1, InvHolds, PTL

\* BatchTab.jsx:29-90: what the tab shows was so, and while nothing is under way about
\* the latest job it has said how that one ended, unless an answer crossed it.
THEOREM OutcomesAreTold == Spec => []TabTellsTheOutcome
  <1>1. Inv => TabTellsTheOutcome
    BY TabSound DEF Inv, TabTellsTheOutcome
  <1> QED BY <1>1, InvHolds, PTL

===============================================================================
