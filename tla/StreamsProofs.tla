----------------------------- MODULE StreamsProofs -----------------------------
(***************************************************************************)
(* Proofs about the components of Streams, for every value of the          *)
(* constants.  Each has an inductive invariant: its initial states satisfy *)
(* it (...Init), its steps keep it (...Next), and it implies the property  *)
(* of the component (...Sound).  InferenceProofs puts them together.       *)
(***************************************************************************)
EXTENDS Streams, Induction, TLAPS

-----------------------------------------------------------------------------
(*****************************************************************************)
(* The drift detector.  Samples are numbered as they come, each window       *)
(* holds them in their order, and none is in both until the baseline is      *)
(* replaced.                                                                 *)
(*****************************************************************************)
Rising(window) == \A j, k \in DOMAIN window : j < k => window[j].id < window[k].id

DriftInv ==
  /\ Drift!TypeOK /\ Drift!ComparedEnough
  /\ Rising(reference) /\ Rising(current)
  /\ \A k \in DOMAIN reference : reference[k].id <= added
  /\ \A k \in DOMAIN current : current[k].id <= added
  /\ ~blocked => \A j \in DOMAIN reference, k \in DOMAIN current :
                   reference[j].id # current[k].id
  /\ ~blocked /\ baseline_established => Len(reference) >= min_samples

LEMMA PushFacts ==
  ASSUME NEW w \in Seq(Drift!Samples), Len(w) <= window_size, Rising(w),
         NEW sample \in Drift!Samples, \A k \in DOMAIN w : w[k].id < sample.id
  PROVE  /\ Drift!Push(w, sample) \in Seq(Drift!Samples)
         /\ Len(Drift!Push(w, sample)) <= window_size /\ Len(Drift!Push(w, sample)) >= Len(w)
         /\ Rising(Drift!Push(w, sample))
         /\ \A j \in DOMAIN Drift!Push(w, sample) :
              Drift!Push(w, sample)[j] = sample \/ \E k \in DOMAIN w : Drift!Push(w, sample)[j] = w[k]
  <1> DEFINE a == Append(w, sample)
             S == Drift!Samples
  <1>1. window_size \in Nat /\ window_size > 0
    BY StreamsAssumption DEF Drift!DriftAssumption
  <1> HIDE DEF S
  <1>2. /\ a \in Seq(S) /\ Len(a) = Len(w) + 1 /\ Len(w) \in Nat
        /\ DOMAIN a = DOMAIN w \union {Len(w) + 1} /\ DOMAIN w = 1 .. Len(w)
        /\ \A j \in DOMAIN w : a[j] = w[j]
        /\ a[Len(w) + 1] = sample
    BY AppendFacts DEF S
  <1>3. Rising(a)
    <2> SUFFICES ASSUME NEW i \in DOMAIN a, NEW j \in DOMAIN a, i < j PROVE a[i].id < a[j].id
      BY DEF Rising
    <2>1. i \in DOMAIN w
      BY <1>2
    <2>2. CASE j \in DOMAIN w
      <3>1. w[i].id < w[j].id
        BY <2>1, <2>2 DEF Rising
      <3> QED BY <1>2, <2>1, <2>2, <3>1
    <2>3. CASE j = Len(w) + 1
      BY <1>2, <2>1, <2>3
    <2> QED BY <1>2, <2>2, <2>3
  <1> HIDE DEF a
  <1>4. CASE Len(a) > window_size
    <2>1. Drift!Push(w, sample) = Tail(a) /\ a # <<>> /\ Len(w) = window_size
      <3>1. Drift!Push(w, sample) = Tail(a)
        BY <1>4 DEF Drift!Push, a
      <3>2. Len(w) = window_size
        <4>1. Len(a) = Len(w) + 1 /\ Len(w) \in Nat
          BY <1>2
        <4>2. \A x, y \in Nat : x <= y /\ x + 1 > y => x = y
          OBVIOUS
        <4> QED BY <1>1, <1>4, <4>1, <4>2
      <3>3. a # <<>>
        BY <1>2
      <3> QED BY <3>1, <3>2, <3>3
    <2>2. /\ Tail(a) \in Seq(S) /\ Len(Tail(a)) = Len(a) - 1
          /\ \A j \in 1 .. (Len(a) - 1) : Tail(a)[j] = a[j + 1]
      BY <1>2, <2>1, TailFacts
    <2>3. DOMAIN Tail(a) = 1 .. Len(w)
      BY <1>2, <2>2
    <2>4. Rising(Tail(a))
      <3> SUFFICES ASSUME NEW i \in 1 .. Len(w), NEW j \in 1 .. Len(w), i < j
                   PROVE  Tail(a)[i].id < Tail(a)[j].id
        BY <2>3 DEF Rising
      <3>1. i + 1 \in DOMAIN a /\ j + 1 \in DOMAIN a /\ i + 1 < j + 1
        BY <1>2
      <3> QED BY <1>2, <1>3, <2>2, <3>1, SMTT(20) DEF Rising
    <2>5. ASSUME NEW j \in 1 .. Len(w)
          PROVE  Tail(a)[j] = sample \/ \E k \in DOMAIN w : Tail(a)[j] = w[k]
      <3>1. Tail(a)[j] = a[j + 1] /\ j + 1 \in DOMAIN a
        BY <1>2, <2>2
      <3> QED BY <1>2, <3>1
    <2> QED BY <1>1, <1>2, <2>1, <2>2, <2>3, <2>4, <2>5 DEF S
  <1>5. CASE ~(Len(a) > window_size)
    <2>1. Drift!Push(w, sample) = a
      BY <1>5 DEF Drift!Push, a
    <2> QED BY <1>1, <1>2, <1>3, <1>5, <2>1 DEF S
  <1> QED BY <1>4, <1>5

LEMMA DriftInit == Drift!Init => DriftInv
  <1> SUFFICES ASSUME Drift!Init PROVE DriftInv
    OBVIOUS
  <1>1. /\ reference = <<>> /\ current = <<>> /\ baseline_established = FALSE /\ blocked = FALSE
        /\ added = 0
        /\ last_check = [reference |-> <<>>, current |-> <<>>, drift |-> FALSE]
    BY DEF Drift!Init
  <1>2. window_size \in Nat /\ MaxSamples \in Nat
    BY StreamsAssumption DEF Drift!DriftAssumption
  <1>3. Drift!TypeOK
    <2>1. added \in 0 .. MaxSamples /\ Len(reference) <= window_size /\ Len(current) <= window_size
      BY <1>1, <1>2
    <2>2. baseline_established \in BOOLEAN /\ blocked \in BOOLEAN
      BY <1>1, Zenon
    <2>3. reference \in Seq(Drift!Samples) /\ current \in Seq(Drift!Samples)
      BY <1>1
    <2> QED BY <2>1, <2>2, <2>3 DEF Drift!TypeOK
  <1>4. last_check.current = <<>>
    BY <1>1
  <1>5. DOMAIN reference = {} /\ DOMAIN current = {}
    BY <1>1
  <1>6. ~baseline_established
    BY <1>1, Zenon
  <1> QED BY <1>3, <1>4, <1>5, <1>6 DEF DriftInv, Rising, Drift!ComparedEnough

LEMMA DriftNext ==
  ASSUME DriftInv, [Drift!Next]_driftVars
  PROVE  DriftInv'
  <1>1. /\ reference \in Seq(Drift!Samples) /\ Len(reference) <= window_size
        /\ current \in Seq(Drift!Samples) /\ Len(current) <= window_size
        /\ added \in 0 .. MaxSamples /\ Rising(reference) /\ Rising(current)
        /\ \A k \in DOMAIN reference : reference[k].id <= added
        /\ \A k \in DOMAIN current : current[k].id <= added
        /\ ~blocked => \A j \in DOMAIN reference, k \in DOMAIN current :
                         reference[j].id # current[k].id
        /\ ~blocked /\ baseline_established => Len(reference) >= min_samples
    BY DEF DriftInv, Drift!TypeOK
  <1>2. baseline_established \in BOOLEAN /\ blocked \in BOOLEAN
    BY DEF DriftInv, Drift!TypeOK
  <1>3. /\ window_size \in Nat /\ window_size > 0 /\ min_samples \in Nat \ {0} /\ MaxSamples \in Nat
        /\ window_size >= min_samples
    BY StreamsAssumption DEF Drift!DriftAssumption
  <1>4. /\ \A k \in DOMAIN reference : reference[k] \in Drift!Samples /\ reference[k].id \in Nat
        /\ \A k \in DOMAIN current : current[k] \in Drift!Samples /\ current[k].id \in Nat
        /\ Len(reference) \in Nat /\ Len(current) \in Nat
    <2> DEFINE S == Drift!Samples
    <2>1. \A e \in S : e.id \in Nat
      BY <1>3 DEF Drift!Samples
    <2>2. reference \in Seq(S) /\ current \in Seq(S)
      BY <1>1
    <2> HIDE DEF S
    <2>3. /\ \A k \in DOMAIN reference : reference[k] \in S
          /\ \A k \in DOMAIN current : current[k] \in S
          /\ Len(reference) \in Nat /\ Len(current) \in Nat
      BY <2>2
    <2> QED BY <2>1, <2>3 DEF S
  <1>5. ASSUME NEW label \in Labels, NEW is_reference \in BOOLEAN, Drift!Predict(label, is_reference)
        PROVE  DriftInv'
    <2> DEFINE sample == [id |-> added + 1, label |-> label]
    <2>1. /\ ~blocked /\ added < MaxSamples /\ added' = added + 1
          /\ Drift!AddPrediction(sample, is_reference)
      BY <1>5 DEF Drift!Predict
    <2>2. UNCHANGED <<blocked, last_check>>
      BY <2>1 DEF Drift!AddPrediction
    <2>3. sample \in Drift!Samples /\ sample.id = added + 1
      BY <1>1, <1>3, <2>1 DEF Drift!Samples
    <2>4. added' \in 0 .. MaxSamples /\ added \in Nat /\ added' \in Nat
      BY <1>1, <1>3, <2>1
    <2> HIDE DEF sample
    <2>5. /\ \A k \in DOMAIN reference : reference[k].id < sample.id
          /\ \A k \in DOMAIN current : current[k].id < sample.id
      BY <1>1, <1>4, <2>3, <2>4
    <2>6. Drift!ComparedEnough'
      BY <2>2 DEF DriftInv, Drift!ComparedEnough
    <2>7. CASE is_reference \/ ~baseline_established
      <3>1. /\ reference' = Drift!Push(reference, sample) /\ current' = current
            /\ baseline_established' = (baseline_established \/ Len(reference') >= min_samples)
        BY <2>1, <2>7 DEF Drift!AddPrediction, Drift!CurrentBeside
      <3>2. /\ reference' \in Seq(Drift!Samples)
            /\ Len(reference') <= window_size /\ Len(reference') >= Len(reference)
            /\ Rising(reference')
            /\ \A j \in DOMAIN reference' :
                 reference'[j] = sample \/ \E k \in DOMAIN reference : reference'[j] = reference[k]
        BY <1>1, <2>3, <2>5, <3>1, PushFacts
      <3>3. /\ baseline_established' \in BOOLEAN
            /\ baseline_established' => baseline_established \/ Len(reference') >= min_samples
        BY <1>2, <3>1, Zenon
      <3>4. Drift!TypeOK'
        BY <1>1, <1>2, <2>2, <2>4, <3>1, <3>2, <3>3 DEF Drift!TypeOK
      <3>5. \A k \in DOMAIN reference' : reference'[k].id <= added'
        <4> SUFFICES ASSUME NEW k \in DOMAIN reference' PROVE reference'[k].id <= added'
          OBVIOUS
        <4>1. CASE reference'[k] = sample
          BY <2>1, <2>3, <2>4, <4>1
        <4>2. CASE \E j \in DOMAIN reference : reference'[k] = reference[j]
          BY <1>1, <1>4, <2>1, <2>4, <4>2
        <4> QED BY <3>2, <4>1, <4>2
      <3>6. ASSUME NEW k \in DOMAIN current' PROVE current'[k].id <= added'
        BY <1>1, <1>4, <2>1, <2>4, <3>1
      <3>7. ASSUME NEW j \in DOMAIN reference', NEW k \in DOMAIN current'
            PROVE  reference'[j].id # current'[k].id
        <4>1. CASE reference'[j] = sample
          <5>1. current'[k].id < sample.id /\ current'[k].id \in Nat /\ sample.id \in Nat
            BY <1>4, <2>3, <2>4, <2>5, <3>1
          <5> QED BY <4>1, <5>1
        <4>2. CASE \E i \in DOMAIN reference : reference'[j] = reference[i]
          BY <1>1, <2>1, <3>1, <4>2
        <4> QED BY <3>2, <4>1, <4>2
      <3>8. baseline_established' => Len(reference') >= min_samples
        <4>1. Len(reference') \in Nat
          BY <3>2
        <4>2. baseline_established => Len(reference) >= min_samples
          BY <1>1, <2>1
        <4>3. baseline_established => Len(reference') >= min_samples
          BY <1>3, <1>4, <3>2, <4>1, <4>2
        <4> QED BY <3>3, <4>3
      <3>9. Rising(current')
        BY <1>1, <3>1
      <3> QED BY <2>6, <3>2, <3>4, <3>5, <3>6, <3>7, <3>8, <3>9 DEF DriftInv
    <2>8. CASE ~(is_reference \/ ~baseline_established)
      <3>1. /\ current' = Drift!Push(current, sample)
            /\ UNCHANGED <<reference, baseline_established>>
        BY <2>1, <2>8 DEF Drift!AddPrediction
      <3>2. /\ current' \in Seq(Drift!Samples)
            /\ Len(current') <= window_size /\ Rising(current')
            /\ \A j \in DOMAIN current' :
                 current'[j] = sample \/ \E k \in DOMAIN current : current'[j] = current[k]
        BY <1>1, <2>3, <2>5, <3>1, PushFacts
      <3>4. Drift!TypeOK'
        BY <1>1, <1>2, <2>2, <2>4, <3>1, <3>2 DEF Drift!TypeOK
      <3>5. \A k \in DOMAIN current' : current'[k].id <= added'
        <4> SUFFICES ASSUME NEW k \in DOMAIN current' PROVE current'[k].id <= added'
          OBVIOUS
        <4>1. CASE current'[k] = sample
          BY <2>1, <2>3, <2>4, <4>1
        <4>2. CASE \E j \in DOMAIN current : current'[k] = current[j]
          BY <1>1, <1>4, <2>1, <2>4, <4>2
        <4> QED BY <3>2, <4>1, <4>2
      <3>6. ASSUME NEW k \in DOMAIN reference' PROVE reference'[k].id <= added'
        BY <1>1, <1>4, <2>1, <2>4, <3>1
      <3>7. ASSUME NEW j \in DOMAIN reference', NEW k \in DOMAIN current'
            PROVE  reference'[j].id # current'[k].id
        <4>1. CASE current'[k] = sample
          <5>1. reference'[j].id < sample.id /\ reference'[j].id \in Nat /\ sample.id \in Nat
            BY <1>4, <2>3, <2>4, <2>5, <3>1
          <5> QED BY <4>1, <5>1
        <4>2. CASE \E i \in DOMAIN current : current'[k] = current[i]
          BY <1>1, <2>1, <3>1, <4>2
        <4> QED BY <3>2, <4>1, <4>2
      <3>8. Rising(reference') /\ (baseline_established' => Len(reference') >= min_samples)
        BY <1>1, <2>1, <3>1
      <3> QED BY <2>6, <3>2, <3>4, <3>5, <3>6, <3>7, <3>8 DEF DriftInv
    <2> QED BY <2>7, <2>8
  <1>6. CASE Drift!CheckDrift
    <2>1. /\ UNCHANGED <<reference, current, baseline_established, blocked, added>>
          /\ ~blocked /\ baseline_established /\ Len(current) >= min_samples
          /\ \E drift \in Drift!PredictionDrift(reference, current) :
               last_check' = [reference |-> reference, current |-> current, drift |-> drift]
      BY <1>6 DEF Drift!CheckDrift, Drift!EnoughData
    <2>2. last_check'.reference = reference /\ last_check'.current = current
      BY <2>1
    <2>3. Drift!ComparedEnough'
      BY <1>1, <2>1, <2>2 DEF Drift!ComparedEnough
    <2>4. Drift!TypeOK'
      BY <2>1 DEF DriftInv, Drift!TypeOK
    <2> QED BY <2>1, <2>3, <2>4 DEF DriftInv
  <1>7. CASE Drift!ResetCurrentWindow
    <2>1. current' = <<>> /\ UNCHANGED <<reference, baseline_established, blocked, added, last_check>>
      BY <1>7 DEF Drift!ResetCurrentWindow
    <2>2. /\ DOMAIN current' = {} /\ current' \in Seq(Drift!Samples) /\ Len(current') <= window_size
      BY <1>3, <2>1
    <2>3. Drift!TypeOK'
      BY <2>1, <2>2 DEF DriftInv, Drift!TypeOK
    <2>4. Drift!ComparedEnough'
      BY <2>1 DEF DriftInv, Drift!ComparedEnough
    <2>5. Rising(current')
      BY <2>2 DEF Rising
    <2> QED BY <2>1, <2>2, <2>3, <2>4, <2>5 DEF DriftInv
  <1>8. CASE Drift!UpdateBaseline
    <2>1. reference' = current /\ UNCHANGED <<current, baseline_established, added, last_check>>
      BY <1>8 DEF Drift!UpdateBaseline
    <2>2. blocked'
      BY <1>8 DEF Drift!UpdateBaseline
    <2>3. blocked' \in BOOLEAN
      BY <1>8, Zenon DEF Drift!UpdateBaseline
    <2>4. Drift!TypeOK'
      BY <1>1, <1>2, <2>1, <2>3 DEF DriftInv, Drift!TypeOK
    <2>5. Drift!ComparedEnough'
      BY <2>1 DEF DriftInv, Drift!ComparedEnough
    <2> QED BY <1>1, <2>1, <2>2, <2>4, <2>5 DEF DriftInv
  <1>9. CASE UNCHANGED driftVars
    BY <1>9 DEF driftVars, DriftInv, Drift!TypeOK, Drift!ComparedEnough
  <1> QED BY <1>5, <1>6, <1>7, <1>8, <1>9 DEF Drift!Next

\* Windows whose ids rise hold nothing twice.
LEMMA RisingIsDistinct ==
  ASSUME NEW w \in Seq(Drift!Samples), Rising(w), NEW n, n = Len(w)
  PROVE  n = Drift!Cardinality(Drift!ToSet(w))
  <1> DEFINE S == Drift!Samples
  <1>1. \A e \in S : e.id \in Int
    <2>1. MaxSamples \in Nat
      BY StreamsAssumption DEF Drift!DriftAssumption
    <2> QED BY <2>1 DEF Drift!Samples
  <1> HIDE DEF S
  <1>2. n \in Nat /\ DOMAIN w = 1 .. n /\ \A k \in 1 .. n : w[k] \in S
    BY DEF S
  <1>3. ASSUME NEW j \in 1 .. n, NEW k \in 1 .. n, j # k PROVE w[j] # w[k]
    <2>1. w[j].id \in Int /\ w[k].id \in Int
      BY <1>1, <1>2
    <2>2. j < k \/ k < j
      BY <1>2, <1>3
    <2>3. w[j].id < w[k].id \/ w[k].id < w[j].id
      BY <1>2, <2>2 DEF Rising
    <2> QED BY <2>1, <2>3
  <1>4. Cardinality({w[j] : j \in 1 .. n}) = n
    BY <1>2, <1>3, DistinctCount, ZenonT(30)
  <1>5. Drift!ToSet(w) = {w[j] : j \in 1 .. n}
    BY <1>2 DEF Drift!ToSet
  <1>6. \A T : Drift!Cardinality(T) = Cardinality(T)
    BY DEF Drift!Cardinality, Cardinality
  <1> QED BY <1>4, <1>5, <1>6

LEMMA DriftSound == DriftInv => Drift!WindowsAreSound
  <1> SUFFICES ASSUME DriftInv PROVE Drift!WindowsAreSound
    OBVIOUS
  <1>1. /\ Len(reference) = Drift!Cardinality(Drift!ToSet(reference))
        /\ Len(current) = Drift!Cardinality(Drift!ToSet(current))
    BY RisingIsDistinct DEF DriftInv, Drift!TypeOK
  <1>2. ASSUME ~blocked
        PROVE  {s.id : s \in Drift!ToSet(reference)} \intersect {s.id : s \in Drift!ToSet(current)} = {}
    BY <1>2 DEF DriftInv, Drift!ToSet
  <1> QED BY <1>1, <1>2 DEF Drift!WindowsAreSound, Drift!WindowsAreDisjoint, DriftInv

-----------------------------------------------------------------------------
(*****************************************************************************)
(* The anomaly buffer.  Ids count upwards, so a full buffer spans at least   *)
(* max_size of them and its oldest entry is older than the newest            *)
(* max_size.                                                                 *)
(*****************************************************************************)
AnomalyInv ==
  /\ Anomalies!TypeOK /\ Anomalies!EntriesAreKept
  /\ entries \in Seq([timestamp : Nat, ttl : Nat, asked : Ttls \union {None}])

LEMMA AnomalyFacts ==
  ASSUME AnomalyInv
  PROVE  /\ max_size \in Nat \ {0} /\ now \in Nat /\ MaxTime \in Nat /\ Len(entries) \in Nat
         /\ DOMAIN entries = 1 .. Len(entries) /\ Ttls \subseteq Nat
         /\ buffer \in Seq(1 .. Len(entries)) /\ buffer \in Seq(Nat) /\ Len(buffer) \in Nat
         /\ DOMAIN buffer = 1 .. Len(buffer)
         /\ Len(buffer) <= max_size /\ Increasing(buffer)
         /\ \A j \in 1 .. Len(buffer) : buffer[j] \in 1 .. Len(entries)
         /\ \A id \in 1 .. Len(entries) : entries[id].timestamp \in Nat /\ entries[id].ttl \in Nat
  <1>1. max_size \in Nat \ {0} /\ MaxTime \in Nat /\ Ttls \subseteq Nat
    BY StreamsAssumption DEF Anomalies!BufferAssumption
  <1>2. now \in Nat /\ Len(entries) \in Nat /\ DOMAIN entries = 1 .. Len(entries)
    BY <1>1 DEF AnomalyInv, Anomalies!TypeOK
  <1>3. buffer \in Seq(1 .. Len(entries))
    BY <1>2 DEF AnomalyInv, Anomalies!TypeOK
  <1>4. buffer \in Seq(Nat) /\ Len(buffer) \in Nat /\ DOMAIN buffer = 1 .. Len(buffer)
        /\ \A j \in 1 .. Len(buffer) : buffer[j] \in 1 .. Len(entries)
    BY <1>2, <1>3
  <1>5. Len(buffer) <= max_size /\ Increasing(buffer)
    BY DEF AnomalyInv, Anomalies!EntriesAreKept, Anomalies!BoundedInOrder, Increasing
  <1>6. \A id \in 1 .. Len(entries) : entries[id].timestamp \in Nat /\ entries[id].ttl \in Nat
    <2> DEFINE R == [timestamp : Nat, ttl : Nat, asked : Ttls \union {None}]
    <2>1. entries \in Seq(R)
      BY DEF AnomalyInv
    <2>2. \A id \in 1 .. Len(entries) : entries[id] \in R
      <3> HIDE DEF R
      <3> QED BY <2>1
    <2> QED BY <2>2
  <1> QED BY <1>1, <1>2, <1>3, <1>4, <1>5, <1>6

LEMMA AnomalyInit == Anomalies!Init => AnomalyInv
  <1> SUFFICES ASSUME Anomalies!Init PROVE AnomalyInv
    OBVIOUS
  <1>1. buffer = <<>> /\ entries = <<>> /\ now = 0 /\ served = {} /\ evicted = {}
    BY DEF Anomalies!Init
  <1>2. max_size \in Nat /\ MaxTime \in Nat /\ MaxEntries \in Nat
    BY StreamsAssumption DEF Anomalies!BufferAssumption
  <1>3. DOMAIN buffer = {} /\ DOMAIN entries = {} /\ Len(buffer) = 0 /\ Len(entries) = 0
    BY <1>1
  <1>4. Anomalies!TypeOK
    BY <1>1, <1>2, <1>3 DEF Anomalies!TypeOK
  <1>5. Anomalies!EntriesAreKept
    BY <1>1, <1>2, <1>3 DEF Anomalies!EntriesAreKept, Anomalies!BoundedInOrder,
                            Anomalies!NewestSurvive, Anomalies!NothingStaleServed
  <1>6. entries \in Seq([timestamp : Nat, ttl : Nat, asked : Ttls \union {None}])
    BY <1>1
  <1> QED BY <1>4, <1>5, <1>6 DEF AnomalyInv

LEMMA AddKeeps ==
  ASSUME AnomalyInv, NEW ttl \in Ttls \union {None}, Anomalies!Add(ttl)
  PROVE  AnomalyInv'
  <1> DEFINE e == [timestamp |-> now, ttl |-> Anomalies!EntryTtl(ttl), asked |-> ttl]
             n == Len(entries)
             room == Anomalies!Room
  <1>1. /\ max_size \in Nat \ {0} /\ now \in Nat /\ MaxTime \in Nat /\ n \in Nat
        /\ DOMAIN entries = 1 .. n /\ Ttls \subseteq Nat
        /\ buffer \in Seq(1 .. n) /\ buffer \in Seq(Nat) /\ Len(buffer) \in Nat
        /\ DOMAIN buffer = 1 .. Len(buffer)
        /\ Len(buffer) <= max_size /\ Increasing(buffer)
        /\ \A j \in 1 .. Len(buffer) : buffer[j] \in 1 .. n
        /\ \A id \in 1 .. n : entries[id].timestamp \in Nat /\ entries[id].ttl \in Nat
    BY AnomalyFacts
  <1>2. /\ n < MaxEntries /\ entries' = Append(entries, e) /\ UNCHANGED <<now, served>>
        /\ buffer' = Append(room, Len(entries'))
        /\ evicted' = evicted \union (Anomalies!ToSet(buffer) \ Anomalies!ToSet(room))
    BY DEF Anomalies!Add
  <1>3. e \in [timestamp : Nat, ttl : Nat, asked : Ttls \union {None}] /\ e.timestamp = now
    BY <1>1 DEF Anomalies!EntryTtl
  <1> HIDE DEF e
  <1>4. /\ entries' \in Seq([timestamp : Nat, ttl : Nat, asked : Ttls \union {None}])
        /\ Len(entries') = n + 1 /\ DOMAIN entries' = 1 .. (n + 1)
        /\ \A id \in 1 .. n : entries'[id] = entries[id]
        /\ entries'[n + 1] = e
    BY <1>1, <1>2, <1>3 DEF AnomalyInv
  <1>5. /\ room \in Seq(Nat) /\ Len(room) \in Nat /\ Len(room) + 1 <= max_size
        /\ Increasing(room)
        /\ \A j \in 1 .. Len(room) : room[j] \in 1 .. n
        /\ \A j \in 1 .. Len(buffer) :
             (\E i \in 1 .. Len(room) : room[i] = buffer[j]) \/ buffer[j] + max_size <= n + 1
    <2>1. CASE Len(buffer) >= max_size
      <3>1. room = Tail(buffer) /\ Len(buffer) = max_size /\ buffer # <<>>
        <4> DEFINE k == Len(buffer)
        <4>1. k \in Nat /\ k <= max_size /\ max_size \in Nat \ {0} /\ k >= max_size
          BY <1>1, <2>1
        <4> HIDE DEF k
        <4>2. k = max_size /\ k # 0
          BY <4>1
        <4>3. Len(<<>>) = 0
          OBVIOUS
        <4> QED BY <2>1, <4>2, <4>3 DEF Anomalies!Room, k
      <3>2. /\ Tail(buffer) \in Seq(Nat) /\ Len(Tail(buffer)) = max_size - 1
            /\ \A j \in 1 .. (max_size - 1) : Tail(buffer)[j] = buffer[j + 1]
        BY <1>1, <3>1, TailFacts
      <3>3. Increasing(room)
        BY <1>1, <3>1, <3>2, SMTT(20) DEF Increasing
      <3>4. buffer[1] + max_size <= n + 1
        <4>1. 1 \in DOMAIN buffer /\ max_size \in DOMAIN buffer /\ 1 <= max_size
          BY <1>1, <3>1
        <4>2. buffer[1] + (max_size - 1) <= buffer[max_size]
          BY <1>1, <4>1, IncreasingSpreads
        <4>3. buffer[1] \in 1 .. n /\ buffer[max_size] \in 1 .. n
          BY <1>1, <4>1
        <4> QED BY <1>1, <4>2, <4>3
      <3>5. ASSUME NEW j \in 1 .. Len(buffer), j # 1
            PROVE  \E i \in 1 .. Len(room) : room[i] = buffer[j]
        <4>1. j - 1 \in 1 .. (max_size - 1) /\ (j - 1) + 1 = j
          BY <1>1, <3>1, <3>5
        <4> QED BY <3>1, <3>2, <4>1
      <3>6. ASSUME NEW j \in 1 .. Len(room) PROVE room[j] \in 1 .. n
        <4>1. j \in 1 .. (max_size - 1) /\ j + 1 \in 1 .. Len(buffer)
          BY <1>1, <3>1, <3>2
        <4> QED BY <1>1, <3>1, <3>2, <4>1
      <3>7. room \in Seq(Nat) /\ Len(room) \in Nat /\ Len(room) + 1 <= max_size
        BY <1>1, <3>1, <3>2
      <3>8. \A j \in 1 .. Len(buffer) :
              (\E i \in 1 .. Len(room) : room[i] = buffer[j]) \/ buffer[j] + max_size <= n + 1
        BY <3>4, <3>5
      <3> QED BY <3>3, <3>6, <3>7, <3>8
    <2>2. CASE ~(Len(buffer) >= max_size)
      <3>1. room = buffer
        BY <2>2 DEF Anomalies!Room
      <3> QED BY <1>1, <2>2, <3>1
    <2> QED BY <2>1, <2>2
  <1>6. Anomalies!ToSet(buffer) \subseteq 1 .. n
    BY <1>1 DEF Anomalies!ToSet
  <1> HIDE DEF room, n
  <1>7. /\ buffer' \in Seq(Nat) /\ Len(buffer') = Len(room) + 1
        /\ DOMAIN buffer' = 1 .. (Len(room) + 1)
        /\ \A j \in 1 .. Len(room) : buffer'[j] = room[j]
        /\ buffer'[Len(room) + 1] = n + 1
    <2>1. n + 1 \in Nat /\ buffer' = Append(room, n + 1)
      BY <1>1, <1>2, <1>4
    <2> QED BY <1>5, <2>1, AppendFacts
  <1>8. ASSUME NEW j \in 1 .. (Len(room) + 1) PROVE buffer'[j] \in 1 .. (n + 1)
    <2>1. CASE j \in 1 .. Len(room)
      <3>1. buffer'[j] = room[j] /\ room[j] \in 1 .. n
        BY <1>5, <1>7, <2>1
      <3> QED BY <1>1, <3>1
    <2>2. CASE j = Len(room) + 1
      BY <1>1, <1>7, <2>2
    <2>3. Len(room) \in Nat
      BY <1>5
    <2> QED BY <2>1, <2>2, <2>3
  <1>9. buffer' \in Seq(1 .. (n + 1))
    <2>1. \A j \in 1 .. Len(buffer') : buffer'[j] \in 1 .. (n + 1)
      BY <1>7, <1>8
    <2> QED BY <1>7, <2>1, SeqWithin
  <1>10. Anomalies!TypeOK'
    <2>1. /\ served' \subseteq DOMAIN entries' /\ evicted' \subseteq DOMAIN entries'
          /\ now' \in 0 .. MaxTime
      BY <1>1, <1>2, <1>4, <1>6 DEF AnomalyInv, Anomalies!TypeOK
    <2>2. Len(entries') <= MaxEntries
      BY <1>1, <1>2, <1>4, StreamsAssumption DEF Anomalies!BufferAssumption
    <2> QED BY <1>4, <1>9, <2>1, <2>2 DEF Anomalies!TypeOK
  <1>11. Anomalies!BoundedInOrder'
    <2>1. Len(buffer') <= max_size
      BY <1>5, <1>7
    <2>2. ASSUME NEW j \in DOMAIN buffer', NEW k \in DOMAIN buffer', j < k
          PROVE  buffer'[j] < buffer'[k]
      <3>1. j \in 1 .. Len(room) /\ k \in 1 .. (Len(room) + 1)
        BY <1>5, <1>7, <2>2
      <3>2. CASE k \in 1 .. Len(room)
        <4>1. room[j] < room[k]
          BY <1>5, <2>2, <3>1, <3>2 DEF Increasing
        <4> QED BY <1>7, <3>1, <3>2, <4>1
      <3>3. CASE k = Len(room) + 1
        <4>1. room[j] \in 1 .. n
          BY <1>5, <3>1
        <4> QED BY <1>1, <1>7, <3>1, <3>3, <4>1
      <3>4. Len(room) \in Nat
        BY <1>5
      <3> QED BY <3>1, <3>2, <3>3, <3>4
    <2> QED BY <2>1, <2>2 DEF Anomalies!BoundedInOrder
  <1>12. Anomalies!NewestSurvive'
    <2> SUFFICES ASSUME NEW id \in 1 .. (n + 1), id + max_size > n + 1, ~Anomalies!Expired(id)'
                 PROVE  \E i \in 1 .. (Len(room) + 1) : buffer'[i] = id
      BY <1>4, <1>7 DEF Anomalies!NewestSurvive, Anomalies!Contains
    <2>1. CASE id = n + 1
      BY <1>5, <1>7, <2>1
    <2>2. CASE id # n + 1
      <3>1. id \in 1 .. n /\ id + max_size > n
        BY <1>1, <2>2
      <3>2. ~Anomalies!Expired(id)
        BY <1>2, <1>4, <3>1 DEF Anomalies!Expired
      <3>3. PICK j \in 1 .. Len(buffer) : buffer[j] = id
        BY <1>1, <3>1, <3>2
          DEF AnomalyInv, Anomalies!EntriesAreKept, Anomalies!NewestSurvive, Anomalies!Contains, n
      <3>4. PICK i \in 1 .. Len(room) : room[i] = id
        <4>1. (\E i \in 1 .. Len(room) : room[i] = buffer[j]) \/ buffer[j] + max_size <= n + 1
          BY <1>5
        <4>2. id \in Nat /\ n \in Nat /\ max_size \in Nat
          BY <1>1
        <4> QED BY <3>3, <4>1, <4>2
      <3> QED BY <1>5, <1>7, <3>4
    <2> QED BY <2>1, <2>2
  <1>13. Anomalies!NothingStaleServed'
    <2>1. served \subseteq 1 .. n
      BY <1>1 DEF AnomalyInv, Anomalies!TypeOK
    <2> QED BY <1>2, <1>4, <2>1
          DEF AnomalyInv, Anomalies!EntriesAreKept, Anomalies!NothingStaleServed
  <1> QED BY <1>4, <1>10, <1>11, <1>12, <1>13 DEF AnomalyInv, Anomalies!EntriesAreKept

\* What else happens to the buffer only takes expired entries from it.
LEMMA OnlyExpiredGo ==
  ASSUME AnomalyInv, UNCHANGED <<entries, evicted>>, now' \in 0 .. MaxTime, now' >= now,
         buffer' \in Seq(Nat), Len(buffer') <= Len(buffer), Increasing(buffer'),
         \A j \in DOMAIN buffer' : \E i \in DOMAIN buffer : buffer'[j] = buffer[i],
         \A i \in DOMAIN buffer :
           ~Anomalies!Expired(buffer[i]) => \E j \in DOMAIN buffer' : buffer'[j] = buffer[i],
         served' \subseteq DOMAIN entries, \A id \in served' : ~Anomalies!Expired(id)',
         \A id \in DOMAIN entries : Anomalies!Expired(id) => Anomalies!Expired(id)'
  PROVE  AnomalyInv'
  <1> DEFINE n == Len(entries)
  <1>1. /\ max_size \in Nat \ {0} /\ now \in Nat /\ MaxTime \in Nat /\ n \in Nat
        /\ DOMAIN entries = 1 .. n /\ Ttls \subseteq Nat
        /\ buffer \in Seq(1 .. n) /\ buffer \in Seq(Nat) /\ Len(buffer) \in Nat
        /\ DOMAIN buffer = 1 .. Len(buffer)
        /\ Len(buffer) <= max_size /\ Increasing(buffer)
        /\ \A j \in 1 .. Len(buffer) : buffer[j] \in 1 .. n
        /\ \A id \in 1 .. n : entries[id].timestamp \in Nat /\ entries[id].ttl \in Nat
    BY AnomalyFacts
  <1>2. Len(buffer') \in Nat /\ DOMAIN buffer' = 1 .. Len(buffer')
    OBVIOUS
  <1>3. buffer' \in Seq(1 .. n)
    <2>1. \A j \in 1 .. Len(buffer') : buffer'[j] \in 1 .. n
      BY <1>1, <1>2
    <2> QED BY <2>1, SeqWithin
  <1>4. Anomalies!TypeOK'
    BY <1>1, <1>3 DEF AnomalyInv, Anomalies!TypeOK
  <1>5. Anomalies!BoundedInOrder'
    BY <1>1, <1>2 DEF Anomalies!BoundedInOrder, Increasing
  <1>6. Anomalies!NewestSurvive'
    <2> SUFFICES ASSUME NEW id \in DOMAIN entries, id + max_size > n, ~Anomalies!Expired(id)'
                 PROVE  \E j \in 1 .. Len(buffer') : buffer'[j] = id
      BY DEF Anomalies!NewestSurvive, Anomalies!Contains
    <2>1. ~Anomalies!Expired(id)
      OBVIOUS
    <2>2. PICK i \in 1 .. Len(buffer) : buffer[i] = id
      BY <2>1 DEF AnomalyInv, Anomalies!EntriesAreKept, Anomalies!NewestSurvive, Anomalies!Contains
    <2>3. PICK j \in DOMAIN buffer' : buffer'[j] = buffer[i]
      BY <1>1, <2>1, <2>2
    <2> QED BY <1>2, <2>2, <2>3
  <1>7. Anomalies!NothingStaleServed'
    <2> SUFFICES ASSUME NEW id \in served' PROVE now' - entries[id].timestamp <= entries[id].ttl
      BY DEF Anomalies!NothingStaleServed
    <2>1. now' \in Nat /\ entries[id].timestamp \in Nat /\ entries[id].ttl \in Nat
      BY <1>1
    <2>2. ~(now' - entries[id].timestamp > entries[id].ttl)
      BY DEF Anomalies!Expired
    <2> QED BY <2>1, <2>2
  <1> QED BY <1>4, <1>5, <1>6, <1>7 DEF AnomalyInv, Anomalies!EntriesAreKept

\* get_all and cleanup_expired take what has not expired, in order.
LEMMA LiveIsKept ==
  ASSUME AnomalyInv
  PROVE  Kept(Anomalies!Live, buffer, Len(buffer), Nat \ {id \in Nat : Anomalies!Expired(id)})
  <1> DEFINE D == DOMAIN buffer
             Out == {id \in Nat : Anomalies!Expired(id)}
             Fold(f) == f = [s \in SUBSET D |->
                               IF s = {} THEN <<>>
                               ELSE LET x == CHOOSE x \in s : \A y \in s : x >= y IN
                                    IF Anomalies!Expired(buffer[x]) THEN f[s \ {x}]
                                    ELSE Append(f[s \ {x}], buffer[x])]
             F == CHOOSE f : Fold(f)
  <1>1. buffer \in Seq(Nat) /\ Len(buffer) \in Nat /\ D = 1 .. Len(buffer) /\ Increasing(buffer)
    BY AnomalyFacts
  <1>2. Anomalies!Live = F[D]
    BY DEF Anomalies!Live, Anomalies!FoldLeft, Anomalies!MapThenFoldSet, Anomalies!Max
  <1>3. ASSUME NEW f, Filters(f, buffer, Out) PROVE Fold(f)
    <2>1. \A s \in SUBSET D : s # {} => MaxOf(s) \in s
      BY <1>1, MaxExists
    <2>2. \A s \in SUBSET D : s # {} => buffer[MaxOf(s)] \in Nat
      BY <1>1, <2>1
    <2>3. \A s \in SUBSET D :
            s # {} => (Anomalies!Expired(buffer[MaxOf(s)]) <=> buffer[MaxOf(s)] \in Out)
      BY <2>2
    <2> HIDE DEF Out
    <2> QED BY <1>1, <1>3, <2>3 DEF Filters, MaxOf
  <1>4. ASSUME NEW f, Fold(f) PROVE Filters(f, buffer, Out)
    <2>1. \A s \in SUBSET D : s # {} => MaxOf(s) \in s
      BY <1>1, MaxExists
    <2>2. \A s \in SUBSET D : s # {} => buffer[MaxOf(s)] \in Nat
      BY <1>1, <2>1
    <2>3. \A s \in SUBSET D :
            s # {} => (Anomalies!Expired(buffer[MaxOf(s)]) <=> buffer[MaxOf(s)] \in Out)
      BY <2>2
    <2> HIDE DEF Out
    <2> QED BY <1>1, <1>4, <2>3 DEF Filters, MaxOf
  <1> HIDE DEF Fold, D
  <1>5. \E f : Fold(f)
    <2>1. \E f : Filters(f, buffer, Out)
      BY <1>1, FilterExists
    <2> QED BY <1>3, <2>1
  <1>6. Fold(F)
    BY <1>5
  <1> HIDE DEF F, Out
  <1>7. Filters(F, buffer, Out)
    BY <1>4, <1>6
  <1>8. Kept(F[1 .. Len(buffer)], buffer, Len(buffer), Nat \ Out)
    BY <1>1, <1>7, FiltersKeep
  <1> QED BY <1>1, <1>2, <1>8 DEF Out

LEMMA LiveFacts ==
  ASSUME AnomalyInv
  PROVE  /\ Anomalies!Live \in Seq(Nat) /\ Len(Anomalies!Live) <= Len(buffer)
         /\ Increasing(Anomalies!Live)
         /\ \A j \in DOMAIN Anomalies!Live :
              \E i \in DOMAIN buffer :
                Anomalies!Live[j] = buffer[i] /\ ~Anomalies!Expired(buffer[i])
         /\ \A i \in DOMAIN buffer :
              ~Anomalies!Expired(buffer[i])
                => \E j \in DOMAIN Anomalies!Live : Anomalies!Live[j] = buffer[i]
  <1>1. \A i \in DOMAIN buffer : buffer[i] \in Nat
    BY AnomalyFacts
  <1>2. DOMAIN buffer = 1 .. Len(buffer)
    BY AnomalyFacts
  <1> HIDE DEF AnomalyInv
  <1>3. Kept(Anomalies!Live, buffer, Len(buffer), Nat \ {id \in Nat : Anomalies!Expired(id)})
    BY LiveIsKept
  <1> QED BY <1>1, <1>2, <1>3 DEF Kept

LEMMA AnomalyNext ==
  ASSUME AnomalyInv, [Anomalies!Next]_anomalyVars
  PROVE  AnomalyInv'
  <1>1. /\ now \in Nat /\ MaxTime \in Nat /\ now \in 0 .. MaxTime /\ DOMAIN entries = 1 .. Len(entries)
        /\ buffer \in Seq(Nat) /\ Len(buffer) \in Nat /\ Increasing(buffer)
        /\ DOMAIN buffer = 1 .. Len(buffer) /\ served \subseteq DOMAIN entries
        /\ \A j \in DOMAIN buffer : buffer[j] \in DOMAIN entries
        /\ \A id \in DOMAIN entries : entries[id].timestamp \in Nat /\ entries[id].ttl \in Nat
    BY AnomalyFacts DEF AnomalyInv, Anomalies!TypeOK
  <1>2. ASSUME NEW ttl \in Ttls \union {None}, Anomalies!Add(ttl) PROVE AnomalyInv'
    BY <1>2, AddKeeps
  <1>3. ASSUME NEW id \in 1 .. Len(entries), Anomalies!Get(id) PROVE AnomalyInv'
    <2>1. UNCHANGED <<entries, now, evicted>>
      BY <1>3 DEF Anomalies!Get
    <2>2. CASE UNCHANGED buffer /\ (served' = {} \/ (served' = {id} /\ ~Anomalies!Expired(id)))
      <3>1. \A i \in served' : ~Anomalies!Expired(i)'
        BY <2>1, <2>2 DEF Anomalies!Expired
      <3>2. \A i \in DOMAIN entries : Anomalies!Expired(i) => Anomalies!Expired(i)'
        BY <2>1 DEF Anomalies!Expired
      <3>3. served' \subseteq DOMAIN entries
        BY <1>1, <2>2
      <3> QED BY <1>1, <2>1, <2>2, <3>1, <3>2, <3>3, OnlyExpiredGo
    <2>3. CASE /\ Anomalies!Expired(id) /\ served' = {}
               /\ \E k \in DOMAIN buffer :
                    buffer[k] = id /\ buffer' = Anomalies!RemoveAt(buffer, k)
      <3>1. PICK k \in 1 .. Len(buffer) :
               buffer[k] = id /\ buffer' = SubSeq(buffer, 1, k - 1) \o SubSeq(buffer, k + 1, Len(buffer))
        BY <1>1, <2>3 DEF Anomalies!RemoveAt
      <3>2. /\ buffer' \in Seq(Nat) /\ Len(buffer') = Len(buffer) - 1
            /\ \A j \in 1 .. (Len(buffer) - 1) : buffer'[j] = IF j < k THEN buffer[j] ELSE buffer[j + 1]
        <4>1. buffer \in Seq(Nat) /\ k \in 1 .. Len(buffer)
          BY <1>1
        <4> QED BY <3>1, <4>1, RemovedFacts
      <3>3. DOMAIN buffer' = 1 .. (Len(buffer) - 1)
        BY <3>2
      <3>4. Increasing(buffer')
        <4> SUFFICES ASSUME NEW i \in 1 .. (Len(buffer) - 1), NEW j \in 1 .. (Len(buffer) - 1), i < j
                     PROVE  buffer'[i] < buffer'[j]
          BY <3>3 DEF Increasing
        <4> DEFINE a == IF i < k THEN i ELSE i + 1
                   b == IF j < k THEN j ELSE j + 1
        <4>1. a \in DOMAIN buffer /\ b \in DOMAIN buffer /\ a < b
          BY <1>1
        <4>2. buffer'[i] = buffer[a] /\ buffer'[j] = buffer[b]
          BY <3>2
        <4> QED BY <1>1, <4>1, <4>2 DEF Increasing
      <3>5. ASSUME NEW j \in DOMAIN buffer'
            PROVE  \E i \in DOMAIN buffer : buffer'[j] = buffer[i]
        <4>1. j \in DOMAIN buffer /\ j + 1 \in DOMAIN buffer
          BY <1>1, <3>3
        <4> QED BY <3>2, <3>3, <4>1
      <3>6. ASSUME NEW i \in DOMAIN buffer, ~Anomalies!Expired(buffer[i])
            PROVE  \E j \in DOMAIN buffer' : buffer'[j] = buffer[i]
        <4>1. i # k
          BY <2>3, <3>1, <3>6
        <4>2. CASE i < k
          <5>1. i \in 1 .. (Len(buffer) - 1)
            BY <1>1, <4>2
          <5> QED BY <3>2, <3>3, <4>2, <5>1
        <4>3. CASE i > k
          <5>1. i - 1 \in 1 .. (Len(buffer) - 1) /\ ~(i - 1 < k) /\ (i - 1) + 1 = i
            BY <1>1, <4>3
          <5> QED BY <3>2, <3>3, <5>1
        <4> QED BY <1>1, <4>1, <4>2, <4>3
      <3>7. \A i \in DOMAIN entries : Anomalies!Expired(i) => Anomalies!Expired(i)'
        BY <2>1 DEF Anomalies!Expired
      <3>8. Len(buffer') <= Len(buffer)
        BY <1>1, <3>2
      <3>9. now' \in 0 .. MaxTime /\ now' >= now
        BY <1>1, <2>1
      <3> QED BY <2>1, <2>3, <3>2, <3>4, <3>5, <3>6, <3>7, <3>8, <3>9, OnlyExpiredGo
    <2>4. \/ UNCHANGED buffer /\ (served' = {} \/ (served' = {id} /\ ~Anomalies!Expired(id)))
          \/ /\ Anomalies!Expired(id) /\ served' = {}
             /\ \E k \in DOMAIN buffer :
                  buffer[k] = id /\ buffer' = Anomalies!RemoveAt(buffer, k)
      <3>1. \/ Anomalies!Contains(buffer, id) /\ ~Anomalies!Expired(id)
               /\ served' = {id} /\ UNCHANGED buffer
            \/ /\ Anomalies!Expired(id)
               /\ \E k \in DOMAIN buffer :
                    buffer[k] = id /\ buffer' = Anomalies!RemoveAt(buffer, k)
               /\ served' = {}
            \/ ~Anomalies!Contains(buffer, id) /\ served' = {} /\ UNCHANGED buffer
        BY <1>3, Zenon DEF Anomalies!Get
      <3> QED BY <3>1, Zenon
    <2> QED BY <2>2, <2>3, <2>4, Zenon
  <1>4. CASE Anomalies!GetAll
    <2>1. UNCHANGED <<buffer, entries, now, evicted>> /\ served' = Anomalies!ToSet(Anomalies!Live)
      BY <1>4 DEF Anomalies!GetAll
    <2>2. ASSUME NEW id \in served' PROVE id \in DOMAIN entries /\ ~Anomalies!Expired(id)
      <3>1. PICK j \in DOMAIN Anomalies!Live : id = Anomalies!Live[j]
        BY <2>1, <2>2 DEF Anomalies!ToSet
      <3>2. PICK i \in DOMAIN buffer : Anomalies!Live[j] = buffer[i] /\ ~Anomalies!Expired(buffer[i])
        BY <3>1, LiveFacts
      <3> QED BY <1>1, <3>1, <3>2
    <2>3. \A i \in served' : ~Anomalies!Expired(i)'
      BY <2>1, <2>2 DEF Anomalies!Expired
    <2>4. \A i \in DOMAIN entries : Anomalies!Expired(i) => Anomalies!Expired(i)'
      BY <2>1 DEF Anomalies!Expired
    <2> QED BY <1>1, <2>1, <2>2, <2>3, <2>4, OnlyExpiredGo
  <1>5. CASE Anomalies!CleanupExpired
    <2>1. UNCHANGED <<entries, now, served, evicted>> /\ buffer' = Anomalies!Live
      BY <1>5 DEF Anomalies!CleanupExpired
    <2>2. \A id \in served' : ~Anomalies!Expired(id)'
      <3>1. \A id \in served : now - entries[id].timestamp <= entries[id].ttl
        BY DEF AnomalyInv, Anomalies!EntriesAreKept, Anomalies!NothingStaleServed
      <3>2. \A id \in served : now - entries[id].timestamp \in Int /\ entries[id].ttl \in Int
        BY <1>1
      <3>3. \A id \in served : ~(now - entries[id].timestamp > entries[id].ttl)
        BY <3>1, <3>2
      <3> QED BY <2>1, <3>3 DEF Anomalies!Expired
    <2>3. \A i \in DOMAIN entries : Anomalies!Expired(i) => Anomalies!Expired(i)'
      BY <2>1 DEF Anomalies!Expired
    <2>4. /\ buffer' \in Seq(Nat) /\ Len(buffer') <= Len(buffer) /\ Increasing(buffer')
          /\ \A j \in DOMAIN buffer' : \E i \in DOMAIN buffer : buffer'[j] = buffer[i]
          /\ \A i \in DOMAIN buffer :
               ~Anomalies!Expired(buffer[i]) => \E j \in DOMAIN buffer' : buffer'[j] = buffer[i]
      BY <2>1, LiveFacts
    <2>5. now' \in 0 .. MaxTime /\ now' >= now /\ served' \subseteq DOMAIN entries
      BY <1>1, <2>1
    <2> QED BY <2>1, <2>2, <2>3, <2>4, <2>5, OnlyExpiredGo
  <1>6. CASE Anomalies!Tick
    <2>1. UNCHANGED <<buffer, entries, evicted>> /\ served' = {} /\ now' = now + 1 /\ now < MaxTime
      BY <1>6 DEF Anomalies!Tick
    <2>2. \A i \in DOMAIN entries : Anomalies!Expired(i) => Anomalies!Expired(i)'
      BY <1>1, <2>1 DEF Anomalies!Expired
    <2>3. now' \in 0 .. MaxTime /\ now' >= now
      BY <1>1, <2>1
    <2> QED BY <1>1, <2>1, <2>2, <2>3, OnlyExpiredGo
  <1>7. CASE UNCHANGED anomalyVars
    BY <1>7 DEF anomalyVars, AnomalyInv, Anomalies!TypeOK, Anomalies!EntriesAreKept,
                Anomalies!BoundedInOrder, Anomalies!NewestSurvive, Anomalies!NothingStaleServed,
                Anomalies!Expired
  <1> QED BY <1>2, <1>3, <1>4, <1>5, <1>6, <1>7 DEF Anomalies!Next

-----------------------------------------------------------------------------
(*****************************************************************************)
(* The GPU batch optimizer.  The slices of a call are consecutive and        *)
(* cover it; a GPU is charged at least the texts of its batches that have    *)
(* not ended, which is a sum over calls and batches.                         *)
(*****************************************************************************)
LEMMA Rounding ==
  ASSUME NEW n \in Nat \ {0}, NEW size \in Nat \ {0}
  PROVE  LET k == (n + size - 1) \div size IN
         k \in Nat /\ k > 0 /\ (k - 1) * size < n /\ n <= k * size
  <1> DEFINE x == n + size - 1
             k == x \div size
  <1>1. x \in Nat /\ size \in Nat /\ size > 0
    OBVIOUS
  <1> HIDE DEF x
  <1>2. x = size * (x \div size) + (x % size) /\ x % size \in 0 .. (size - 1) /\ x \div size \in Int
    BY <1>1
  <1>3. k \in Nat
    BY <1>1
  <1> QED BY <1>1, <1>2, <1>3 DEF x

LEMMA Joined ==
  ASSUME NEW a \in Nat, NEW b \in Nat
  PROVE  [x \in 1 .. a |-> x] \o [i \in 1 .. b |-> a + i] = [x \in 1 .. (a + b) |-> x]
  OBVIOUS

LEMMA SameTurn ==
  ASSUME NEW N \in Nat \ {0}, NEW x \in Nat, NEW y \in Nat, x < y, x % N = y % N
  PROVE  x + N <= y
  <1>1. x = (N * (x \div N)) + (x % N) /\ y = (N * (y \div N)) + (y % N)
        /\ x \div N \in Int /\ y \div N \in Int
    OBVIOUS
  <1> DEFINE a == x \div N
             b == y \div N
  <1>2. N * a < N * b
    BY <1>1
  <1> HIDE DEF a, b
  <1>3. a \in Int /\ b \in Int
    BY <1>1 DEF a, b
  <1>4. a + 1 <= b
    BY <1>2, <1>3
  <1>5. N * a + N <= N * b
    BY <1>3, <1>4
  <1> QED BY <1>1, <1>5 DEF a, b

LEMMA TurnLater ==
  ASSUME NEW N \in Nat \ {0}, NEW x \in Nat, NEW h \in 0 .. (N - 1)
  PROVE  \E d \in 0 .. (N - 1) : (x + d) % N = h
  <1> DEFINE g == x % N
             a == x \div N
  <1>1. x = N * a + g /\ a \in Int /\ g \in 0 .. (N - 1)
    OBVIOUS
  <1> HIDE DEF g, a
  <1>2. CASE h >= g
    <2>1. h - g \in 0 .. (N - 1) /\ x + (h - g) = N * a + h
      BY <1>1, <1>2
    <2>2. (N * a + h) % N = h
      BY <1>1
    <2> QED BY <2>1, <2>2
  <1>3. CASE h < g
    <2>1. h - g + N \in 0 .. (N - 1) /\ x + (h - g + N) = N * (a + 1) + h
      BY <1>1, <1>3
    <2>2. (N * (a + 1) + h) % N = h
      BY <1>1
    <2> QED BY <2>1, <2>2
  <1> QED BY <1>1, <1>2, <1>3

\* Round robin gives nobody two turns more than another.
Turns(i, k, N, g) == {j \in 1 .. k : (i + j) % N = g}

LEMMA TurnsSpread ==
  ASSUME NEW i \in Nat, NEW k \in Nat, NEW N \in Nat \ {0},
         NEW g \in 0 .. (N - 1), NEW h \in 0 .. (N - 1)
  PROVE  Cardinality(Turns(i, k, N, g)) <= Cardinality(Turns(i, k, N, h)) + 1
  <1> DEFINE A == Turns(i, k, N, g)
             B == Turns(i, k, N, h)
  <1>1. /\ IsFiniteSet(A) /\ IsFiniteSet(B) /\ Cardinality(A) \in Nat /\ Cardinality(B) \in Nat
        /\ A \subseteq 1 .. k /\ B \subseteq 1 .. k
    <2>1. IsFiniteSet(1 .. k) /\ A \subseteq 1 .. k /\ B \subseteq 1 .. k
      BY FS_Interval DEF Turns
    <2> QED BY <2>1, FS_Subset, FS_CardinalityType
  <1>2. CASE A = {}
    <2>1. Cardinality(A) = 0
      BY <1>2, FS_EmptySet
    <2> QED BY <1>1, <2>1
  <1>3. CASE A # {}
    <2> DEFINE m == MaxOf(A)
               R == A \ {m}
               After(j) == CHOOSE q \in B : j <= q /\ q < j + N
               f == [j \in R |-> After(j)]
    <2>1. m \in A /\ \A j \in A : m >= j
      <3>1. A \in SUBSET (1 .. k)
        BY <1>1
      <3> QED BY <1>3, <3>1, MaxExists
    <2> HIDE DEF m
    <2>2. \A j \in A : j \in 1 .. k /\ (i + j) % N = g
      BY DEF Turns
    <2>3. ASSUME NEW j \in R PROVE \E q \in B : j <= q /\ q < j + N
      <3>1. j \in Nat /\ m \in 1 .. k /\ j < m /\ i + j \in Nat /\ i + m \in Nat /\ i + j < i + m
        <4>1. j \in 1 .. k /\ m \in 1 .. k /\ m >= j /\ j # m
          BY <2>1, <2>2
        <4> QED BY <4>1
      <3>2. (i + j) + N <= i + m
        <4>1. (i + j) % N = (i + m) % N
          BY <2>1, <2>2
        <4> QED BY <3>1, <4>1, SameTurn
      <3>3. PICK d \in 0 .. (N - 1) : ((i + j) + d) % N = h
        BY <3>1, TurnLater
      <3>4. /\ j + d \in 1 .. k /\ j <= j + d /\ j + d < j + N
            /\ (i + j) + d = i + (j + d)
        <4>1. j \in 1 .. k
          BY <2>2
        <4> QED BY <3>1, <3>2, <4>1
      <3>5. j + d \in B
        BY <3>3, <3>4 DEF Turns
      <3> QED BY <3>4, <3>5
    <2> HIDE DEF A, B
    <2>4. \A j \in R : After(j) \in B /\ j <= After(j) /\ After(j) < j + N
      BY <2>3
    <2>5. f \in [R -> B]
      BY <2>4
    <2>6. ASSUME NEW j \in R, NEW l \in R, j < l PROVE After(j) < After(l)
      <3>1. j \in Nat /\ l \in Nat /\ i + j \in Nat /\ i + l \in Nat /\ i + j < i + l
            /\ (i + j) % N = (i + l) % N
        <4>1. j \in 1 .. k /\ l \in 1 .. k /\ (i + j) % N = (i + l) % N
          BY <2>2
        <4> QED BY <2>6, <4>1
      <3>2. (i + j) + N <= i + l
        BY <3>1, SameTurn
      <3>3. /\ After(j) \in 1 .. k /\ After(l) \in 1 .. k
            /\ After(j) < j + N /\ l <= After(l)
        BY <1>1, <2>4
      <3> HIDE DEF After
      <3> QED BY <3>1, <3>2, <3>3
    <2>7. \A j, l \in R : f[j] = f[l] => j = l
      <3> SUFFICES ASSUME NEW j \in R, NEW l \in R, f[j] = f[l], j # l PROVE FALSE
        OBVIOUS
      <3>1. j \in Nat /\ l \in Nat
        BY <2>2
      <3>2. After(j) = After(l) /\ After(j) \in 1 .. k
        BY <1>1, <2>4
      <3>3. After(j) < After(l) \/ After(l) < After(j)
        BY <2>6, <3>1
      <3> HIDE DEF After
      <3> QED BY <3>2, <3>3
    <2> HIDE DEF f
    <2>8. f \in Injection(R, B)
      BY <2>5, <2>7 DEF Injection, IsInjective
    <2>9. Cardinality(R) <= Cardinality(B)
      BY <1>1, <2>8, FS_Injection
    <2>10. Cardinality(R) = Cardinality(A) - 1
      BY <1>1, <2>1, FS_RemoveElement
    <2>11. Cardinality(A) <= Cardinality(B) + 1
      BY <1>1, <2>9, <2>10
    <2> QED BY <2>11 DEF A, B
  <1> QED BY <1>2, <1>3

\* The slices of n texts follow each other and make up the n texts.
Batches(n, size) == (n + size - 1) \div size

LEMMA SliceFacts ==
  ASSUME NEW n \in Nat \ {0}, NEW size \in Nat \ {0}
  PROVE  LET k == Batches(n, size)
             slices == Gpu!Slices(n, size)
             Upto(j) == IF j * size < n THEN j * size ELSE n
         IN
         /\ k \in Nat /\ k > 0 /\ Upto(0) = 0 /\ Upto(k) = n
         /\ \A j \in 0 .. k : Upto(j) \in 0 .. n
         /\ Len(slices) = k /\ DOMAIN slices = 1 .. k
         /\ \A j \in 1 .. k : slices[j] \in Seq(1 .. n)
         /\ \A j \in 1 .. k :
              \E b \in Nat : /\ Upto(j) = Upto(j - 1) + b
                             /\ slices[j] = [i \in 1 .. b |-> Upto(j - 1) + i]
  <1> DEFINE k == Batches(n, size)
             slices == Gpu!Slices(n, size)
             Upto(j) == IF j * size < n THEN j * size ELSE n
             b(j) == Gpu!Least(size, n - (j - 1) * size)
  <1>1. k \in Nat /\ k > 0 /\ (k - 1) * size < n /\ n <= k * size
    BY Rounding DEF Batches
  <1>2. slices = [j \in 1 .. k |-> [i \in 1 .. b(j) |-> (j - 1) * size + i]]
    BY DEF Gpu!Slices, Batches
  <1> HIDE DEF k, slices
  <1>3. \A j \in Int : j * size \in Int
    OBVIOUS
  <1>4. \A j \in 0 .. k : Upto(j) \in 0 .. n
    <2> SUFFICES ASSUME NEW j \in 0 .. k PROVE Upto(j) \in 0 .. n
      OBVIOUS
    <2>1. j * size \in Nat
      <3>1. j \in Nat
        BY <1>1
      <3> QED BY <3>1
    <2> QED BY <2>1
  <1>5. Upto(0) = 0 /\ Upto(k) = n
    <2>1. 0 * size = 0
      OBVIOUS
    <2>2. k * size \in Int
      BY <1>1, <1>3
    <2> QED BY <1>1, <2>1, <2>2
  <1>6. ASSUME NEW j \in 1 .. k
        PROVE  /\ Upto(j - 1) = (j - 1) * size /\ Upto(j - 1) \in Nat
               /\ b(j) \in Nat /\ Upto(j) = Upto(j - 1) + b(j)
               /\ Upto(j) <= n
    <2> DEFINE a == (j - 1) * size
    <2>1. j - 1 \in Nat /\ j - 1 <= k - 1 /\ j \in Int
      BY <1>1
    <2>2. a \in Nat /\ a <= (k - 1) * size /\ (k - 1) * size \in Int
      <3>1. \A x, y \in Int : x >= 0 /\ x <= y => x * size \in Nat /\ x * size <= y * size
        OBVIOUS
      <3> QED BY <1>1, <1>3, <2>1, <3>1
    <2>3. a < n
      BY <1>1, <2>2
    <2>4. j * size = a + size
      BY <2>1
    <2> HIDE DEF a
    <2>5. Upto(j - 1) = a
      BY <2>3 DEF a
    <2>6. b(j) = IF size < n - a THEN size ELSE n - a
      BY DEF Gpu!Least, a
    <2>7. b(j) \in Nat /\ Upto(j) = a + b(j) /\ Upto(j) <= n
      BY <2>2, <2>3, <2>4, <2>6
    <2> QED BY <2>2, <2>5, <2>7 DEF a
  <1> HIDE DEF b, Upto
  <1>7. \A j \in 1 .. k : slices[j] = [i \in 1 .. b(j) |-> Upto(j - 1) + i]
    BY <1>2, <1>6
  <1>8. ASSUME NEW j \in 1 .. k PROVE slices[j] \in Seq(1 .. n)
    <2>1. \A i \in 1 .. b(j) : Upto(j - 1) + i \in 1 .. n
      BY <1>6
    <2>2. b(j) \in Nat
      BY <1>6
    <2>3. [i \in 1 .. b(j) |-> Upto(j - 1) + i] \in [1 .. b(j) -> 1 .. n]
      BY <2>1
    <2>4. \A m \in Nat : \A q \in [1 .. m -> 1 .. n] : q \in Seq(1 .. n)
      OBVIOUS
    <2>5. slices[j] \in [1 .. b(j) -> 1 .. n]
      BY <1>7, <2>3
    <2> QED BY <2>2, <2>4, <2>5
  <1>9. Len(slices) = k /\ DOMAIN slices = 1 .. k
    BY <1>1, <1>2
  <1>10. \A j \in 1 .. k :
           \E x \in Nat : /\ Upto(j) = Upto(j - 1) + x
                          /\ slices[j] = [i \in 1 .. x |-> Upto(j - 1) + i]
    BY <1>6, <1>7
  <1> QED BY <1>1, <1>4, <1>5, <1>8, <1>9, <1>10 DEF k, slices, Upto

LEMMA SlicesJoin ==
  ASSUME NEW n \in Nat \ {0}, NEW size \in Nat \ {0}
  PROVE  Gpu!FlattenSeq(Gpu!Slices(n, size)) = [i \in 1 .. n |-> i]
  <1> DEFINE k == Batches(n, size)
             slices == Gpu!Slices(n, size)
             Upto(j) == IF j * size < n THEN j * size ELSE n
             Flat(f) == f = [j \in 1 .. Len(slices) |->
                               IF j = 1 THEN slices[j] ELSE f[j - 1] \o slices[j]]
             F == CHOOSE f : Flat(f)
             e == [j \in 1 .. k |-> [x \in 1 .. Upto(j) |-> x]]
  <1>1. /\ k \in Nat /\ k > 0 /\ Upto(0) = 0 /\ Upto(k) = n
        /\ \A j \in 0 .. k : Upto(j) \in 0 .. n
        /\ Len(slices) = k
        /\ \A j \in 1 .. k :
             \E b \in Nat : /\ Upto(j) = Upto(j - 1) + b
                            /\ slices[j] = [i \in 1 .. b |-> Upto(j - 1) + i]
    BY SliceFacts
  <1>2. Gpu!FlattenSeq(slices) = F[k]
    BY <1>1 DEF Gpu!FlattenSeq
  <1> HIDE DEF k, slices, Upto
  <1>3. ASSUME NEW j \in 1 .. k
        PROVE  [x \in 1 .. Upto(j - 1) |-> x] \o slices[j] = [x \in 1 .. Upto(j) |-> x]
    <2>1. PICK b \in Nat : /\ Upto(j) = Upto(j - 1) + b
                           /\ slices[j] = [i \in 1 .. b |-> Upto(j - 1) + i]
      BY <1>1
    <2>2. Upto(j - 1) \in Nat
      <3>1. j - 1 \in 0 .. k
        BY <1>1
      <3>2. Upto(j - 1) \in 0 .. n
        BY <1>1, <3>1
      <3> QED BY <3>2
    <2> QED BY <2>1, <2>2, Joined
  <1>4. slices[1] = [x \in 1 .. Upto(1) |-> x]
    <2>1. 1 \in 1 .. k /\ 1 - 1 = 0
      BY <1>1
    <2>2. PICK b \in Nat : /\ Upto(1) = Upto(1 - 1) + b
                           /\ slices[1] = [i \in 1 .. b |-> Upto(1 - 1) + i]
      BY <1>1, <2>1
    <2>3. Upto(1) = b /\ \A i \in 1 .. b : 0 + i = i
      BY <1>1, <2>1, <2>2
    <2> QED BY <1>1, <2>1, <2>2, <2>3
  <1>5. Flat(e)
    <2>1. ASSUME NEW j \in 1 .. k
          PROVE  e[j] = IF j = 1 THEN slices[j] ELSE e[j - 1] \o slices[j]
      <3>1. CASE j = 1
        BY <1>1, <1>4, <3>1
      <3>2. CASE j # 1
        <4>1. j - 1 \in 1 .. k
          BY <1>1, <3>2
        <4> QED BY <1>3, <3>2, <4>1
      <3> QED BY <3>1, <3>2
    <2>2. e = [j \in 1 .. k |-> e[j]]
      OBVIOUS
    <2> HIDE DEF e
    <2> QED BY <1>1, <2>1, <2>2
  <1>6. Flat(F)
    <2> HIDE DEF Flat, e
    <2> QED BY <1>5
  <1> HIDE DEF F
  <1> DEFINE T == {j \in Nat : j + 1 \in 1 .. k => F[j + 1] = e[j + 1]}
  <1>7. 0 \in T
    BY <1>1, <1>5, <1>6
  <1>8. ASSUME NEW j \in Nat, j \in T PROVE j + 1 \in T
    <2> SUFFICES ASSUME (j + 1) + 1 \in 1 .. k PROVE F[(j + 1) + 1] = e[(j + 1) + 1]
      OBVIOUS
    <2>1. j + 1 \in 1 .. k /\ F[j + 1] = e[j + 1]
      BY <1>1, <1>8
    <2>2. ((j + 1) + 1) - 1 = j + 1 /\ (j + 1) + 1 # 1
      OBVIOUS
    <2> DEFINE l == (j + 1) + 1
    <2>3. \A f : Flat(f) => f[l] = f[l - 1] \o slices[l]
      <3>1. l \in 1 .. Len(slices) /\ l # 1
        BY <1>1, <2>2
      <3> HIDE DEF l
      <3> QED BY <3>1
    <2>4. F[l - 1] = e[l - 1]
      BY <2>1, <2>2
    <2> HIDE DEF e, Flat, l
    <2>5. F[l] = e[l]
      BY <1>5, <1>6, <2>3, <2>4
    <2> QED BY <2>5 DEF l
  <1>9. F[k] = e[k]
    <2>1. Nat \subseteq T
      <3> HIDE DEF T
      <3> QED BY <1>7, <1>8, Counting
    <2>2. k - 1 \in Nat /\ (k - 1) + 1 = k /\ k \in 1 .. k
      BY <1>1
    <2> HIDE DEF e
    <2> QED BY <2>1, <2>2
  <1>10. e[k] = [x \in 1 .. n |-> x]
    BY <1>1
  <1> QED BY <1>2, <1>9, <1>10 DEF slices

\* What a GPU works on, as sums over the batches of a call and over the calls.
Share(b, g) == IF b.gpu = g THEN Len(b.items) ELSE 0
Work(bs, R, g) == SumOf([j \in R |-> Share(bs[j], g)], R)
AllWork(bss, es, g) == SumOf([c \in Calls |-> Work(bss[c], DOMAIN bss[c] \ es[c], g)], Calls)

FoldedWork(bs, R, g) ==
  (CHOOSE f : f = [s \in SUBSET R |->
                     IF s = {} THEN 0
                     ELSE LET x == CHOOSE x \in s : TRUE IN
                          (IF bs[x].gpu = g THEN Len(bs[x].items) ELSE 0) + f[s \ {x}]])[R]

FoldedWorks(bss, es, g) ==
  (CHOOSE f : f = [s \in SUBSET Calls |->
                     IF s = {} THEN 0
                     ELSE LET x == CHOOSE x \in s : TRUE IN
                          FoldedWork(bss[x], DOMAIN bss[x] \ es[x], g) + f[s \ {x}]])[Calls]

LEMMA FoldedIsWork ==
  ASSUME NEW bs, NEW R, NEW g
  PROVE  FoldedWork(bs, R, g) = Work(bs, R, g)
  <1> DEFINE h == [j \in R |-> Share(bs[j], g)]
             Fold(f) == f = [s \in SUBSET R |->
                               IF s = {} THEN 0
                               ELSE LET x == CHOOSE x \in s : TRUE IN
                                    (IF bs[x].gpu = g THEN Len(bs[x].items) ELSE 0) + f[s \ {x}]]
  <1>1. \A s \in SUBSET R : s # {} =>
          h[CHOOSE x \in s : TRUE]
            = LET x == CHOOSE x \in s : TRUE IN IF bs[x].gpu = g THEN Len(bs[x].items) ELSE 0
    BY DEF Share
  <1> HIDE DEF h
  <1>2. ASSUME NEW f PROVE Fold(f) <=> AddsUp(f, h, R)
    BY <1>1 DEF AddsUp
  <1> HIDE DEF Fold
  <1>3. (CHOOSE f : Fold(f)) = (CHOOSE f : AddsUp(f, h, R))
    BY <1>2
  <1>4. FoldedWork(bs, R, g) = (CHOOSE f : Fold(f))[R]
    BY DEF FoldedWork, Fold
  <1>5. Work(bs, R, g) = (CHOOSE f : AddsUp(f, h, R))[R]
    BY DEF Work, SumOf, h
  <1> QED BY <1>3, <1>4, <1>5

LEMMA FoldedAreWorks ==
  ASSUME NEW bss, NEW es, NEW g
  PROVE  FoldedWorks(bss, es, g) = AllWork(bss, es, g)
  <1> DEFINE h == [c \in Calls |-> Work(bss[c], DOMAIN bss[c] \ es[c], g)]
             Fold(f) == f = [s \in SUBSET Calls |->
                               IF s = {} THEN 0
                               ELSE LET x == CHOOSE x \in s : TRUE IN
                                    FoldedWork(bss[x], DOMAIN bss[x] \ es[x], g) + f[s \ {x}]]
  <1>1. \A s \in SUBSET Calls : s # {} =>
          h[CHOOSE x \in s : TRUE]
            = LET x == CHOOSE x \in s : TRUE IN FoldedWork(bss[x], DOMAIN bss[x] \ es[x], g)
    BY FoldedIsWork
  <1> HIDE DEF h
  <1>2. ASSUME NEW f PROVE Fold(f) <=> AddsUp(f, h, Calls)
    BY <1>1 DEF AddsUp
  <1> HIDE DEF Fold
  <1>3. (CHOOSE f : Fold(f)) = (CHOOSE f : AddsUp(f, h, Calls))
    BY <1>2
  <1>4. FoldedWorks(bss, es, g) = (CHOOSE f : Fold(f))[Calls]
    BY DEF FoldedWorks, Fold
  <1>5. AllWork(bss, es, g) = (CHOOSE f : AddsUp(f, h, Calls))[Calls]
    BY DEF AllWork, SumOf, h
  <1> QED BY <1>3, <1>4, <1>5

LEMMA InFlightIsWork ==
  ASSUME NEW g
  PROVE  /\ Gpu!InFlight(g) = AllWork(batches, ended, g)
         /\ Gpu!InFlight(g)' = AllWork(batches', ended', g)
  <1>1. Gpu!InFlight(g) = FoldedWorks(batches, ended, g)
    BY DEF Gpu!InFlight, Gpu!MapThenSumSet, Gpu!MapThenFoldSet, Gpu!Running, FoldedWorks, FoldedWork
  <1>2. Gpu!InFlight(g)' = FoldedWorks(batches', ended', g)
    BY DEF Gpu!InFlight, Gpu!MapThenSumSet, Gpu!MapThenFoldSet, Gpu!Running, FoldedWorks, FoldedWork
  <1> QED BY <1>1, <1>2, FoldedAreWorks

\* The GPU batch optimizer.  The batches of a call are the slices of its texts, its
\* GPUs those of consecutive turns by round robin.
Cut(c) ==
  IF texts[c] = 0 THEN batches[c] = <<>> /\ ended[c] = {}
  ELSE \E size \in Nat \ {0} :
         /\ DOMAIN batches[c] = 1 .. Batches(texts[c], size)
         /\ \A j \in DOMAIN batches[c] : batches[c][j].items = Gpu!Slices(texts[c], size)[j]

TakesTurns(c) ==
  strategy = "round-robin" =>
    \E i \in Nat : \A j \in DOMAIN batches[c] : batches[c][j].gpu = (i + j) % gpu_count

GpuInv ==
  /\ Gpu!TypeOK /\ DOMAIN batches = Calls
  /\ \A c \in Calls : DOMAIN batches[c] = 1 .. Len(batches[c]) /\ Len(batches[c]) \in Nat
  /\ \A c \in Calls : Cut(c) /\ TakesTurns(c)
  /\ Gpu!LoadCoversWork

LEMMA GpuFacts ==
  /\ MaxTexts \in Nat /\ MaxTexts > 0 /\ gpu_count \in Nat \ {0}
  /\ batch_size \in Nat \ {0} /\ max_batch_size \in Nat \ {0}
  /\ IsFiniteSet(Calls) /\ Gpu!GPUs = 0 .. (gpu_count - 1)
  /\ 0 \in Gpu!GPUs
  /\ \A S : Gpu!Cardinality(S) = Cardinality(S)
  <1>1. \A S : Gpu!IsFiniteSet(S) <=> IsFiniteSet(S)
    BY DEF Gpu!IsFiniteSet, IsFiniteSet
  <1>2. \A S : Gpu!Cardinality(S) = Cardinality(S)
    BY DEF Gpu!Cardinality, Cardinality
  <1> QED BY <1>1, <1>2, StreamsAssumption DEF Gpu!GpuAssumption, Gpu!GPUs

\* A batch has a GPU and texts of its call.
LEMMA SharesAreCounts ==
  ASSUME GpuInv, NEW c \in Calls
  PROVE  /\ IsFiniteSet(DOMAIN batches[c])
         /\ \A j \in DOMAIN batches[c] : /\ batches[c][j].gpu \in Gpu!GPUs
                                         /\ Len(batches[c][j].items) \in Nat
         /\ \A j \in DOMAIN batches[c], g \in Gpu!GPUs : Share(batches[c][j], g) \in Nat
  <1>1. IsFiniteSet(DOMAIN batches[c])
    <2>1. DOMAIN batches[c] = 1 .. Len(batches[c]) /\ Len(batches[c]) \in Nat
      BY DEF GpuInv
    <2> QED BY <2>1, FS_Interval
  <1>2. ASSUME NEW j \in DOMAIN batches[c]
        PROVE  batches[c][j].gpu \in Gpu!GPUs /\ Len(batches[c][j].items) \in Nat
    <2>1. batches[c][j].gpu \in Gpu!GPUs /\ batches[c][j].items \in Seq(1 .. MaxTexts)
      BY DEF GpuInv, Gpu!TypeOK
    <2> QED BY <2>1
  <1> QED BY <1>1, <1>2 DEF Share

LEMMA WorkFacts ==
  ASSUME NEW bs, NEW R, IsFiniteSet(R), NEW g, \A j \in R : Share(bs[j], g) \in Nat
  PROVE  /\ Work(bs, R, g) \in Nat
         /\ \A j \in R : Work(bs, R, g) = Share(bs[j], g) + Work(bs, R \ {j}, g)
         /\ R = {} => Work(bs, R, g) = 0
  <1> DEFINE h == [j \in R |-> Share(bs[j], g)]
  <1>1. \A j \in R : h[j] = Share(bs[j], g) /\ h[j] \in Nat
    OBVIOUS
  <1>2. Work(bs, R, g) = SumOf(h, R)
    BY DEF Work
  <1>3. ASSUME NEW j \in R PROVE SumOf(h, R \ {j}) = Work(bs, R \ {j}, g)
    <2> DEFINE l == [i \in R \ {j} |-> Share(bs[i], g)]
    <2>1. IsFiniteSet(R \ {j}) /\ \A i \in R \ {j} : h[i] \in Nat /\ h[i] = l[i]
      BY <1>1, FS_Subset
    <2>2. Work(bs, R \ {j}, g) = SumOf(l, R \ {j})
      BY DEF Work
    <2> HIDE DEF h, l
    <2> QED BY <2>1, <2>2, SumSame
  <1> HIDE DEF h
  <1>4. SumOf(h, R) \in Nat
    BY <1>1, SumIsSum
  <1>5. \A j \in R : SumOf(h, R) = h[j] + SumOf(h, R \ {j})
    BY <1>1, SumSplits
  <1>6. R = {} => SumOf(h, R) = 0
    <2> SUFFICES ASSUME R = {} PROVE SumOf(h, R) = 0
      OBVIOUS
    <2>1. \A j \in R : h[j] = 0
      OBVIOUS
    <2> QED BY <2>1, SumOfZeros
  <1> QED BY <1>1, <1>2, <1>3, <1>4, <1>5, <1>6

\* When the work of one call changes, the work of all changes by as much.
LEMMA AllWorkGrows ==
  ASSUME GpuInv, NEW c \in Calls, NEW g \in Gpu!GPUs, NEW bss,
         \A d \in Calls \ {c} : bss[d] = batches[d],
         Work(bss[c], DOMAIN bss[c] \ ended[c], g) \in Nat
  PROVE  /\ AllWork(bss, ended, g) + Work(batches[c], DOMAIN batches[c] \ ended[c], g)
              = AllWork(batches, ended, g) + Work(bss[c], DOMAIN bss[c] \ ended[c], g)
         /\ AllWork(bss, ended, g) \in Nat /\ AllWork(batches, ended, g) \in Nat
         /\ Work(batches[c], DOMAIN batches[c] \ ended[c], g) \in Nat
  <1> DEFINE h == [d \in Calls |-> Work(batches[d], DOMAIN batches[d] \ ended[d], g)]
             l == [d \in Calls |-> Work(bss[d], DOMAIN bss[d] \ ended[d], g)]
  <1>1. ASSUME NEW d \in Calls
        PROVE  Work(batches[d], DOMAIN batches[d] \ ended[d], g) \in Nat
    <2>1. /\ IsFiniteSet(DOMAIN batches[d])
          /\ \A j \in DOMAIN batches[d] : Share(batches[d][j], g) \in Nat
      BY SharesAreCounts
    <2>2. IsFiniteSet(DOMAIN batches[d] \ ended[d])
      BY <2>1, FS_Subset
    <2> QED BY <2>1, <2>2, WorkFacts
  <1>2. \A d \in Calls : h[d] \in Nat /\ l[d] \in Nat
    BY <1>1
  <1>3. \A d \in Calls \ {c} : h[d] = l[d]
    OBVIOUS
  <1>4. /\ h[c] = Work(batches[c], DOMAIN batches[c] \ ended[c], g)
        /\ l[c] = Work(bss[c], DOMAIN bss[c] \ ended[c], g)
        /\ AllWork(batches, ended, g) = SumOf(h, Calls) /\ AllWork(bss, ended, g) = SumOf(l, Calls)
    BY DEF AllWork
  <1> HIDE DEF h, l
  <1>5. IsFiniteSet(Calls)
    BY GpuFacts
  <1>6. SumOf(l, Calls) + h[c] = SumOf(h, Calls) + l[c]
    BY <1>2, <1>3, <1>5, SumUpdate
  <1>7. SumOf(h, Calls) \in Nat /\ SumOf(l, Calls) \in Nat
    BY <1>2, <1>5, SumIsSum
  <1> QED BY <1>2, <1>4, <1>6, <1>7

\* The work of one call shrinks as its batches end.
LEMMA AllWorkEnds ==
  ASSUME GpuInv, NEW c \in Calls, NEW g \in Gpu!GPUs, NEW es,
         \A d \in Calls \ {c} : es[d] = ended[d],
         Work(batches[c], DOMAIN batches[c] \ es[c], g) \in Nat
  PROVE  /\ AllWork(batches, es, g) + Work(batches[c], DOMAIN batches[c] \ ended[c], g)
              = AllWork(batches, ended, g) + Work(batches[c], DOMAIN batches[c] \ es[c], g)
         /\ AllWork(batches, es, g) \in Nat /\ AllWork(batches, ended, g) \in Nat
  <1> DEFINE h == [d \in Calls |-> Work(batches[d], DOMAIN batches[d] \ ended[d], g)]
             l == [d \in Calls |-> Work(batches[d], DOMAIN batches[d] \ es[d], g)]
  <1>1. ASSUME NEW d \in Calls
        PROVE  Work(batches[d], DOMAIN batches[d] \ ended[d], g) \in Nat
    <2>1. /\ IsFiniteSet(DOMAIN batches[d])
          /\ \A j \in DOMAIN batches[d] : Share(batches[d][j], g) \in Nat
      BY SharesAreCounts
    <2>2. IsFiniteSet(DOMAIN batches[d] \ ended[d])
      BY <2>1, FS_Subset
    <2> QED BY <2>1, <2>2, WorkFacts
  <1>2. \A d \in Calls : h[d] \in Nat /\ l[d] \in Nat
    BY <1>1
  <1>3. \A d \in Calls \ {c} : h[d] = l[d]
    OBVIOUS
  <1>4. /\ h[c] = Work(batches[c], DOMAIN batches[c] \ ended[c], g)
        /\ l[c] = Work(batches[c], DOMAIN batches[c] \ es[c], g)
        /\ AllWork(batches, ended, g) = SumOf(h, Calls) /\ AllWork(batches, es, g) = SumOf(l, Calls)
    BY DEF AllWork
  <1> HIDE DEF h, l
  <1>5. IsFiniteSet(Calls)
    BY GpuFacts
  <1>6. SumOf(l, Calls) + h[c] = SumOf(h, Calls) + l[c]
    BY <1>2, <1>3, <1>5, SumUpdate
  <1>7. SumOf(h, Calls) \in Nat /\ SumOf(l, Calls) \in Nat
    BY <1>2, <1>5, SumIsSum
  <1> QED BY <1>2, <1>4, <1>6, <1>7

LEMMA GpuInit == Gpu!Init => GpuInv
  <1> SUFFICES ASSUME Gpu!Init PROVE GpuInv
    OBVIOUS
  <1>1. /\ strategy \in Strategies /\ gpu_loads = [g \in Gpu!GPUs |-> 0] /\ current_gpu_index = 0
        /\ texts = [c \in Calls |-> 0] /\ batches = [c \in Calls |-> <<>>]
        /\ ended = [c \in Calls |-> {}] /\ failed = {}
    BY DEF Gpu!Init
  <1>2. Len(<<>>) = 0 /\ DOMAIN <<>> = {} /\ 1 .. 0 = {}
    OBVIOUS
  <1>3. \A c \in Calls : batches[c] = <<>> /\ texts[c] = 0 /\ ended[c] = {}
    BY <1>1
  <1>4. Gpu!TypeOK
    <2>1. texts \in [Calls -> 0 .. MaxTexts]
      BY <1>1, GpuFacts
    <2>2. gpu_loads \in [Gpu!GPUs -> Nat] /\ current_gpu_index \in Gpu!GPUs
      BY <1>1, GpuFacts
    <2> QED BY <1>1, <1>2, <1>3, <2>1, <2>2 DEF Gpu!TypeOK
  <1>5. \A c \in Calls : Cut(c) /\ TakesTurns(c)
    <2>1. 0 \in Nat
      OBVIOUS
    <2> QED BY <1>2, <1>3, <2>1 DEF Cut, TakesTurns
  <1>6. Gpu!LoadCoversWork
    <2> SUFFICES ASSUME NEW g \in Gpu!GPUs PROVE gpu_loads[g] >= Gpu!InFlight(g)
      BY DEF Gpu!LoadCoversWork
    <2> DEFINE h == [c \in Calls |-> Work(batches[c], DOMAIN batches[c] \ ended[c], g)]
    <2>1. \A c \in Calls : h[c] = 0
      <3> SUFFICES ASSUME NEW c \in Calls PROVE Work(batches[c], DOMAIN batches[c] \ ended[c], g) = 0
        OBVIOUS
      <3>1. DOMAIN batches[c] \ ended[c] = {}
        BY <1>2, <1>3
      <3>2. IsFiniteSet({})
        BY FS_EmptySet
      <3> QED BY <3>1, <3>2, WorkFacts
    <2>2. AllWork(batches, ended, g) = SumOf(h, Calls)
      BY DEF AllWork
    <2> HIDE DEF h
    <2>3. SumOf(h, Calls) = 0
      BY <2>1, SumOfZeros, GpuFacts
    <2>4. gpu_loads[g] = 0
      BY <1>1
    <2> QED BY <2>2, <2>3, <2>4, InFlightIsWork
  <1> QED BY <1>1, <1>2, <1>3, <1>4, <1>5, <1>6 DEF GpuInv

\* A call is cut into slices, whose texts are added to the loads of their GPUs.
LEMMA DistributeKeeps ==
  ASSUME GpuInv, NEW c \in Calls, NEW n \in 1 .. MaxTexts, NEW size \in Gpu!OptimalSizes(n),
         Gpu!Distribute(c, n, size)
  PROVE  GpuInv'
  <1> DEFINE slices == Gpu!Slices(n, size)
             k == Len(slices)
  <1>1. n \in Nat \ {0} /\ size \in Nat \ {0}
    <2>1. /\ n \in Nat \ {0} /\ batch_size \in Nat \ {0} /\ max_batch_size \in Nat \ {0}
      BY GpuFacts
    <2>2. (batch_size * 3) \div 2 \in Nat \ {0} /\ batch_size \div 2 \in Nat
      BY <2>1
    <2>3. \A x, y \in Nat \ {0} : Gpu!Least(x, y) \in Nat \ {0}
      BY DEF Gpu!Least
    <2>4. \A x \in Nat : Gpu!Greatest(x, 8) \in Nat \ {0}
      BY DEF Gpu!Greatest
    <2> QED BY <2>1, <2>2, <2>3, <2>4 DEF Gpu!OptimalSizes
  <1>2. /\ texts[c] = 0 /\ texts' = [texts EXCEPT ![c] = n]
        /\ \E gpus \in [1 .. k -> Gpu!GPUs] :
             /\ \A j \in 1 .. k : Gpu!MayBeChosen(gpus, slices, j)
             /\ batches' = [batches EXCEPT ![c] =
                              [j \in 1 .. k |-> [gpu |-> gpus[j], items |-> slices[j]]]]
             /\ gpu_loads' = [g \in Gpu!GPUs |-> gpu_loads[g] + Gpu!Given(g, gpus, slices, k)]
        /\ current_gpu_index' = IF strategy = "round-robin" THEN (current_gpu_index + k + 1) % gpu_count
                                ELSE current_gpu_index
        /\ UNCHANGED <<strategy, ended, failed>>
    BY DEF Gpu!Distribute
  <1>3. /\ k = Batches(n, size) /\ DOMAIN slices = 1 .. k /\ k \in Nat
        /\ \A j \in 1 .. k : slices[j] \in Seq(1 .. n)
    BY <1>1, SliceFacts
  <1>4. PICK gpus \in [1 .. k -> Gpu!GPUs] :
             /\ \A j \in 1 .. k : Gpu!MayBeChosen(gpus, slices, j)
             /\ batches' = [batches EXCEPT ![c] =
                              [j \in 1 .. k |-> [gpu |-> gpus[j], items |-> slices[j]]]]
             /\ gpu_loads' = [g \in Gpu!GPUs |-> gpu_loads[g] + Gpu!Given(g, gpus, slices, k)]
    BY <1>2
  <1>5. ASSUME NEW j \in 1 .. k
        PROVE  slices[j] \in Seq(1 .. MaxTexts) /\ Len(slices[j]) \in Nat
    <2> DEFINE q == slices[j]
    <2>1. q \in Seq(1 .. n)
      BY <1>3
    <2>2. \A i \in 1 .. n : i \in 1 .. MaxTexts
      BY GpuFacts
    <2> HIDE DEF q
    <2>3. Len(q) \in Nat /\ \A i \in 1 .. Len(q) : q[i] \in 1 .. n
      BY <2>1
    <2>4. \A i \in 1 .. Len(q) : q[i] \in 1 .. MaxTexts
      BY <2>2, <2>3
    <2>5. q \in Seq(1 .. MaxTexts)
      BY <2>1, <2>4, SeqWithin
    <2> QED BY <2>3, <2>5 DEF q
  <1> DEFINE mine == [j \in 1 .. k |-> [gpu |-> gpus[j], items |-> slices[j]]]
  <1>6. /\ DOMAIN batches' = Calls /\ batches'[c] = mine
        /\ \A d \in Calls \ {c} : batches'[d] = batches[d]
    BY <1>4 DEF GpuInv
  <1>7. /\ DOMAIN mine = 1 .. k /\ Len(mine) = k
        /\ \A j \in 1 .. k : mine[j].gpu = gpus[j] /\ mine[j].items = slices[j]
    BY <1>3
  <1>8. /\ texts \in [Calls -> 0 .. MaxTexts] /\ gpu_loads \in [Gpu!GPUs -> Nat]
        /\ current_gpu_index \in Gpu!GPUs
        /\ ended \in [Calls -> SUBSET (1 .. MaxTexts)]
    BY DEF GpuInv, Gpu!TypeOK
  <1>9. texts' \in [Calls -> 0 .. MaxTexts] /\ texts'[c] = n /\ \A d \in Calls \ {c} : texts'[d] = texts[d]
    BY <1>1, <1>2, <1>8
  <1> HIDE DEF slices, k, mine
  <1>10. ASSUME NEW g \in Gpu!GPUs
         PROVE  /\ Gpu!Given(g, gpus, slices, k) = Work(mine, 1 .. k, g)
                /\ Work(mine, 1 .. k, g) \in Nat
    <2> DEFINE h == [j \in 1 .. k |-> IF gpus[j] = g THEN Len(slices[j]) ELSE 0]
               l == [j \in 1 .. k |-> Share(mine[j], g)]
    <2>1. Gpu!Given(g, gpus, slices, k) = SumOf(h, 1 .. k)
      BY DEF Gpu!Given, Gpu!FoldFunctionOnSet, Gpu!MapThenFoldSet, SumOf, AddsUp
    <2>2. Work(mine, 1 .. k, g) = SumOf(l, 1 .. k)
      BY DEF Work
    <2>3. IsFiniteSet(1 .. k)
      BY <1>3, FS_Interval
    <2>4. \A j \in 1 .. k : h[j] \in Nat /\ h[j] = l[j] /\ l[j] \in Nat
      BY <1>5, <1>7 DEF Share
    <2> HIDE DEF h, l
    <2> QED BY <2>1, <2>2, <2>3, <2>4, SumSame, SumIsSum
  <1>11. gpu_loads' \in [Gpu!GPUs -> Nat]
         /\ \A g \in Gpu!GPUs : gpu_loads'[g] = gpu_loads[g] + Work(mine, 1 .. k, g)
    <2>1. \A g \in Gpu!GPUs : gpu_loads[g] + Work(mine, 1 .. k, g) \in Nat
      BY <1>8, <1>10
    <2> QED BY <1>4, <1>10, <2>1
  <1>12. current_gpu_index' \in Gpu!GPUs
    <2>1. current_gpu_index \in Nat /\ gpu_count \in Nat \ {0}
      BY <1>8, GpuFacts
    <2>2. (current_gpu_index + k + 1) % gpu_count \in 0 .. (gpu_count - 1)
      BY <1>3, <2>1
    <2> QED BY <1>2, <1>8, <2>2, GpuFacts
  <1>13. ASSUME NEW d \in Calls
         PROVE  /\ \A j \in DOMAIN batches'[d] : /\ batches'[d][j].gpu \in Gpu!GPUs
                                                 /\ batches'[d][j].items \in Seq(1 .. MaxTexts)
                /\ DOMAIN batches'[d] = 1 .. Len(batches'[d]) /\ Len(batches'[d]) \in Nat
    <2>1. CASE d = c
      <3>1. \A j \in 1 .. k : mine[j].gpu \in Gpu!GPUs /\ mine[j].items \in Seq(1 .. MaxTexts)
        BY <1>4, <1>5, <1>7
      <3> QED BY <1>3, <1>6, <1>7, <2>1, <3>1
    <2>2. CASE d # c
      <3>1. batches'[d] = batches[d]
        BY <1>6, <2>2
      <3> QED BY <3>1 DEF GpuInv, Gpu!TypeOK
    <2> QED BY <2>1, <2>2
  <1>14. Gpu!TypeOK'
    <2>1. strategy' \in Strategies /\ failed' \subseteq Calls
          /\ ended' \in [Calls -> SUBSET (1 .. MaxTexts)]
      BY <1>2 DEF GpuInv, Gpu!TypeOK
    <2> QED BY <1>9, <1>11, <1>12, <1>13, <2>1 DEF Gpu!TypeOK
  <1>15. ASSUME NEW d \in Calls PROVE Cut(d)' /\ TakesTurns(d)'
    <2>1. CASE d = c
      <3>1. Cut(d)'
        <4>1. /\ n # 0 /\ texts'[d] = n /\ DOMAIN batches'[d] = 1 .. Batches(n, size)
              /\ \A j \in DOMAIN batches'[d] : batches'[d][j].items = Gpu!Slices(n, size)[j]
          BY <1>1, <1>3, <1>6, <1>7, <1>9, <2>1 DEF slices
        <4> QED BY <1>1, <4>1 DEF Cut
      <3>2. TakesTurns(d)'
        <4> SUFFICES ASSUME strategy = "round-robin"
                     PROVE  \E i \in Nat : \A j \in DOMAIN batches'[d] :
                              batches'[d][j].gpu = (i + j) % gpu_count
          BY <1>2 DEF TakesTurns
        <4>1. \A j \in 1 .. k : gpus[j] = (current_gpu_index + j) % gpu_count
          BY <1>4 DEF Gpu!MayBeChosen
        <4>2. current_gpu_index \in Nat
          BY <1>8, GpuFacts
        <4> QED BY <1>6, <1>7, <2>1, <4>1, <4>2, ZenonT(30)
      <3> QED BY <3>1, <3>2
    <2>2. CASE d # c
      <3>1. /\ batches'[d] = batches[d] /\ texts'[d] = texts[d]
            /\ ended'[d] = ended[d] /\ strategy' = strategy
        BY <1>2, <1>6, <1>9, <2>2
      <3>2. Cut(d) /\ TakesTurns(d)
        BY DEF GpuInv
      <3> QED BY <3>1, <3>2 DEF Cut, TakesTurns
    <2> QED BY <2>1, <2>2
  <1>16. Gpu!LoadCoversWork'
    <2> SUFFICES ASSUME NEW g \in Gpu!GPUs PROVE gpu_loads'[g] >= Gpu!InFlight(g)'
      BY DEF Gpu!LoadCoversWork
    <2>1. batches[c] = <<>> /\ DOMAIN batches[c] = {}
      BY <1>2 DEF GpuInv, Cut
    <2>2. Work(batches[c], DOMAIN batches[c] \ ended[c], g) = 0
      <3>1. DOMAIN batches[c] \ ended[c] = {} /\ IsFiniteSet({})
        BY <2>1, FS_EmptySet
      <3> QED BY <3>1, WorkFacts
    <2>3. DOMAIN mine \ ended[c] = 1 .. k
      BY <1>2, <1>7 DEF GpuInv, Cut
    <2>4. /\ AllWork(batches', ended, g) + Work(batches[c], DOMAIN batches[c] \ ended[c], g)
               = AllWork(batches, ended, g) + Work(mine, 1 .. k, g)
          /\ AllWork(batches', ended, g) \in Nat /\ AllWork(batches, ended, g) \in Nat
      <3> DEFINE bss == batches'
      <3>1. Work(bss[c], DOMAIN bss[c] \ ended[c], g) = Work(mine, 1 .. k, g)
        BY <1>6, <2>3
      <3>2. Work(bss[c], DOMAIN bss[c] \ ended[c], g) \in Nat
        BY <1>10, <3>1
      <3>3. \A d \in Calls \ {c} : bss[d] = batches[d] /\ ended[d] = ended[d]
        BY <1>6
      <3> HIDE DEF bss
      <3>4. /\ AllWork(bss, ended, g) + Work(batches[c], DOMAIN batches[c] \ ended[c], g)
                 = AllWork(batches, ended, g) + Work(bss[c], DOMAIN bss[c] \ ended[c], g)
            /\ AllWork(bss, ended, g) \in Nat /\ AllWork(batches, ended, g) \in Nat
        BY <3>2, <3>3, AllWorkGrows
      <3> QED BY <3>1, <3>4 DEF bss
    <2>5. gpu_loads[g] >= AllWork(batches, ended, g)
      BY InFlightIsWork DEF GpuInv, Gpu!LoadCoversWork
    <2>6. gpu_loads[g] \in Nat /\ gpu_loads'[g] = gpu_loads[g] + Work(mine, 1 .. k, g)
      BY <1>8, <1>11
    <2>7. gpu_loads'[g] >= AllWork(batches', ended, g)
      BY <1>10, <2>2, <2>4, <2>5, <2>6
    <2>8. ended' = ended
      BY <1>2
    <2> QED BY <2>7, <2>8, InFlightIsWork
  <1> QED BY <1>6, <1>13, <1>14, <1>15, <1>16 DEF GpuInv

\* A batch that has ended is work no longer; its texts leave the load of its GPU, or
\* stay in it when the CPU has answered.
LEMMA EndedKeeps ==
  ASSUME GpuInv, NEW c \in Calls, NEW j \in DOMAIN batches[c] \ ended[c], j \in 1 .. MaxTexts,
         ended' = [ended EXCEPT ![c] = ended[c] \union {j}],
         \/ gpu_loads' = [gpu_loads EXCEPT ![batches[c][j].gpu] = Gpu!LoadAfter(batches[c][j])]
         \/ gpu_loads' = gpu_loads,
         failed' \subseteq Calls,
         UNCHANGED <<strategy, current_gpu_index, texts, batches>>
  PROVE  GpuInv'
  <1> DEFINE b == batches[c][j]
             R == DOMAIN batches[c] \ ended[c]
  <1>1. /\ gpu_loads \in [Gpu!GPUs -> Nat] /\ ended \in [Calls -> SUBSET (1 .. MaxTexts)]
    BY DEF GpuInv, Gpu!TypeOK
  <1>2. /\ IsFiniteSet(DOMAIN batches[c])
        /\ b.gpu \in Gpu!GPUs /\ Len(b.items) \in Nat
        /\ \A i \in DOMAIN batches[c], g \in Gpu!GPUs : Share(batches[c][i], g) \in Nat
    BY SharesAreCounts
  <1>3. /\ ended' \in [Calls -> SUBSET (1 .. MaxTexts)] /\ ended'[c] = ended[c] \union {j}
        /\ \A d \in Calls \ {c} : ended'[d] = ended[d]
    BY <1>1
  <1>4. DOMAIN batches'[c] \ ended'[c] = R \ {j}
    BY <1>3
  <1> HIDE DEF b, R
  <1>5. ASSUME NEW g \in Gpu!GPUs
        PROVE  /\ Work(batches[c], R, g) = Share(b, g) + Work(batches[c], R \ {j}, g)
               /\ Work(batches[c], R, g) \in Nat /\ Work(batches[c], R \ {j}, g) \in Nat
               /\ Share(b, g) \in Nat
    <2> DEFINE bs == batches[c]
    <2>1. IsFiniteSet(R) /\ IsFiniteSet(R \ {j}) /\ j \in R
      BY <1>2, FS_Subset DEF R
    <2>2. /\ \A i \in R : Share(bs[i], g) \in Nat
          /\ \A i \in R \ {j} : Share(bs[i], g) \in Nat
      BY <1>2 DEF R
    <2> HIDE DEF bs
    <2>3. Work(bs, R \ {j}, g) \in Nat
      BY <2>1, <2>2, WorkFacts
    <2>4. Work(bs, R, g) \in Nat
      BY <2>1, <2>2, WorkFacts
    <2>5. \A k \in R : Work(bs, R, g) = Share(bs[k], g) + Work(bs, R \ {k}, g)
      BY <2>1, <2>2, WorkFacts
    <2> QED BY <2>1, <2>2, <2>3, <2>4, <2>5 DEF b, bs
  <1>6. ASSUME NEW g \in Gpu!GPUs
        PROVE  gpu_loads'[g] \in Nat /\ gpu_loads'[g] + Share(b, g) >= gpu_loads[g]
    <2>1. gpu_loads[g] \in Nat /\ gpu_loads[b.gpu] \in Nat /\ Share(b, g) \in Nat
      BY <1>1, <1>2, <1>5
    <2>2. CASE gpu_loads' = gpu_loads
      BY <2>1, <2>2
    <2>3. CASE gpu_loads' = [gpu_loads EXCEPT ![b.gpu] = Gpu!LoadAfter(b)]
      <3>1. Gpu!LoadAfter(b) \in Nat /\ Gpu!LoadAfter(b) + Len(b.items) >= gpu_loads[b.gpu]
        BY <1>2, <2>1 DEF Gpu!LoadAfter, Gpu!Greatest
      <3>2. CASE g = b.gpu
        <4>1. gpu_loads'[g] = Gpu!LoadAfter(b) /\ Share(b, g) = Len(b.items)
          BY <1>1, <2>3, <3>2 DEF Share
        <4> QED BY <3>1, <3>2, <4>1
      <3>3. CASE g # b.gpu
        <4>1. gpu_loads'[g] = gpu_loads[g]
          BY <1>1, <2>3, <3>3
        <4> QED BY <2>1, <4>1
      <3> QED BY <3>2, <3>3
    <2> QED BY <2>2, <2>3 DEF b
  <1>7. Gpu!TypeOK'
    <2>1. gpu_loads' \in [Gpu!GPUs -> Nat]
      <3>1. DOMAIN gpu_loads' = Gpu!GPUs /\ gpu_loads' = [g \in Gpu!GPUs |-> gpu_loads'[g]]
        BY <1>1
      <3> QED BY <1>6, <3>1
    <2> QED BY <1>3, <2>1 DEF GpuInv, Gpu!TypeOK
  <1>8. ASSUME NEW d \in Calls PROVE Cut(d)' /\ TakesTurns(d)'
    <2>1. Cut(d) /\ TakesTurns(d)
      BY DEF GpuInv
    <2>2. CASE d = c
      <3>1. texts[c] # 0
        <4>1. DOMAIN <<>> = {}
          OBVIOUS
        <4> QED BY <2>1, <2>2, <4>1 DEF Cut
      <3> QED BY <2>1, <2>2, <3>1 DEF Cut, TakesTurns
    <2>3. CASE d # c
      <3>1. ended'[d] = ended[d]
        BY <1>3, <2>3
      <3> QED BY <2>1, <3>1 DEF Cut, TakesTurns
    <2> QED BY <2>2, <2>3
  <1>9. Gpu!LoadCoversWork'
    <2> SUFFICES ASSUME NEW g \in Gpu!GPUs PROVE gpu_loads'[g] >= Gpu!InFlight(g)'
      BY DEF Gpu!LoadCoversWork
    <2>1. /\ AllWork(batches', ended', g) + Work(batches[c], R, g)
               = AllWork(batches, ended, g) + Work(batches[c], R \ {j}, g)
          /\ AllWork(batches', ended', g) \in Nat /\ AllWork(batches, ended, g) \in Nat
      <3> DEFINE es == ended'
      <3>1. Work(batches[c], DOMAIN batches[c] \ es[c], g) = Work(batches[c], R \ {j}, g)
        BY <1>4
      <3>2. \A d \in Calls \ {c} : es[d] = ended[d]
        BY <1>3
      <3>3. Work(batches[c], DOMAIN batches[c] \ es[c], g) \in Nat
        BY <1>5, <3>1
      <3> HIDE DEF es
      <3>4. /\ AllWork(batches, es, g) + Work(batches[c], DOMAIN batches[c] \ ended[c], g)
                 = AllWork(batches, ended, g) + Work(batches[c], DOMAIN batches[c] \ es[c], g)
            /\ AllWork(batches, es, g) \in Nat /\ AllWork(batches, ended, g) \in Nat
        BY <3>2, <3>3, AllWorkEnds
      <3> QED BY <3>1, <3>4 DEF R, es
    <2>2. gpu_loads[g] >= AllWork(batches, ended, g) /\ gpu_loads[g] \in Nat
      BY <1>1, InFlightIsWork DEF GpuInv, Gpu!LoadCoversWork
    <2>3. gpu_loads'[g] >= AllWork(batches', ended', g)
      <3> DEFINE w == Work(batches[c], R, g)
                 v == Work(batches[c], R \ {j}, g)
                 x == AllWork(batches', ended', g)
                 y == AllWork(batches, ended, g)
                 u == Share(b, g)
      <3>1. w = u + v /\ w \in Nat /\ v \in Nat /\ u \in Nat
        BY <1>5
      <3>2. x + w = y + v /\ x \in Nat /\ y \in Nat
        BY <2>1
      <3>3. gpu_loads'[g] \in Nat /\ gpu_loads'[g] + u >= gpu_loads[g] /\ gpu_loads[g] >= y
        BY <1>6, <2>2
      <3> HIDE DEF w, v, x, y, u
      <3>4. gpu_loads'[g] >= x
        BY <2>2, <3>1, <3>2, <3>3
      <3> QED BY <3>4 DEF x
    <2> QED BY <2>3, InFlightIsWork
  <1>10. DOMAIN batches' = Calls
         /\ \A d \in Calls : DOMAIN batches'[d] = 1 .. Len(batches'[d]) /\ Len(batches'[d]) \in Nat
    BY DEF GpuInv
  <1> QED BY <1>7, <1>8, <1>9, <1>10 DEF GpuInv

LEMMA GpuNext ==
  ASSUME GpuInv, [Gpu!Next]_gpuVars
  PROVE  GpuInv'
  <1>1. CASE UNCHANGED gpuVars
    <2>1. UNCHANGED <<strategy, gpu_loads, current_gpu_index, texts, batches, ended, failed>>
      BY <1>1 DEF gpuVars
    <2>2. Gpu!TypeOK' /\ \A c \in Calls : Cut(c)' /\ TakesTurns(c)'
      BY <2>1 DEF GpuInv, Gpu!TypeOK, Cut, TakesTurns
    <2>3. Gpu!LoadCoversWork'
      BY <2>1, InFlightIsWork DEF GpuInv, Gpu!LoadCoversWork
    <2> QED BY <2>1, <2>2, <2>3 DEF GpuInv
  <1>2. ASSUME NEW c \in Calls, NEW n \in 1 .. MaxTexts, NEW size \in Gpu!OptimalSizes(n),
               Gpu!Distribute(c, n, size)
        PROVE  GpuInv'
    BY <1>2, DistributeKeeps
  <1>3. ASSUME NEW c \in Calls, NEW j \in 1 .. MaxTexts,
               Gpu!BatchSucceeds(c, j) \/ Gpu!BatchFallsBack(c, j)
        PROVE  GpuInv'
    <2>1. /\ j \in DOMAIN batches[c] \ ended[c]
          /\ ended' = [ended EXCEPT ![c] = ended[c] \union {j}]
          /\ UNCHANGED <<strategy, current_gpu_index, texts, batches>>
      BY <1>3 DEF Gpu!BatchSucceeds, Gpu!BatchFallsBack, Gpu!Running
    <2>2. \/ gpu_loads' = [gpu_loads EXCEPT ![batches[c][j].gpu] = Gpu!LoadAfter(batches[c][j])]
          \/ gpu_loads' = gpu_loads
      BY <1>3 DEF Gpu!BatchSucceeds, Gpu!BatchFallsBack
    <2>3. failed' \subseteq Calls
      <3>1. failed \subseteq Calls
        BY DEF GpuInv, Gpu!TypeOK
      <3> QED BY <1>3, <3>1 DEF Gpu!BatchSucceeds, Gpu!BatchFallsBack
    <2> QED BY <2>1, <2>2, <2>3, EndedKeeps
  <1> QED BY <1>1, <1>2, <1>3 DEF Gpu!Next

LEMMA GpuSound == GpuInv => Gpu!TypeOK /\ Gpu!GpuCallsAreWhole
  <1> SUFFICES ASSUME GpuInv PROVE Gpu!TypeOK /\ Gpu!GpuCallsAreWhole
    OBVIOUS
  <1>1. Gpu!ResultsInOrder
    <2> SUFFICES ASSUME NEW c \in Calls, texts[c] > 0
                 PROVE  Gpu!Results(c) = [i \in 1 .. texts[c] |-> i]
      BY DEF Gpu!ResultsInOrder
    <2>1. texts[c] \in Nat \ {0}
      BY GpuFacts DEF GpuInv, Gpu!TypeOK
    <2>2. PICK size \in Nat \ {0} :
            /\ DOMAIN batches[c] = 1 .. Batches(texts[c], size)
            /\ \A j \in DOMAIN batches[c] : batches[c][j].items = Gpu!Slices(texts[c], size)[j]
      BY <2>1 DEF GpuInv, Cut
    <2> DEFINE slices == Gpu!Slices(texts[c], size)
    <2>3. slices = [j \in DOMAIN batches[c] |-> slices[j]]
      BY <2>2 DEF Gpu!Slices, Batches
    <2> HIDE DEF slices
    <2>4. [j \in DOMAIN batches[c] |-> batches[c][j].items] = slices
      BY <2>2, <2>3 DEF slices
    <2>5. Gpu!FlattenSeq(slices) = [i \in 1 .. texts[c] |-> i]
      BY <2>1, SlicesJoin DEF slices
    <2> QED BY <2>4, <2>5 DEF Gpu!Results
  <1>2. Gpu!SpreadEvenly
    <2> SUFFICES ASSUME strategy = "round-robin", NEW c \in Calls,
                        NEW g \in Gpu!GPUs, NEW h \in Gpu!GPUs
                 PROVE  Cardinality({j \in DOMAIN batches[c] : batches[c][j].gpu = g})
                          <= Cardinality({j \in DOMAIN batches[c] : batches[c][j].gpu = h}) + 1
      BY GpuFacts DEF Gpu!SpreadEvenly
    <2>1. PICK i \in Nat : \A j \in DOMAIN batches[c] : batches[c][j].gpu = (i + j) % gpu_count
      BY DEF GpuInv, TakesTurns
    <2>2. DOMAIN batches[c] = 1 .. Len(batches[c]) /\ Len(batches[c]) \in Nat
      BY DEF GpuInv
    <2>3. \A x : {j \in DOMAIN batches[c] : batches[c][j].gpu = x}
                   = Turns(i, Len(batches[c]), gpu_count, x)
      BY <2>1, <2>2 DEF Turns
    <2> DEFINE k == Len(batches[c])
    <2>4. k \in Nat
      BY <2>2
    <2>5. gpu_count \in Nat \ {0} /\ g \in 0 .. (gpu_count - 1) /\ h \in 0 .. (gpu_count - 1)
      BY GpuFacts
    <2> HIDE DEF k
    <2>6. Cardinality(Turns(i, k, gpu_count, g)) <= Cardinality(Turns(i, k, gpu_count, h)) + 1
      BY <2>4, <2>5, TurnsSpread
    <2> QED BY <2>3, <2>6 DEF k
  <1> QED BY <1>1, <1>2 DEF GpuInv, Gpu!GpuCallsAreWhole

-----------------------------------------------------------------------------
(*****************************************************************************)
(* The Kafka consumer.  Each message that was taken over is in a batch,      *)
(* handled, or waiting for its retry; the window of recent ids and the       *)
(* retry counts follow what was delivered.                                   *)
(*****************************************************************************)
LEMMA PlaceAdded ==
  ASSUME NEW q, NEW k \in Nat, NEW m
  PROVE  /\ Cardinality(Places(q, k + 1, m))
              = Cardinality(Places(q, k, m)) + (IF q[k + 1] = m THEN 1 ELSE 0)
         /\ Cardinality(Places(q, k, m)) \in Nat
         /\ Cardinality(Places(q, 0, m)) = 0
  <1>1. Places(q, 0, m) = {}
    BY DEF Places
  <1>2. Cardinality(Places(q, 0, m)) = 0
    BY <1>1, FS_EmptySet
  <1>3. CASE q[k + 1] = m
    <2>1. /\ Places(q, k + 1, m) = Places(q, k, m) \union {k + 1}
          /\ k + 1 \notin Places(q, k, m)
      BY <1>3 DEF Places
    <2>2. Cardinality(Places(q, k + 1, m)) = Cardinality(Places(q, k, m)) + 1
      BY <2>1, PlacesAreFinite, FS_AddElement
    <2> QED BY <1>2, <1>3, <2>2, PlacesAreFinite
  <1>4. CASE q[k + 1] # m
    <2>1. Places(q, k + 1, m) = Places(q, k, m)
      BY <1>4 DEF Places
    <2> QED BY <1>2, <1>4, <2>1, PlacesAreFinite
  <1> QED BY <1>3, <1>4

\* The Kafka consumer.  What is remembered of a partition are the last offsets taken
\* from it; what the model was asked for is the batch without what joined it later.
Remembers(p) ==
  /\ Len(recent[p]) <= Len(accepted[p]) /\ Len(recent[p]) <= History
  /\ Len(recent[p]) < Len(accepted[p]) => Len(recent[p]) = History
  /\ \A j \in 1 .. Len(recent[p]) :
       recent[p][j] = accepted[p][Len(accepted[p]) - Len(recent[p]) + j]

BatchWasAsked ==
  taken # None => \A k \in DOMAIN pending[taken] :
                    (\E j \in DOMAIN kafka_asked : kafka_asked[j] = pending[taken][k])
                      \/ pending[taken][k] \in late

Books == [tracker : [Kafka!Ids -> 0 .. (MaxRetries - 1)], over : SUBSET Kafka!Messages,
          ups : [Kafka!Ids -> Nat]]

KafkaInv ==
  /\ Kafka!TypeOK
  /\ tracker \in [Kafka!Ids -> 0 .. (MaxRetries - 1)]
  /\ \A p \in Partitions : Remembers(p)
  /\ BatchWasAsked
  /\ Kafka!OnlyLateOrRefusedIsLost /\ Kafka!RetriesAddUp /\ Kafka!NoRepeatInWindow
  /\ metrics.consumed = SumOf(handled, Kafka!Messages)
  /\ metrics.consumed = metrics.processed + metrics.failed

LEMMA KafkaFacts ==
  /\ MaxRetries \in Nat /\ MaxRetries > 0 /\ History \in Nat /\ History > 0
  /\ IsFiniteSet(Kafka!Messages) /\ None \notin Partitions
  /\ \A m \in Kafka!Messages : IdAt[m] \in Kafka!Ids
  /\ \A p \in Partitions, o \in Offsets : <<p, o>> \in Kafka!Messages
  /\ \A S : Kafka!Cardinality(S) = Cardinality(S)
  /\ \A S : Kafka!IsFiniteSet(S) <=> IsFiniteSet(S)
  <1>1. \A S : Kafka!IsFiniteSet(S) <=> IsFiniteSet(S)
    BY DEF Kafka!IsFiniteSet, IsFiniteSet
  <1>2. \A S : Kafka!Cardinality(S) = Cardinality(S)
    BY DEF Kafka!Cardinality, Cardinality
  <1>3. /\ MaxRetries \in Nat /\ MaxRetries > 0 /\ History \in Nat /\ History > 0
        /\ None \notin Partitions /\ IsFiniteSet(Partitions) /\ IsFiniteSet(Offsets)
    BY <1>1, StreamsAssumption DEF Kafka!KafkaAssumption
  <1>4. IsFiniteSet(Kafka!Messages)
    BY <1>3, FS_Product DEF Kafka!Messages
  <1> QED BY <1>1, <1>2, <1>3, <1>4 DEF Kafka!Messages, Kafka!Ids

\* The sum of what was handled is the fold of the consumer's counter.
LEMMA HandledAddUp ==
  handled \in [Kafka!Messages -> Nat]
    => Kafka!FoldFunction(+, 0, handled) = SumOf(handled, Kafka!Messages)
  BY DEF Kafka!FoldFunction, Kafka!FoldFunctionOnSet, Kafka!MapThenFoldSet, SumOf, AddsUp

\* One failed result on the books.
LEMMA RetriedKeeps ==
  ASSUME NEW v \in Books, NEW m \in Kafka!Messages
  PROVE  LET w == Kafka!Retried(v, m) IN
         /\ w \in Books
         /\ \A i \in Kafka!Ids :
              w.tracker[i] + MaxRetries * w.ups[i]
                = v.tracker[i] + MaxRetries * v.ups[i] + (IF IdAt[m] = i THEN 1 ELSE 0)
  <1> DEFINE w == Kafka!Retried(v, m)
             x == IdAt[m]
             n == v.tracker[x] + 1
  <1>1. /\ v.tracker \in [Kafka!Ids -> 0 .. (MaxRetries - 1)] /\ v.ups \in [Kafka!Ids -> Nat]
        /\ v.over \in SUBSET Kafka!Messages
    BY DEF Books
  <1>2. /\ x \in Kafka!Ids /\ MaxRetries \in Nat /\ MaxRetries > 0
        /\ v.tracker[x] \in 0 .. (MaxRetries - 1) /\ v.ups[x] \in Nat
    BY <1>1, KafkaFacts
  <1>3. n \in 1 .. MaxRetries
    BY <1>2
  <1>4. CASE n >= MaxRetries
    <2>1. w = [tracker |-> [v.tracker EXCEPT ![x] = 0], over |-> v.over \union {m},
               ups |-> [v.ups EXCEPT ![x] = v.ups[x] + 1]]
      BY <1>4 DEF Kafka!Retried
    <2>2. n = MaxRetries
      BY <1>2, <1>3, <1>4
    <2>3. /\ w.tracker = [v.tracker EXCEPT ![x] = 0]
          /\ w.ups = [v.ups EXCEPT ![x] = v.ups[x] + 1] /\ w.over = v.over \union {m}
      BY <2>1
    <2>4. w.tracker[x] = 0 /\ w.ups[x] = v.ups[x] + 1
      BY <1>1, <1>2, <2>3
    <2>5. \A i \in Kafka!Ids \ {x} : w.tracker[i] = v.tracker[i] /\ w.ups[i] = v.ups[i]
      BY <1>1, <2>3
    <2>6. w.tracker \in [Kafka!Ids -> 0 .. (MaxRetries - 1)] /\ w.ups \in [Kafka!Ids -> Nat]
      <3>1. 0 \in 0 .. (MaxRetries - 1) /\ v.ups[x] + 1 \in Nat
        BY <1>2
      <3> QED BY <1>1, <2>3, <3>1
    <2>7. w \in Books
      <3>1. w.over \in SUBSET Kafka!Messages
        BY <1>1, <2>3
      <3> QED BY <2>1, <2>3, <2>6, <3>1 DEF Books
    <2>8. w.tracker[x] + MaxRetries * w.ups[x] = v.tracker[x] + MaxRetries * v.ups[x] + 1
      <3>1. MaxRetries * (v.ups[x] + 1) = MaxRetries * v.ups[x] + MaxRetries
            /\ MaxRetries * v.ups[x] \in Nat
        BY <1>2
      <3>2. v.tracker[x] + 1 = MaxRetries
        BY <2>2
      <3> QED BY <1>2, <2>4, <3>1, <3>2
    <2> HIDE DEF w, x
    <2>9. ASSUME NEW i \in Kafka!Ids \ {x}
          PROVE  v.tracker[i] + MaxRetries * v.ups[i] = v.tracker[i] + MaxRetries * v.ups[i] + 0
      <3>1. v.tracker[i] \in Nat /\ v.ups[i] \in Nat
        BY <1>1, <1>2
      <3>2. MaxRetries * v.ups[i] \in Nat
        BY <1>2, <3>1
      <3> QED BY <3>1, <3>2
    <2> QED BY <2>5, <2>7, <2>8, <2>9 DEF w, x
  <1>5. CASE ~(n >= MaxRetries)
    <2>1. w = [tracker |-> [v.tracker EXCEPT ![x] = n], over |-> v.over, ups |-> v.ups]
      BY <1>5 DEF Kafka!Retried
    <2>2. n \in 0 .. (MaxRetries - 1)
      BY <1>2, <1>3, <1>5
    <2>3. w.tracker = [v.tracker EXCEPT ![x] = n] /\ w.ups = v.ups /\ w.over = v.over
      BY <2>1
    <2>4. w.tracker[x] = n /\ \A i \in Kafka!Ids \ {x} : w.tracker[i] = v.tracker[i]
      BY <1>1, <1>2, <2>3
    <2>5. w \in Books
      <3>1. w.tracker \in [Kafka!Ids -> 0 .. (MaxRetries - 1)]
        BY <1>1, <2>2, <2>3
      <3> QED BY <1>1, <2>1, <2>3, <3>1 DEF Books
    <2>6. w.tracker[x] + MaxRetries * w.ups[x] = v.tracker[x] + MaxRetries * v.ups[x] + 1
      <3>1. MaxRetries * v.ups[x] \in Nat
        BY <1>2
      <3> QED BY <1>2, <2>3, <2>4, <3>1
    <2> HIDE DEF w, x
    <2>7. ASSUME NEW i \in Kafka!Ids \ {x}
          PROVE  v.tracker[i] + MaxRetries * v.ups[i] = v.tracker[i] + MaxRetries * v.ups[i] + 0
      <3>1. v.tracker[i] \in Nat /\ v.ups[i] \in Nat
        BY <1>1, <1>2
      <3>2. MaxRetries * v.ups[i] \in Nat
        BY <1>2, <3>1
      <3> QED BY <3>1, <3>2
    <2> QED BY <2>3, <2>4, <2>5, <2>6, <2>7 DEF w, x
  <1> QED BY <1>4, <1>5

\* All failed results of a batch on the books, one after the other.
LEMMA FailuresAreBooked ==
  ASSUME KafkaInv
  PROVE  LET w == Kafka!HandleFailures IN
         /\ w \in Books
         /\ \A i \in Kafka!Ids :
              w.tracker[i] + MaxRetries * w.ups[i]
                = tracker[i] + MaxRetries * givenUp[i]
                  + Cardinality({k \in DOMAIN kafka_asked : IdAt[kafka_asked[k]] = i})
  <1> DEFINE D == DOMAIN kafka_asked
             base == [tracker |-> tracker, over |-> {}, ups |-> givenUp]
             Fold(f) == f = [s \in SUBSET D |->
                               IF s = {} THEN base
                               ELSE LET x == CHOOSE x \in s : \A y \in s : x >= y IN
                                    Kafka!Retried(f[s \ {x}], kafka_asked[x])]
             F == CHOOSE f : Fold(f)
             n == Len(kafka_asked)
             G == [i \in 1 .. n |-> [v \in Books |-> Kafka!Retried(v, kafka_asked[i])]]
             ids == [j \in 1 .. n |-> IdAt[kafka_asked[j]]]
  <1>1. n \in Nat /\ D = 1 .. n /\ \A i \in 1 .. n : kafka_asked[i] \in Kafka!Messages
    BY DEF KafkaInv, Kafka!TypeOK
  <1>2. Kafka!HandleFailures = F[D]
    BY DEF Kafka!HandleFailures, Kafka!FoldLeft, Kafka!MapThenFoldSet, Kafka!Max
  <1>3. base \in Books
    <2>1. /\ tracker \in [Kafka!Ids -> 0 .. (MaxRetries - 1)] /\ givenUp \in [Kafka!Ids -> Nat]
          /\ {} \in SUBSET Kafka!Messages
      BY DEF KafkaInv, Kafka!TypeOK
    <2> QED BY <2>1 DEF Books
  <1>4. \A i \in 1 .. n, v \in Books : Kafka!Retried(v, kafka_asked[i]) \in Books
    BY <1>1, RetriedKeeps
  <1>5. /\ G \in [1 .. n -> [Books -> Books]]
        /\ \A i \in 1 .. n, v \in Books : G[i][v] = Kafka!Retried(v, kafka_asked[i])
    BY <1>4
  <1> HIDE DEF n, G, base
  <1>6. PICK f : IsLeftFold(f, 1 .. n, Books, base, G)
    BY <1>1, <1>3, <1>5, LeftFoldExists
  <1>7. Fold(f)
    <2>1. ASSUME NEW s \in SUBSET D, s # {}
          PROVE  f[s] = Kafka!Retried(f[s \ {MaxOf(s)}], kafka_asked[MaxOf(s)])
      <3>1. f[s] = G[MaxOf(s)][f[s \ {MaxOf(s)}]] /\ f[s \ {MaxOf(s)}] \in Books
        BY <1>1, <1>6, <2>1 DEF IsLeftFold
      <3>2. MaxOf(s) \in 1 .. n
        BY <1>1, <2>1, MaxExists
      <3> QED BY <1>5, <3>1, <3>2
    <2>2. f[{}] = base /\ f = [s \in SUBSET D |-> f[s]]
      BY <1>1, <1>6 DEF IsLeftFold
    <2> HIDE DEF D
    <2> QED BY <2>1, <2>2 DEF MaxOf
  <1> HIDE DEF Fold, D
  <1>8. Fold(F)
    BY <1>7
  <1> HIDE DEF F
  <1> DEFINE Booked(k) ==
               /\ F[1 .. k] \in Books
               /\ \A i \in Kafka!Ids :
                    F[1 .. k].tracker[i] + MaxRetries * F[1 .. k].ups[i]
                      = tracker[i] + MaxRetries * givenUp[i] + Cardinality(Places(ids, k, i))
             T == {k \in Nat : k <= n => Booked(k)}
  <1>9. \A i \in Kafka!Ids : tracker[i] \in Nat /\ MaxRetries * givenUp[i] \in Nat
    <2>1. \A i \in Kafka!Ids : tracker[i] \in 0 .. (MaxRetries - 1) /\ givenUp[i] \in Nat
      BY DEF KafkaInv, Kafka!TypeOK
    <2>2. MaxRetries \in Nat
      BY KafkaFacts
    <2> QED BY <2>1, <2>2
  <1>10. 0 \in T
    <2>1. 1 .. 0 = {} /\ {} \in SUBSET D
      OBVIOUS
    <2>2. F[{}] = base
      BY <1>8, <2>1 DEF Fold
    <2>3. base.tracker = tracker /\ base.ups = givenUp
      BY DEF base
    <2>4. \A i \in Kafka!Ids : Cardinality(Places(ids, 0, i)) = 0
      <3> HIDE DEF ids
      <3> QED BY PlaceAdded, 0 \in Nat
    <2> HIDE DEF ids
    <2>5. \A i \in Kafka!Ids :
            tracker[i] + MaxRetries * givenUp[i] = tracker[i] + MaxRetries * givenUp[i] + 0
      BY <1>9
    <2> QED BY <1>3, <2>1, <2>2, <2>3, <2>4, <2>5
  <1>11. ASSUME NEW k \in Nat, k \in T PROVE k + 1 \in T
    <2> SUFFICES ASSUME k + 1 <= n PROVE Booked(k + 1)
      OBVIOUS
    <2>1. k + 1 \in 1 .. n /\ Booked(k) /\ (k + 1) - 1 = k
      BY <1>1, <1>11
    <2>2. /\ 1 .. (k + 1) \in SUBSET (1 .. n) /\ 1 .. (k + 1) # {}
          /\ MaxOf(1 .. (k + 1)) = k + 1 /\ (1 .. (k + 1)) \ {k + 1} = 1 .. ((k + 1) - 1)
      BY <1>1, <2>1, Prefixes
    <2>3. \A s \in SUBSET D :
            s # {} => F[s] = Kafka!Retried(F[s \ {MaxOf(s)}], kafka_asked[MaxOf(s)])
      BY <1>8 DEF Fold, MaxOf
    <2> DEFINE v == F[1 .. k]
               w == F[1 .. (k + 1)]
               m == kafka_asked[k + 1]
    <2>4. w = Kafka!Retried(v, m) /\ m \in Kafka!Messages /\ v \in Books
      BY <1>1, <2>1, <2>2, <2>3
    <2>5. /\ w \in Books
          /\ \A i \in Kafka!Ids :
               w.tracker[i] + MaxRetries * w.ups[i]
                 = v.tracker[i] + MaxRetries * v.ups[i] + (IF IdAt[m] = i THEN 1 ELSE 0)
      BY <2>4, RetriedKeeps
    <2>6. \A i \in Kafka!Ids :
            v.tracker[i] + MaxRetries * v.ups[i]
              = tracker[i] + MaxRetries * givenUp[i] + Cardinality(Places(ids, k, i))
      BY <2>1
    <2>7. ids[k + 1] = IdAt[m]
      BY <2>1
    <2> HIDE DEF v, w, m, ids
    <2>8. \A i \in Kafka!Ids :
            /\ Cardinality(Places(ids, k + 1, i))
                 = Cardinality(Places(ids, k, i)) + (IF IdAt[m] = i THEN 1 ELSE 0)
            /\ Cardinality(Places(ids, k, i)) \in Nat
      BY <2>7, PlaceAdded
    <2>9. ASSUME NEW i \in Kafka!Ids
          PROVE  w.tracker[i] + MaxRetries * w.ups[i]
                   = tracker[i] + MaxRetries * givenUp[i] + Cardinality(Places(ids, k + 1, i))
      <3> DEFINE a == tracker[i]
                 b == MaxRetries * givenUp[i]
                 c == Cardinality(Places(ids, k, i))
                 d == IF IdAt[m] = i THEN 1 ELSE 0
      <3>1. a \in Nat /\ b \in Nat /\ c \in Nat /\ d \in Nat
        BY <1>9, <2>8
      <3>2. w.tracker[i] + MaxRetries * w.ups[i] = (a + b + c) + d
        BY <2>5, <2>6
      <3>3. Cardinality(Places(ids, k + 1, i)) = c + d
        BY <2>8
      <3> HIDE DEF a, b, c, d
      <3>4. (a + b + c) + d = a + b + (c + d)
        BY <3>1
      <3> QED BY <3>2, <3>3, <3>4 DEF a, b
    <2> QED BY <2>5, <2>9 DEF w
  <1>12. Booked(n)
    <2>1. Nat \subseteq T
      <3> HIDE DEF T
      <3> QED BY <1>10, <1>11, Counting
    <2> QED BY <1>1, <2>1
  <1>13. \A i : Places(ids, n, i) = {k \in D : IdAt[kafka_asked[k]] = i}
    BY <1>1 DEF Places
  <1> HIDE DEF ids
  <1> QED BY <1>1, <1>2, <1>12, <1>13 DEF D

LEMMA KafkaInit == Kafka!Init => KafkaInv
  <1> SUFFICES ASSUME Kafka!Init PROVE KafkaInv
    OBVIOUS
  <1>1. /\ consuming = FALSE
        /\ pending = [p \in Partitions |-> <<>>] /\ recent = [p \in Partitions |-> <<>>]
        /\ tracker = [i \in Kafka!Ids |-> 0] /\ todo = {} /\ taken = None /\ kafka_asked = <<>>
        /\ dead = {}
        /\ metrics = [consumed |-> 0, processed |-> 0, failed |-> 0, commit |-> 0, tps |-> FALSE]
        /\ kafka_now = 0
        /\ accepted = [p \in Partitions |-> <<>>] /\ handled = [m \in Kafka!Messages |-> 0]
        /\ late = {} /\ refused = {}
        /\ kafka_failures = [i \in Kafka!Ids |-> 0] /\ givenUp = [i \in Kafka!Ids |-> 0]
    BY DEF Kafka!Init
  <1>2. tracker \in [Kafka!Ids -> 0 .. (MaxRetries - 1)]
    <2>1. 0 \in 0 .. (MaxRetries - 1)
      BY KafkaFacts
    <2> QED BY <1>1, <2>1
  <1>3. Len(<<>>) = 0 /\ DOMAIN <<>> = {} /\ 1 .. 0 = {}
    OBVIOUS
  <1>4. Kafka!TypeOK
    <2>1. metrics \in [consumed : Nat, processed : Nat, failed : Nat, commit : Nat, tps : BOOLEAN]
      BY <1>1
    <2>2. /\ pending \in [Partitions -> Seq(Kafka!Messages)]
          /\ recent \in [Partitions -> Seq(Offsets)] /\ accepted \in [Partitions -> Seq(Offsets)]
          /\ kafka_asked \in Seq(Kafka!Messages)
      BY <1>1
    <2>3. /\ tracker \in [Kafka!Ids -> Nat] /\ kafka_failures \in [Kafka!Ids -> Nat]
          /\ givenUp \in [Kafka!Ids -> Nat] /\ handled \in [Kafka!Messages -> Nat]
      BY <1>1
    <2> QED BY <1>1, <2>1, <2>2, <2>3 DEF Kafka!TypeOK
  <1>5. \A p \in Partitions : recent[p] = <<>> /\ accepted[p] = <<>>
    BY <1>1
  <1>6. \A p \in Partitions : Remembers(p)
    <2>1. 0 <= History /\ ~(0 < 0) /\ 0 <= 0
      BY KafkaFacts
    <2> QED BY <1>3, <1>5, <2>1 DEF Remembers
  <1>7. BatchWasAsked
    BY <1>1 DEF BatchWasAsked
  <1>8. Kafka!OnlyLateOrRefusedIsLost /\ Kafka!NoRepeatInWindow
    BY <1>3, <1>5 DEF Kafka!OnlyLateOrRefusedIsLost, Kafka!NoRepeatInWindow
  <1>9. Kafka!RetriesAddUp
    <2>1. MaxRetries * 0 = 0
      BY KafkaFacts
    <2>2. \A i \in Kafka!Ids : kafka_failures[i] = 0 /\ tracker[i] = 0 /\ givenUp[i] = 0
      BY <1>1
    <2> QED BY <2>1, <2>2 DEF Kafka!RetriesAddUp
  <1>10. SumOf(handled, Kafka!Messages) = 0
    <2>1. \A m \in Kafka!Messages : handled[m] = 0
      BY <1>1
    <2> QED BY <2>1, SumOfZeros, KafkaFacts
  <1>11. metrics.consumed = 0 /\ metrics.processed = 0 /\ metrics.failed = 0
    BY <1>1
  <1> QED BY <1>2, <1>4, <1>6, <1>7, <1>8, <1>9, <1>10, <1>11 DEF KafkaInv

\* A new offset: the window of remembered ones moves on.
LEMMA RememberFacts ==
  ASSUME KafkaInv, NEW p \in Partitions, NEW o \in Offsets, ~Kafka!Contains(recent[p], o),
         recent' = [recent EXCEPT ![p] = Kafka!Remember(recent[p], o)],
         accepted' = [accepted EXCEPT ![p] = Append(accepted[p], o)]
  PROVE  /\ recent' \in [Partitions -> Seq(Offsets)] /\ accepted' \in [Partitions -> Seq(Offsets)]
         /\ \A q \in Partitions : Remembers(q)'
         /\ Kafka!NoRepeatInWindow'
         /\ \A q \in Partitions \ {p} : accepted'[q] = accepted[q]
         /\ accepted'[p] = Append(accepted[p], o)
  <1> DEFINE r == recent[p]
             a == accepted[p]
             n == Len(a)
             l == Len(r)
  <1>1. /\ History \in Nat /\ History > 0
        /\ recent \in [Partitions -> Seq(Offsets)] /\ accepted \in [Partitions -> Seq(Offsets)]
        /\ r \in Seq(Offsets) /\ a \in Seq(Offsets) /\ n \in Nat /\ l \in Nat
        /\ DOMAIN a = 1 .. n /\ DOMAIN r = 1 .. l
    BY KafkaFacts DEF KafkaInv, Kafka!TypeOK
  <1>2. /\ l <= n /\ l <= History /\ (l < n => l = History)
        /\ \A j \in 1 .. l : r[j] = a[n - l + j]
    BY DEF KafkaInv, Remembers
  <1>3. /\ Append(a, o) \in Seq(Offsets) /\ Len(Append(a, o)) = n + 1
        /\ DOMAIN Append(a, o) = 1 .. (n + 1)
        /\ \A j \in 1 .. n : Append(a, o)[j] = a[j]
        /\ Append(a, o)[n + 1] = o
    BY <1>1, AppendFacts
  <1>4. /\ Append(r, o) \in Seq(Offsets) /\ Len(Append(r, o)) = l + 1
        /\ \A j \in 1 .. l : Append(r, o)[j] = r[j]
        /\ Append(r, o)[l + 1] = o
    BY <1>1, AppendFacts
  <1> DEFINE s == Kafka!Remember(r, o)
             b == Append(a, o)
             longer == Append(r, o)
  <1>5. s = IF Len(longer) > History THEN Tail(longer) ELSE longer
    BY DEF Kafka!Remember
  <1>6. longer # <<>> /\ Len(longer) = l + 1 /\ longer \in Seq(Offsets)
    BY <1>1, <1>4
  <1>7. \A j \in 1 .. (l + 1) : longer[j] = b[n - l + j]
    <2> SUFFICES ASSUME NEW j \in 1 .. (l + 1) PROVE longer[j] = b[n - l + j]
      OBVIOUS
    <2>1. CASE j = l + 1
      <3>1. n - l + j = n + 1
        BY <1>1, <2>1
      <3> QED BY <1>3, <1>4, <2>1, <3>1
    <2>2. CASE j # l + 1
      <3>1. l \in Nat /\ n \in Nat /\ l <= n /\ j \in 1 .. (l + 1) /\ j # l + 1
        BY <1>1, <1>2, <2>2
      <3> HIDE DEF l, n
      <3>2. j \in 1 .. l /\ n - l + j \in 1 .. n
        BY <3>1
      <3> QED BY <1>2, <1>3, <1>4, <3>2 DEF l, n
    <2> QED BY <2>1, <2>2
  <1>8. /\ Tail(longer) \in Seq(Offsets) /\ Len(Tail(longer)) = l
        /\ \A j \in 1 .. l : Tail(longer)[j] = longer[j + 1]
    <2>1. /\ Tail(longer) \in Seq(Offsets) /\ Len(Tail(longer)) = (l + 1) - 1
          /\ \A j \in 1 .. ((l + 1) - 1) : Tail(longer)[j] = longer[j + 1]
      BY <1>6, TailFacts
    <2>2. (l + 1) - 1 = l
      BY <1>1
    <2> QED BY <2>1, <2>2
  <1> HIDE DEF longer, b, s, r, a, n, l
  <1>9. /\ s \in Seq(Offsets) /\ Len(s) <= n + 1 /\ Len(s) <= History
        /\ (Len(s) < n + 1 => Len(s) = History)
        /\ \A j \in 1 .. Len(s) : s[j] = b[(n + 1) - Len(s) + j]
    <2>1. CASE l + 1 > History
      <3>1. s = Tail(longer) /\ Len(s) = l /\ l = History
        BY <1>1, <1>2, <1>5, <1>6, <1>8, <2>1
      <3>2. ASSUME NEW j \in 1 .. l PROVE s[j] = b[(n + 1) - l + j]
        <4>1. s[j] = longer[j + 1] /\ j + 1 \in 1 .. (l + 1)
          BY <1>1, <1>8, <3>1
        <4>2. n - l + (j + 1) = (n + 1) - l + j
          BY <1>1
        <4> QED BY <1>7, <4>1, <4>2
      <3>3. s \in Seq(Offsets) /\ \A j \in 1 .. Len(s) : s[j] = b[(n + 1) - Len(s) + j]
        BY <1>8, <3>1, <3>2
      <3>4. Len(s) <= n + 1 /\ Len(s) <= History /\ Len(s) = History
        BY <1>1, <1>2, <3>1
      <3> QED BY <3>3, <3>4
    <2>2. CASE ~(l + 1 > History)
      <3>1. s = longer /\ Len(s) = l + 1 /\ l = n
        BY <1>1, <1>2, <1>5, <1>6, <2>2
      <3>2. ASSUME NEW j \in 1 .. (l + 1) PROVE s[j] = b[(n + 1) - (l + 1) + j]
        <4>1. (n + 1) - (l + 1) + j = n - l + j
          BY <1>1
        <4> QED BY <1>7, <3>1, <4>1
      <3>3. s \in Seq(Offsets) /\ \A j \in 1 .. Len(s) : s[j] = b[(n + 1) - Len(s) + j]
        BY <1>6, <3>1, <3>2
      <3>4. Len(s) <= n + 1 /\ Len(s) <= History /\ ~(Len(s) < n + 1)
        BY <1>1, <1>2, <2>2, <3>1
      <3> QED BY <3>3, <3>4
    <2> QED BY <2>1, <2>2
  <1>10. /\ recent'[p] = s /\ accepted'[p] = b
         /\ \A q \in Partitions \ {p} : recent'[q] = recent[q] /\ accepted'[q] = accepted[q]
         /\ recent' \in [Partitions -> Seq(Offsets)] /\ accepted' \in [Partitions -> Seq(Offsets)]
    <2>1. recent' = [recent EXCEPT ![p] = s] /\ accepted' = [accepted EXCEPT ![p] = b]
      BY DEF s, b, r, a
    <2>2. b \in Seq(Offsets)
      BY <1>3 DEF b
    <2> QED BY <1>1, <1>9, <2>1, <2>2
  <1>11. ASSUME NEW q \in Partitions PROVE Remembers(q)'
    <2>1. CASE q = p
      <3>1. Len(b) = n + 1
        BY <1>3 DEF b
      <3>2. recent'[q] = s /\ accepted'[q] = b
        BY <1>10, <2>1
      <3> QED BY <1>9, <3>1, <3>2 DEF Remembers
    <2>2. CASE q # p
      <3>1. recent'[q] = recent[q] /\ accepted'[q] = accepted[q]
        BY <1>10, <2>2
      <3>2. Remembers(q)
        BY DEF KafkaInv
      <3> QED BY <3>1, <3>2 DEF Remembers
    <2> QED BY <2>1, <2>2
  <1>12. ASSUME NEW j \in 1 .. n, a[j] = o PROVE (n + 1) - j > History
    <2>1. \A i \in 1 .. l : r[i] # o
      BY <1>1 DEF Kafka!Contains, r, l
    <2>2. j <= n - l
      <3> SUFFICES ASSUME j > n - l PROVE FALSE
        BY <1>1
      <3>1. j - (n - l) \in 1 .. l /\ n - l + (j - (n - l)) = j
        BY <1>1, <1>2
      <3> QED BY <1>2, <1>12, <2>1, <3>1
    <2>3. l < n
      BY <1>1, <2>2
    <2> QED BY <1>1, <1>2, <2>2, <2>3
  <1>13. Kafka!NoRepeatInWindow'
    <2> SUFFICES ASSUME NEW q \in Partitions,
                        NEW j \in DOMAIN accepted'[q], NEW k \in DOMAIN accepted'[q],
                        j < k, accepted'[q][j] = accepted'[q][k]
                 PROVE  k - j > History
      BY DEF Kafka!NoRepeatInWindow
    <2>1. CASE q = p
      <3>1. accepted'[q] = b /\ j \in 1 .. (n + 1) /\ k \in 1 .. (n + 1) /\ b[j] = b[k]
        BY <1>3, <1>10, <2>1 DEF b
      <3>2. j \in 1 .. n /\ b[j] = a[j]
        <4>1. n \in Nat /\ j \in Nat /\ k \in Nat /\ k <= n + 1 /\ 1 <= j /\ j < k
          BY <1>1, <3>1
        <4>2. j \in 1 .. n
          BY <4>1
        <4>3. b[j] = a[j]
          BY <1>3, <4>2 DEF b
        <4> QED BY <4>2, <4>3
      <3>3. CASE k = n + 1
        <4>1. a[j] = o
          BY <1>3, <3>1, <3>2, <3>3 DEF b
        <4> QED BY <1>12, <3>2, <3>3, <4>1
      <3>4. CASE k # n + 1
        <4>1. k \in 1 .. n /\ b[k] = a[k]
          BY <1>1, <1>3, <3>1, <3>4 DEF b
        <4>2. a[j] = a[k]
          BY <3>1, <3>2, <4>1
        <4> QED BY <1>1, <3>2, <4>1, <4>2 DEF KafkaInv, Kafka!NoRepeatInWindow, a, n
      <3> QED BY <3>3, <3>4
    <2>2. CASE q # p
      <3>1. accepted'[q] = accepted[q]
        BY <1>10, <2>2
      <3> QED BY <3>1 DEF KafkaInv, Kafka!NoRepeatInWindow
    <2> QED BY <2>1, <2>2
  <1> QED BY <1>10, <1>11, <1>13 DEF b, a

LEMMA DeliverKeeps ==
  ASSUME KafkaInv, NEW p \in Partitions, NEW o \in Offsets, Kafka!Deliver(p, o)
  PROVE  KafkaInv'
  <1> DEFINE m == <<p, o>>
  <1>1. /\ ~Kafka!Contains(recent[p], o)
        /\ recent' = [recent EXCEPT ![p] = Kafka!Remember(recent[p], o)]
        /\ accepted' = [accepted EXCEPT ![p] = Append(accepted[p], o)]
        /\ \/ /\ pending' = [pending EXCEPT ![p] = Append(pending[p], m)]
              /\ late' = IF taken = p THEN late \union {m} ELSE late
              /\ UNCHANGED refused
           \/ /\ refused' = refused \union {m}
              /\ UNCHANGED <<pending, late>>
        /\ UNCHANGED <<consuming, tracker, todo, taken, kafka_asked, dead, metrics, kafka_now,
                       handled, kafka_failures, givenUp>>
    BY DEF Kafka!Deliver
  <1>2. /\ recent' \in [Partitions -> Seq(Offsets)] /\ accepted' \in [Partitions -> Seq(Offsets)]
        /\ \A q \in Partitions : Remembers(q)'
        /\ Kafka!NoRepeatInWindow'
        /\ \A q \in Partitions \ {p} : accepted'[q] = accepted[q]
        /\ accepted'[p] = Append(accepted[p], o)
    BY <1>1, RememberFacts
  <1>3. m \in Kafka!Messages
    BY KafkaFacts
  <1>4. /\ pending \in [Partitions -> Seq(Kafka!Messages)] /\ late \in SUBSET Kafka!Messages
        /\ pending[p] \in Seq(Kafka!Messages) /\ accepted[p] \in Seq(Offsets)
        /\ refused \in SUBSET Kafka!Messages
    BY DEF KafkaInv, Kafka!TypeOK
  <1> HIDE DEF m
  <1>5. /\ pending' \in [Partitions -> Seq(Kafka!Messages)]
        /\ \A q \in Partitions \ {p} : pending'[q] = pending[q]
        /\ \/ pending'[p] = Append(pending[p], m) /\ (taken = p => m \in late')
           \/ pending'[p] = pending[p] /\ m \in refused'
    <2>1. Append(pending[p], m) \in Seq(Kafka!Messages)
      BY <1>3, <1>4
    <2> QED BY <1>1, <1>4, <2>1
  <1>6. /\ late' \in SUBSET Kafka!Messages /\ late \subseteq late'
        /\ refused' \in SUBSET Kafka!Messages /\ refused \subseteq refused'
    BY <1>1, <1>3, <1>4
  <1>7. Kafka!TypeOK'
    BY <1>1, <1>2, <1>5, <1>6 DEF KafkaInv, Kafka!TypeOK
  <1>8. ASSUME pending'[p] = Append(pending[p], m)
        PROVE  /\ Len(pending[p]) \in Nat /\ Len(pending'[p]) = Len(pending[p]) + 1
               /\ DOMAIN pending'[p] = DOMAIN pending[p] \union {Len(pending[p]) + 1}
               /\ DOMAIN pending[p] = 1 .. Len(pending[p])
               /\ \A k \in DOMAIN pending[p] : pending'[p][k] = pending[p][k]
               /\ pending'[p][Len(pending[p]) + 1] = m
    BY <1>3, <1>4, <1>8, AppendFacts
  <1>9. BatchWasAsked'
    <2> SUFFICES ASSUME taken # None, NEW k \in DOMAIN pending'[taken]
                 PROVE  (\E j \in DOMAIN kafka_asked : kafka_asked[j] = pending'[taken][k])
                          \/ pending'[taken][k] \in late'
      BY <1>1 DEF BatchWasAsked
    <2>1. taken \in Partitions
      BY DEF KafkaInv, Kafka!TypeOK
    <2>2. CASE k \in DOMAIN pending[taken] /\ pending'[taken][k] = pending[taken][k]
      BY <1>6, <2>2 DEF KafkaInv, BatchWasAsked
    <2>3. CASE taken = p /\ pending'[p] = Append(pending[p], m) /\ k = Len(pending[p]) + 1
      BY <1>1, <1>5, <1>8, <2>3
    <2>4. CASE taken = p /\ pending'[p] = Append(pending[p], m)
      BY <1>8, <2>2, <2>3, <2>4
    <2>5. CASE pending'[taken] = pending[taken]
      BY <2>2, <2>5
    <2> QED BY <1>5, <2>1, <2>4, <2>5
  <1>10. Kafka!OnlyLateOrRefusedIsLost'
    <2> SUFFICES ASSUME NEW q \in Partitions, NEW k \in DOMAIN accepted'[q]
                 PROVE  \/ Kafka!Contains(pending'[q], <<q, accepted'[q][k]>>)
                        \/ handled[<<q, accepted'[q][k]>>] > 0
                        \/ <<q, accepted'[q][k]>> \in late'
                        \/ <<q, accepted'[q][k]>> \in refused'
      BY <1>1 DEF Kafka!OnlyLateOrRefusedIsLost, Kafka!Contains
    <2>1. \A x : Kafka!Contains(pending[q], x) => Kafka!Contains(pending'[q], x)
      <3>1. CASE q = p /\ pending'[p] = Append(pending[p], m)
        BY <1>8, <3>1 DEF Kafka!Contains
      <3>2. CASE pending'[q] = pending[q]
        BY <3>2
      <3> QED BY <1>5, <3>1, <3>2
    <2>2. CASE k \in DOMAIN accepted[q] /\ accepted'[q][k] = accepted[q][k]
      BY <1>6, <2>1, <2>2 DEF KafkaInv, Kafka!OnlyLateOrRefusedIsLost
    <2>3. CASE q = p /\ accepted'[q][k] = o
      <3>1. CASE pending'[p] = Append(pending[p], m)
        <4>1. Len(pending[p]) + 1 \in 1 .. Len(pending'[p])
          BY <1>8, <3>1
        <4> QED BY <1>8, <2>3, <3>1, <4>1 DEF Kafka!Contains, m
      <3>2. CASE m \in refused'
        BY <2>3, <3>2 DEF m
      <3> QED BY <1>5, <3>1, <3>2
    <2>4. CASE q = p
      <3>1. /\ DOMAIN accepted'[p] = DOMAIN accepted[p] \union {Len(accepted[p]) + 1}
            /\ \A j \in DOMAIN accepted[p] : accepted'[p][j] = accepted[p][j]
            /\ accepted'[p][Len(accepted[p]) + 1] = o
        BY <1>2, <1>4, AppendFacts
      <3> QED BY <2>2, <2>3, <2>4, <3>1
    <2>5. CASE q # p
      BY <1>2, <2>2, <2>5
    <2> QED BY <2>4, <2>5
  <1>11. Kafka!RetriesAddUp'
    BY <1>1 DEF KafkaInv, Kafka!RetriesAddUp
  <1>12. /\ tracker' \in [Kafka!Ids -> 0 .. (MaxRetries - 1)]
         /\ metrics'.consumed = SumOf(handled', Kafka!Messages)
         /\ metrics'.consumed = metrics'.processed + metrics'.failed
    BY <1>1 DEF KafkaInv
  <1> QED BY <1>2, <1>7, <1>9, <1>10, <1>11, <1>12 DEF KafkaInv

\* The batch that was asked for has gone through the model, message by message.
LEMMA BatchIsHandled ==
  ASSUME KafkaInv, taken # None, Kafka!EndOfBatch,
         UNCHANGED <<consuming, recent, accepted, late, refused>>
  PROVE  /\ pending' \in [Partitions -> Seq(Kafka!Messages)] /\ todo' \in SUBSET Partitions
         /\ handled' \in [Kafka!Messages -> Nat]
         /\ \A p \in Partitions : Remembers(p)'
         /\ BatchWasAsked' /\ Kafka!OnlyLateOrRefusedIsLost' /\ Kafka!NoRepeatInWindow'
         /\ SumOf(handled', Kafka!Messages) = SumOf(handled, Kafka!Messages) + Len(kafka_asked)
         /\ Len(kafka_asked) \in Nat
  <1> DEFINE M == Kafka!Messages
             n == Len(kafka_asked)
             places == [m \in M |-> Cardinality(Places(kafka_asked, n, m))]
  <1>1. /\ pending' = [pending EXCEPT ![taken] = <<>>] /\ todo' = todo \ {taken}
        /\ taken' = None /\ kafka_asked' = <<>>
        /\ handled' = [m \in M |->
             handled[m] + Kafka!Cardinality({k \in DOMAIN kafka_asked : kafka_asked[k] = m})]
    BY DEF Kafka!EndOfBatch, Kafka!Cleared
  <1>2. /\ taken \in Partitions /\ todo \in SUBSET Partitions
        /\ pending \in [Partitions -> Seq(M)] /\ handled \in [M -> Nat]
        /\ kafka_asked \in Seq(M) /\ n \in Nat /\ DOMAIN kafka_asked = 1 .. n
        /\ \A k \in 1 .. n : kafka_asked[k] \in M
        /\ accepted \in [Partitions -> Seq(Offsets)]
    BY DEF KafkaInv, Kafka!TypeOK
  <1>3. IsFiniteSet(M) /\ \A S : Kafka!Cardinality(S) = Cardinality(S)
    BY KafkaFacts
  <1>4. /\ \A m \in M : places[m] \in Nat
        /\ handled' = [m \in M |-> handled[m] + places[m]]
    <2>1. \A m \in M : places[m] \in Nat
      BY <1>2, PlacesAreFinite
    <2>2. \A m \in M : Kafka!Cardinality({k \in DOMAIN kafka_asked : kafka_asked[k] = m}) = places[m]
      BY <1>2, <1>3 DEF Places
    <2> QED BY <1>1, <2>1, <2>2
  <1>5. SumOf(places, M) = n
    <2> HIDE DEF M, n
    <2> QED BY <1>2, <1>3, PlacesAddUp
  <1>6. \A k \in 1 .. n : places[kafka_asked[k]] > 0
    <2> SUFFICES ASSUME NEW k \in 1 .. n PROVE places[kafka_asked[k]] > 0
      OBVIOUS
    <2>1. k \in Places(kafka_asked, n, kafka_asked[k])
      BY DEF Places
    <2>2. IsFiniteSet(Places(kafka_asked, n, kafka_asked[k]))
      BY <1>2, PlacesAreFinite
    <2>3. Cardinality(Places(kafka_asked, n, kafka_asked[k])) # 0
      BY <2>1, <2>2, FS_EmptySet
    <2>4. places[kafka_asked[k]] \in Nat /\ kafka_asked[k] \in M
      BY <1>2, <1>4
    <2> QED BY <2>3, <2>4
  <1> HIDE DEF places, n, M
  <1>7. handled' \in [M -> Nat] /\ \A m \in M : handled'[m] = handled[m] + places[m]
    BY <1>2, <1>4
  <1>8. SumOf(handled', M) = SumOf(handled, M) + n
    <2>1. SumOf(handled', M) = SumOf(handled, M) + SumOf(places, M)
      <3>1. \A m \in M : handled[m] \in Nat /\ places[m] \in Nat
                           /\ handled'[m] = handled[m] + places[m]
        BY <1>2, <1>4, <1>7
      <3> QED BY <1>3, <3>1, SumAdds
    <2> QED BY <1>5, <2>1
  <1>9. pending' \in [Partitions -> Seq(M)] /\ \A p \in Partitions \ {taken} : pending'[p] = pending[p]
    BY <1>1, <1>2
  <1>10. Kafka!OnlyLateOrRefusedIsLost'
    <2> SUFFICES ASSUME NEW p \in Partitions, NEW k \in DOMAIN accepted[p]
                 PROVE  \/ Kafka!Contains(pending'[p], <<p, accepted[p][k]>>)
                        \/ handled'[<<p, accepted[p][k]>>] > 0
                        \/ <<p, accepted[p][k]>> \in late
                        \/ <<p, accepted[p][k]>> \in refused
      BY DEF Kafka!OnlyLateOrRefusedIsLost, Kafka!Contains
    <2> DEFINE m == <<p, accepted[p][k]>>
    <2>1. Kafka!Contains(pending[p], m) \/ handled[m] > 0 \/ m \in late \/ m \in refused
      BY DEF KafkaInv, Kafka!OnlyLateOrRefusedIsLost
    <2>2. m \in M
      <3>1. accepted[p] \in Seq(Offsets)
        BY <1>2
      <3>2. accepted[p][k] \in Offsets
        BY <3>1
      <3> QED BY <3>2, KafkaFacts DEF M
    <2> HIDE DEF m
    <2>3. handled[m] \in Nat /\ places[m] \in Nat /\ handled'[m] = handled[m] + places[m]
      BY <1>2, <1>4, <1>7, <2>2
    <2>4. CASE handled[m] > 0
      <3>1. handled'[m] > 0
        BY <2>3, <2>4
      <3> QED BY <3>1 DEF m
    <2>5. CASE Kafka!Contains(pending[p], m) /\ p = taken
      <3>1. PICK j \in DOMAIN pending[taken] : pending[taken][j] = m
        BY <1>2, <2>5 DEF Kafka!Contains
      <3>2. (\E i \in DOMAIN kafka_asked : kafka_asked[i] = m) \/ m \in late
        BY <3>1 DEF KafkaInv, BatchWasAsked
      <3>3. CASE \E i \in DOMAIN kafka_asked : kafka_asked[i] = m
        <4>1. places[m] > 0
          BY <1>2, <1>6, <3>3
        <4>2. handled'[m] > 0
          BY <2>3, <4>1
        <4> QED BY <4>2 DEF m
      <3> QED BY <3>2, <3>3 DEF m
    <2>6. CASE Kafka!Contains(pending[p], m) /\ p # taken
      BY <1>9, <2>6 DEF m
    <2> QED BY <2>1, <2>4, <2>5, <2>6 DEF m
  <1>11. Kafka!NoRepeatInWindow' /\ \A p \in Partitions : Remembers(p)'
    BY DEF KafkaInv, Kafka!NoRepeatInWindow, Remembers
  <1>12. BatchWasAsked'
    BY <1>1 DEF BatchWasAsked
  <1> QED BY <1>1, <1>2, <1>7, <1>8, <1>9, <1>10, <1>11, <1>12 DEF M, n

LEMMA AnswerOkKeeps ==
  ASSUME KafkaInv, Kafka!AnswerOk
  PROVE  KafkaInv'
  <1> DEFINE n == Len(kafka_asked)
             tps == Kafka!Throughput(metrics.consumed + n, kafka_now)
  <1>1. /\ taken # None /\ Kafka!EndOfBatch
        /\ metrics' = [metrics EXCEPT !.consumed = metrics.consumed + n,
                                      !.processed = metrics.processed + n,
                                      !.commit = kafka_now, !.tps = tps]
        /\ UNCHANGED <<consuming, recent, tracker, dead, kafka_now, accepted, late, refused,
                       kafka_failures, givenUp>>
    BY DEF Kafka!AnswerOk, Kafka!Counted
  <1>2. /\ pending' \in [Partitions -> Seq(Kafka!Messages)] /\ todo' \in SUBSET Partitions
        /\ handled' \in [Kafka!Messages -> Nat]
        /\ \A p \in Partitions : Remembers(p)'
        /\ BatchWasAsked' /\ Kafka!OnlyLateOrRefusedIsLost' /\ Kafka!NoRepeatInWindow'
        /\ SumOf(handled', Kafka!Messages) = SumOf(handled, Kafka!Messages) + n
        /\ n \in Nat
    BY <1>1, BatchIsHandled
  <1>3. taken' = None /\ kafka_asked' = <<>>
    BY <1>1 DEF Kafka!EndOfBatch
  <1>4. /\ metrics \in [consumed : Nat, processed : Nat, failed : Nat, commit : Nat, tps : BOOLEAN]
        /\ metrics.consumed \in Nat /\ metrics.processed \in Nat /\ metrics.failed \in Nat
        /\ kafka_now \in Nat /\ metrics.tps \in BOOLEAN
    BY DEF KafkaInv, Kafka!TypeOK
  <1>5. tps \in BOOLEAN
    <2> DEFINE some == metrics.consumed + n > 0
    <2>1. some \in BOOLEAN
      OBVIOUS
    <2>2. tps = some \/ tps = metrics.tps
      BY DEF Kafka!Throughput
    <2> HIDE DEF some, tps
    <2> QED BY <1>4, <2>1, <2>2
  <1> HIDE DEF tps, n
  <1>6. /\ metrics' \in [consumed : Nat, processed : Nat, failed : Nat, commit : Nat, tps : BOOLEAN]
        /\ metrics'.consumed = metrics.consumed + n /\ metrics'.processed = metrics.processed + n
        /\ metrics'.failed = metrics.failed
    <2>1. metrics.consumed + n \in Nat /\ metrics.processed + n \in Nat
      BY <1>2, <1>4
    <2> QED BY <1>1, <1>4, <1>5, <2>1
  <1>7. Kafka!TypeOK'
    <2>1. kafka_asked' \in Seq(Kafka!Messages) /\ taken' \in Partitions \union {None}
      BY <1>3
    <2> QED BY <1>1, <1>2, <1>6, <2>1 DEF KafkaInv, Kafka!TypeOK
  <1>8. /\ metrics'.consumed = SumOf(handled', Kafka!Messages)
        /\ metrics'.consumed = metrics'.processed + metrics'.failed
    <2>1. /\ metrics.consumed = SumOf(handled, Kafka!Messages)
          /\ metrics.consumed = metrics.processed + metrics.failed
      BY DEF KafkaInv
    <2> QED BY <1>2, <1>4, <1>6, <2>1
  <1>9. Kafka!RetriesAddUp' /\ tracker' \in [Kafka!Ids -> 0 .. (MaxRetries - 1)]
    BY <1>1 DEF KafkaInv, Kafka!RetriesAddUp
  <1> QED BY <1>2, <1>7, <1>8, <1>9 DEF KafkaInv

LEMMA AnswerFailedKeeps ==
  ASSUME KafkaInv, Kafka!AnswerFailed
  PROVE  KafkaInv'
  <1> DEFINE n == Len(kafka_asked)
             w == Kafka!HandleFailures
  <1>1. /\ taken # None /\ Kafka!EndOfBatch
        /\ metrics' = [metrics EXCEPT !.consumed = metrics.consumed + n,
                                      !.failed = metrics.failed + n]
        /\ tracker' = w.tracker /\ givenUp' = w.ups
        /\ \E sent \in Kafka!Sent(w.over) : dead' = dead \union sent
        /\ kafka_failures' = [i \in Kafka!Ids |->
             kafka_failures[i]
               + Kafka!Cardinality({k \in DOMAIN kafka_asked : IdAt[kafka_asked[k]] = i})]
        /\ UNCHANGED <<consuming, recent, kafka_now, accepted, late, refused>>
    BY DEF Kafka!AnswerFailed, Kafka!CountedFailed
  <1>2. /\ pending' \in [Partitions -> Seq(Kafka!Messages)] /\ todo' \in SUBSET Partitions
        /\ handled' \in [Kafka!Messages -> Nat]
        /\ \A p \in Partitions : Remembers(p)'
        /\ BatchWasAsked' /\ Kafka!OnlyLateOrRefusedIsLost' /\ Kafka!NoRepeatInWindow'
        /\ SumOf(handled', Kafka!Messages) = SumOf(handled, Kafka!Messages) + n
        /\ n \in Nat
    BY <1>1, BatchIsHandled
  <1>3. taken' = None /\ kafka_asked' = <<>>
    BY <1>1 DEF Kafka!EndOfBatch
  <1>4. /\ metrics \in [consumed : Nat, processed : Nat, failed : Nat, commit : Nat, tps : BOOLEAN]
        /\ metrics.consumed \in Nat /\ metrics.processed \in Nat /\ metrics.failed \in Nat
        /\ dead \in SUBSET Kafka!Messages /\ kafka_failures \in [Kafka!Ids -> Nat]
    BY DEF KafkaInv, Kafka!TypeOK
  <1>5. /\ w \in Books
        /\ \A i \in Kafka!Ids :
             w.tracker[i] + MaxRetries * w.ups[i]
               = tracker[i] + MaxRetries * givenUp[i]
                 + Cardinality({k \in DOMAIN kafka_asked : IdAt[kafka_asked[k]] = i})
    BY FailuresAreBooked
  <1> HIDE DEF w, n
  <1>6. /\ tracker' \in [Kafka!Ids -> 0 .. (MaxRetries - 1)] /\ givenUp' \in [Kafka!Ids -> Nat]
        /\ w.over \in SUBSET Kafka!Messages
    BY <1>1, <1>5 DEF Books
  <1>7. tracker' \in [Kafka!Ids -> Nat]
    <2>1. \A i \in 0 .. (MaxRetries - 1) : i \in Nat
      OBVIOUS
    <2> QED BY <1>6, <2>1
  <1>8. dead' \in SUBSET Kafka!Messages
    <2>1. PICK sent \in Kafka!Sent(w.over) : dead' = dead \union sent
      BY <1>1
    <2>2. sent \subseteq w.over
      BY DEF Kafka!Sent
    <2> QED BY <1>4, <1>6, <2>1, <2>2
  <1>9. /\ metrics' \in [consumed : Nat, processed : Nat, failed : Nat, commit : Nat, tps : BOOLEAN]
        /\ metrics'.consumed = metrics.consumed + n /\ metrics'.failed = metrics.failed + n
        /\ metrics'.processed = metrics.processed
    <2>1. metrics.consumed + n \in Nat /\ metrics.failed + n \in Nat
      BY <1>2, <1>4
    <2> QED BY <1>1, <1>4, <2>1
  <1> DEFINE C(i) == Cardinality({k \in DOMAIN kafka_asked : IdAt[kafka_asked[k]] = i})
  <1>10. ASSUME NEW i \in Kafka!Ids PROVE C(i) \in Nat
    <2>1. kafka_asked \in Seq(Kafka!Messages)
      BY DEF KafkaInv, Kafka!TypeOK
    <2>2. DOMAIN kafka_asked = 1 .. n /\ n \in Nat
      BY <2>1 DEF n
    <2>3. IsFiniteSet(1 .. n) /\ {k \in DOMAIN kafka_asked : IdAt[kafka_asked[k]] = i} \subseteq 1 .. n
      BY <2>2, FS_Interval
    <2> QED BY <2>3, FS_Subset, FS_CardinalityType
  <1>11. kafka_failures' = [i \in Kafka!Ids |-> kafka_failures[i] + C(i)]
    BY <1>1, KafkaFacts
  <1>12. \A i \in Kafka!Ids : tracker'[i] + MaxRetries * givenUp'[i]
                                = tracker[i] + MaxRetries * givenUp[i] + C(i)
    BY <1>1, <1>5
  <1> HIDE DEF C
  <1>13. /\ kafka_failures' \in [Kafka!Ids -> Nat]
         /\ \A i \in Kafka!Ids : kafka_failures'[i] = kafka_failures[i] + C(i)
    <2>1. \A i \in Kafka!Ids : kafka_failures[i] + C(i) \in Nat
      BY <1>4, <1>10
    <2> QED BY <1>11, <2>1
  <1>14. Kafka!RetriesAddUp'
    BY <1>12, <1>13 DEF KafkaInv, Kafka!RetriesAddUp
  <1>15. Kafka!TypeOK'
    <2>1. kafka_asked' \in Seq(Kafka!Messages) /\ taken' \in Partitions \union {None}
      BY <1>3
    <2> QED BY <1>1, <1>2, <1>6, <1>7, <1>8, <1>9, <1>13, <2>1 DEF KafkaInv, Kafka!TypeOK
  <1>16. /\ metrics'.consumed = SumOf(handled', Kafka!Messages)
         /\ metrics'.consumed = metrics'.processed + metrics'.failed
    <2>1. /\ metrics.consumed = SumOf(handled, Kafka!Messages)
          /\ metrics.consumed = metrics.processed + metrics.failed
      BY DEF KafkaInv
    <2> QED BY <1>2, <1>4, <1>9, <2>1
  <1> QED BY <1>2, <1>6, <1>14, <1>15, <1>16 DEF KafkaInv

\* Starting, stopping, time, and the beginning of a round or of a prediction.
LEMMA OthersKeep ==
  ASSUME KafkaInv,
         UNCHANGED <<pending, recent, tracker, dead, metrics, accepted, handled, late,
                     refused, kafka_failures, givenUp>>,
         consuming' \in BOOLEAN, kafka_now' \in Nat, todo' \in SUBSET Partitions,
         \/ UNCHANGED <<taken, kafka_asked>>
         \/ taken' \in Partitions /\ kafka_asked' = pending[taken']
  PROVE  KafkaInv'
  <1>1. Kafka!TypeOK'
    <2>1. taken' \in Partitions \union {None} /\ kafka_asked' \in Seq(Kafka!Messages)
      BY DEF KafkaInv, Kafka!TypeOK
    <2> QED BY <2>1 DEF KafkaInv, Kafka!TypeOK
  <1>2. BatchWasAsked'
    <2>1. CASE UNCHANGED <<taken, kafka_asked>>
      BY <2>1 DEF KafkaInv, BatchWasAsked
    <2>2. CASE taken' \in Partitions /\ kafka_asked' = pending[taken']
      BY <2>2 DEF BatchWasAsked
    <2> QED BY <2>1, <2>2
  <1>3. /\ \A p \in Partitions : Remembers(p)'
        /\ Kafka!OnlyLateOrRefusedIsLost' /\ Kafka!RetriesAddUp' /\ Kafka!NoRepeatInWindow'
    BY DEF KafkaInv, Remembers, Kafka!OnlyLateOrRefusedIsLost, Kafka!Contains, Kafka!RetriesAddUp,
           Kafka!NoRepeatInWindow
  <1> QED BY <1>1, <1>2, <1>3 DEF KafkaInv

LEMMA KafkaNext ==
  ASSUME KafkaInv, [Kafka!Next]_kafkaVars
  PROVE  KafkaInv'
  <1>1. /\ consuming \in BOOLEAN /\ kafka_now \in Nat /\ todo \in SUBSET Partitions
    BY DEF KafkaInv, Kafka!TypeOK
  <1>2. CASE Kafka!Start \/ Kafka!Stop
    <2>1. UNCHANGED <<pending, recent, tracker, dead, metrics, accepted, handled, late,
                     refused, kafka_failures, givenUp>>
      BY <1>2 DEF Kafka!Start, Kafka!Stop, Kafka!history
    <2>2. consuming' \in BOOLEAN /\ UNCHANGED <<todo, taken, kafka_asked, kafka_now>>
      BY <1>2 DEF Kafka!Start, Kafka!Stop
    <2> QED BY <1>1, <2>1, <2>2, OthersKeep
  <1>3. CASE Kafka!Tick
    <2>1. kafka_now' \in Nat
      BY <1>1, <1>3 DEF Kafka!Tick
    <2> QED BY <1>1, <1>3, <2>1, OthersKeep DEF Kafka!Tick, Kafka!consumer, Kafka!history
  <1>4. CASE Kafka!StartRound
    <2>1. todo' \in SUBSET Partitions
      BY <1>4 DEF Kafka!StartRound
    <2>2. UNCHANGED <<pending, recent, tracker, dead, metrics, accepted, handled, late,
                     refused, kafka_failures, givenUp>>
      BY <1>4 DEF Kafka!StartRound, Kafka!history
    <2>3. UNCHANGED <<consuming, taken, kafka_asked, kafka_now>>
      BY <1>4 DEF Kafka!StartRound
    <2> QED BY <1>1, <2>1, <2>2, <2>3, OthersKeep
  <1>5. ASSUME NEW p \in Partitions, Kafka!Ask(p) PROVE KafkaInv'
    <2>1. UNCHANGED <<pending, recent, tracker, dead, metrics, accepted, handled, late,
                     refused, kafka_failures, givenUp>>
      BY <1>5 DEF Kafka!Ask, Kafka!history
    <2>2. /\ UNCHANGED <<consuming, todo, kafka_now>>
          /\ taken' \in Partitions /\ kafka_asked' = pending[taken']
      BY <1>5 DEF Kafka!Ask
    <2> QED BY <1>1, <2>1, <2>2, OthersKeep
  <1>6. CASE UNCHANGED kafkaVars
    BY <1>1, <1>6, OthersKeep DEF kafkaVars
  <1>7. ASSUME NEW p \in Partitions, NEW o \in Offsets, Kafka!Deliver(p, o) PROVE KafkaInv'
    BY <1>7, DeliverKeeps
  <1> QED BY <1>2, <1>3, <1>4, <1>5, <1>6, <1>7, AnswerOkKeeps, AnswerFailedKeeps
        DEF Kafka!Next, Kafka!Round

LEMMA KafkaSound == KafkaInv => Kafka!TypeOK /\ Kafka!MessagesAreAccounted
  <1> SUFFICES ASSUME KafkaInv PROVE Kafka!TypeOK /\ Kafka!MessagesAreAccounted
    OBVIOUS
  <1>1. handled \in [Kafka!Messages -> Nat]
    BY DEF KafkaInv, Kafka!TypeOK
  <1>2. metrics.consumed = Kafka!FoldFunction(+, 0, handled)
    <2>1. Kafka!FoldFunction(+, 0, handled) = SumOf(handled, Kafka!Messages)
      BY <1>1, HandledAddUp
    <2> QED BY <2>1 DEF KafkaInv
  <1>3. Kafka!CountsWhatWasAsked
    BY <1>2 DEF KafkaInv, Kafka!CountsWhatWasAsked
  <1> QED BY <1>3 DEF KafkaInv, Kafka!MessagesAreAccounted

==============================================================================
