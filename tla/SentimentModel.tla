----------------------------- MODULE SentimentModel -----------------------------
(***************************************************************************)
(* One loaded model (models/base.py and its ONNX and PyTorch subclasses)   *)
(* called from several threads: single predictions go through an           *)
(* lru_cache, batches around it, and a hit is recognised by comparing the  *)
(* hit counter before and after the call.                                  *)
(***************************************************************************)
EXTENDS Integers, Sequences, FiniteSets, SequencesExt

CONSTANTS
  Calls,        \* threads that predict
  Texts,        \* inputs; an input is its stripped text, "" when it is blank
  max_length,   \* max_text_length: texts are sequences of characters here
  cache_size,   \* prediction_cache_max_size
  MaxBatch,     \* bound: texts of a batch
  MaxPredictions \* bound: looks into the cache, and predictions after which no batch begins

ModelAssumption ==
  /\ max_length \in Nat \ {0} /\ cache_size \in Nat \ {0}
  /\ MaxBatch \in Nat /\ MaxPredictions \in Nat

Blank == <<>>
NoBatch == [texts |-> <<>>, results |-> <<>>]

VARIABLES
  lru,          \* cleaned texts in the cache, least recently used first
  lru_info,     \* [hits, misses] of the lru_cache
  counted,      \* [hits, misses, predictions]: _cache_hits, _cache_misses, _prediction_count
  pc,           \* of each thread: idle, looking, inferring or tracking
  text,         \* what each thread predicts, cleaned
  before,       \* hits each thread saw before it looked
  batch,        \* the batch that has just been answered, and its results
  \* history
  was_hit,      \* threads whose latest look was a hit
  cleared       \* the cache has been cleared

vars == <<lru, lru_info, counted, pc, text, before, batch, was_hit, cleared>>

\* _preprocess_text
Clean(t) == SubSeq(t, 1, IF Len(t) < max_length THEN Len(t) ELSE max_length)

TypeOK ==
  /\ ToSet(lru) \subseteq {Clean(t) : t \in Texts}
  /\ lru_info \in [hits : Nat, misses : Nat]
  /\ counted \in [hits : Nat, misses : Nat, predictions : Nat]
  /\ pc \in [Calls -> {"idle", "looking", "inferring", "tracking"}]
  /\ \A c \in Calls : text[c] \in {Clean(t) : t \in Texts} \union {Blank}
  /\ before \in [Calls -> Nat]
  /\ was_hit \subseteq Calls /\ cleared \in BOOLEAN

Init ==
  /\ lru = <<>>
  /\ lru_info = [hits |-> 0, misses |-> 0]
  /\ counted = [hits |-> 0, misses |-> 0, predictions |-> 0]
  /\ pc = [c \in Calls |-> "idle"]
  /\ text = [c \in Calls |-> Blank]
  /\ before = [c \in Calls |-> 0]
  /\ batch = NoBatch
  /\ was_hit = {} /\ cleared = FALSE

\* predict up to the first cache_info; a blank text raises TextEmptyError before it.
Predict(c, t) ==
  /\ pc[c] = "idle" /\ t # Blank
  /\ lru_info.hits + lru_info.misses < MaxPredictions
  /\ text' = [text EXCEPT ![c] = Clean(t)]
  /\ before' = [before EXCEPT ![c] = lru_info.hits]
  /\ pc' = [pc EXCEPT ![c] = "looking"]
  /\ batch' = NoBatch
  /\ UNCHANGED <<lru, lru_info, counted, was_hit, cleared>>

\* predict calls _cached_predict: the lru_cache looks, and a hit becomes the most
\* recently used.
Look(c) ==
  /\ pc[c] = "looking"
  /\ IF Contains(lru, text[c])
     THEN /\ \E k \in DOMAIN lru :
               lru[k] = text[c] /\ lru' = Append(RemoveAt(lru, k), text[c])
          /\ lru_info' = [lru_info EXCEPT !.hits = @ + 1]
          /\ was_hit' = was_hit \union {c}
          /\ pc' = [pc EXCEPT ![c] = "tracking"]
     ELSE /\ lru_info' = [lru_info EXCEPT !.misses = @ + 1]
          /\ was_hit' = was_hit \ {c}
          /\ pc' = [pc EXCEPT ![c] = "inferring"]
          /\ UNCHANGED lru
  /\ batch' = NoBatch
  /\ UNCHANGED <<counted, text, before, cleared>>

\* The function of a miss has returned, without the lock of the cache: another thread
\* may have added the text meanwhile, which leaves the cache as it is.
Added(t) ==
  IF Contains(lru, t) THEN lru
  ELSE Append(IF Len(lru) >= cache_size THEN Tail(lru) ELSE lru, t)

Inferred(c) ==
  /\ pc[c] = "inferring"
  /\ lru' = Added(text[c])
  /\ pc' = [pc EXCEPT ![c] = "tracking"]
  /\ batch' = NoBatch
  /\ UNCHANGED <<lru_info, counted, text, before, was_hit, cleared>>

\* Inference raises ModelInferenceError: nothing is cached, nothing is counted.
InferenceFailed(c) ==
  /\ pc[c] = "inferring"
  /\ pc' = [pc EXCEPT ![c] = "idle"]
  /\ batch' = NoBatch
  /\ UNCHANGED <<lru, lru_info, counted, text, before, was_hit, cleared>>

\* mutant
HitSeenLater(c) == lru_info.hits > before[c] + 1

\* _track_cache_stats
HitSeen(c) == lru_info.hits > before[c]

\* The second cache_info, _track_cache_stats and _update_metrics.
Track(c) ==
  /\ pc[c] = "tracking"
  /\ counted' = [hits |-> counted.hits + (IF HitSeen(c) THEN 1 ELSE 0),
                 misses |-> counted.misses + (IF HitSeen(c) THEN 0 ELSE 1),
                 predictions |-> counted.predictions + 1]
  /\ pc' = [pc EXCEPT ![c] = "idle"]
  /\ was_hit' = was_hit \ {c}
  /\ batch' = NoBatch
  /\ UNCHANGED <<lru, lru_info, text, before, cleared>>

\* _preprocess_batch_texts: the positions of the texts that are not blank, from 1.
ValidIndices(ts) ==
  FoldLeft(LAMBDA valid, i : IF ts[i] = Blank THEN valid ELSE Append(valid, i), <<>>,
           [i \in DOMAIN ts |-> i])

ValidTexts(ts) == [k \in DOMAIN ValidIndices(ts) |-> Clean(ts[ValidIndices(ts)[k]])]

\* _build_batch_results: the next raw result for a valid position, a placeholder for
\* the others.  A result is named after the text it was inferred from.
BuildResults(ts, raw) ==
  [i \in DOMAIN ts |->
     IF Contains(ValidIndices(ts), i)
     THEN raw[Cardinality({j \in ToSet(ValidIndices(ts)) : j <= i})]
     ELSE <<"error">>]

\* predict_batch: past the cache; the model answers the valid texts in their order.
PredictBatch(ts) ==
  /\ counted.predictions < MaxPredictions
  /\ batch' = [texts |-> ts, results |-> BuildResults(ts, ValidTexts(ts))]
  /\ counted' = [counted EXCEPT !.predictions = @ + Len(ValidTexts(ts))]
  /\ UNCHANGED <<lru, lru_info, pc, text, before, was_hit, cleared>>

\* clear_cache: the statistics of the lru_cache start again from zero.
ClearCache ==
  /\ ~cleared
  /\ lru' = <<>> /\ lru_info' = [hits |-> 0, misses |-> 0]
  /\ cleared' = TRUE
  /\ batch' = NoBatch
  /\ UNCHANGED <<counted, pc, text, before, was_hit>>

Next ==
  \/ \E c \in Calls :
       \/ \E t \in Texts : Predict(c, t)
       \/ Look(c) \/ Inferred(c) \/ InferenceFailed(c) \/ Track(c)
  \/ \E ts \in SeqOf(Texts, MaxBatch) : PredictBatch(ts)
  \/ ClearCache

Spec == Init /\ [][Next]_vars

-----------------------------------------------------------------------------
(* Properties *)

\* A result of a batch belongs to the text of its position, wherever blank texts
\* stand, and is what a single prediction of that text infers (base.py:303-376).
BatchIsAligned ==
  /\ DOMAIN batch.results = DOMAIN batch.texts
  /\ \A i \in DOMAIN batch.texts :
       batch.results[i] = IF batch.texts[i] = Blank THEN <<"error">> ELSE Clean(batch.texts[i])

\* The cache is within its bound and holds no text twice, although misses of the
\* same text are inferred by several threads at once.
CacheIsBounded ==
  Len(lru) <= cache_size /\ Cardinality(ToSet(lru)) = Len(lru)

\* A hit is never reported as a miss while the cache is not cleared: other threads
\* only raise the counter between the two looks at it (base.py:136-156).
NoHitIsLost == ~cleared => \A c \in was_hit : pc[c] = "tracking" => HitSeen(c)

\* Batches answer position by position, the cache stays bounded and its hits count.
ModelIsSound == BatchIsAligned /\ CacheIsBounded /\ NoHitIsLost

\* base.py:145, "True if cache hit occurred, False otherwise.": not kept, a miss
\* that overlaps another thread's hit is counted as a hit (README, section 6).
HitMeansCached == \A c \in Calls : (pc[c] = "tracking" /\ HitSeen(c)) => c \in was_hit

==============================================================================
