------------------------------- MODULE Predictions -------------------------------
(***************************************************************************)
(* POST /predict: the dependencies choose a backend and a cache, a worker  *)
(* thread runs PredictionService.predict (look up, infer, store), and the  *)
(* route adds the backend and builds the response.  Redis may go away and  *)
(* come back between any two steps; the client swallows its errors.        *)
(***************************************************************************)
EXTENDS Naturals, Sequences, FiniteSets, SequencesExt

CONSTANTS
  Calls,           \* requests
  Texts,           \* stripped texts that are not blank
  TooLong,         \* those longer than max_text_length
  Backends,        \* backends that can be asked for
  Ready,           \* those whose model is loaded
  WholeResults,    \* those whose results carry text_length and model_name
  default_backend, \* without the query parameter
  redis_enabled,
  Outages,         \* bound: how often Redis goes away
  None

PredictionAssumption ==
  /\ TooLong \subseteq Texts /\ Ready \subseteq Backends /\ WholeResults \subseteq Backends
  /\ default_backend \in Backends /\ redis_enabled \in BOOLEAN /\ Outages \in Nat
  /\ None \notin Texts \union Backends \union [by : Backends, cached : BOOLEAN]

VARIABLES
  reachable,    \* Redis answers
  outages,      \* how often it went away
  client,       \* _cache_instance has been created
  redis,        \* per cache key, the backend that computed the stored result, or None
  request,      \* of each call: [text, backend, cache] once asked
  pc,           \* idle, looking, inferring, storing, answering or done
  result,       \* of each call: [by, cached] or None
  status,       \* of each call: 0, 200, 503 or 500
  streamed      \* calls whose prediction went to the data lake and the shadow model

vars == <<reachable, outages, client, redis, request, pc, result, status, streamed>>

\* _cache_key and _make_key: the model NAME of the settings and the text; the name is
\* the same for every backend.
Key(text, backend) == text

Keys == {Key(t, b) : t \in Texts, b \in Backends}
NoRequest == [text |-> None, backend |-> None, cache |-> FALSE]

TypeOK ==
  /\ reachable \in BOOLEAN /\ outages \in 0 .. Outages /\ client \in BOOLEAN
  /\ redis \in [Keys -> Backends \union {None}]
  /\ request \in [Calls -> [text : Texts, backend : Backends, cache : BOOLEAN] \union {NoRequest}]
  /\ pc \in [Calls -> {"idle", "looking", "inferring", "storing", "answering", "done"}]
  /\ \A c \in Calls : result[c] = None \/ result[c] \in [by : Backends, cached : BOOLEAN]
  /\ status \in [Calls -> {0, 200, 500, 503}]
  /\ streamed \subseteq Calls

Init ==
  /\ reachable = TRUE /\ outages = 0 /\ client = FALSE
  /\ redis = [k \in Keys |-> None]
  /\ request = [c \in Calls |-> NoRequest]
  /\ pc = [c \in Calls |-> "idle"]
  /\ result = [c \in Calls |-> None]
  /\ status = [c \in Calls |-> 0]
  /\ streamed = {}

\* get_model_backend
BackendFor(asked) == IF asked = None THEN default_backend ELSE asked

\* get_prediction_cache and get_redis_cache: the client is made once, when Redis
\* answers its ping; before that every failure means no cache for the request.
Connects == redis_enabled /\ (client \/ reachable)

\* The dependencies and the checks at the head of predict: a text that is too long is
\* answered 500 by the route, a model that is not ready 503.
Ask(c, text, asked) ==
  LET b == BackendFor(asked) IN
  /\ pc[c] = "idle"
  /\ client' = Connects
  /\ request' = [request EXCEPT ![c] = [text |-> text, backend |-> b, cache |-> Connects]]
  /\ IF text \in TooLong \/ b \notin Ready
     THEN /\ status' = [status EXCEPT ![c] = IF text \in TooLong THEN 500 ELSE 503]
          /\ pc' = [pc EXCEPT ![c] = "done"]
     ELSE /\ pc' = [pc EXCEPT ![c] = IF Connects THEN "looking" ELSE "inferring"]
          /\ UNCHANGED status
  /\ UNCHANGED <<reachable, outages, redis, result, streamed>>

KeyOf(c) == Key(request[c].text, request[c].backend)

\* RedisCacheClient.get: None without Redis and without the key.
Get(c) == IF reachable THEN redis[KeyOf(c)] ELSE None

LookUp(c) ==
  /\ pc[c] = "looking"
  /\ IF Get(c) # None
     THEN /\ result' = [result EXCEPT ![c] = [by |-> Get(c), cached |-> TRUE]]
          /\ pc' = [pc EXCEPT ![c] = "answering"]
     ELSE pc' = [pc EXCEPT ![c] = "inferring"] /\ UNCHANGED result
  /\ UNCHANGED <<reachable, outages, client, redis, request, status, streamed>>

\* model.predict and the optional features.
Infer(c) ==
  /\ pc[c] = "inferring"
  /\ result' = [result EXCEPT ![c] = [by |-> request[c].backend, cached |-> FALSE]]
  /\ pc' = [pc EXCEPT ![c] = IF request[c].cache THEN "storing" ELSE "answering"]
  /\ UNCHANGED <<reachable, outages, client, redis, request, status, streamed>>

\* model.predict raises ModelInferenceError, which the route answers 500.
InferFails(c) ==
  /\ pc[c] = "inferring"
  /\ status' = [status EXCEPT ![c] = 500]
  /\ pc' = [pc EXCEPT ![c] = "done"]
  /\ UNCHANGED <<reachable, outages, client, redis, request, result, streamed>>

\* mutant
AfterFailedSet == "done"

\* What follows a set that failed: its False is not looked at.
AfterSet == "answering"

\* RedisCacheClient.set
Store(c) ==
  /\ pc[c] = "storing"
  /\ redis' = IF reachable THEN [redis EXCEPT ![KeyOf(c)] = result[c].by] ELSE redis
  /\ pc' = [pc EXCEPT ![c] = IF reachable THEN "answering" ELSE AfterSet]
  /\ UNCHANGED <<reachable, outages, client, request, result, status, streamed>>

\* The route after predict: a result without text_length and model_name cannot be
\* recorded or answered and becomes 500.
Answer(c) ==
  /\ pc[c] = "answering"
  /\ IF result[c].by \in WholeResults
     THEN status' = [status EXCEPT ![c] = 200] /\ streamed' = streamed \union {c}
     ELSE status' = [status EXCEPT ![c] = 500] /\ UNCHANGED streamed
  /\ pc' = [pc EXCEPT ![c] = "done"]
  /\ UNCHANGED <<reachable, outages, client, redis, request, result>>

\* The environment: Redis goes away, comes back, and drops a key after its TTL.
GoAway ==
  /\ reachable /\ outages < Outages
  /\ reachable' = FALSE /\ outages' = outages + 1
  /\ UNCHANGED <<client, redis, request, pc, result, status, streamed>>

ComeBack ==
  /\ ~reachable /\ reachable' = TRUE
  /\ UNCHANGED <<outages, client, redis, request, pc, result, status, streamed>>

Expire(k) ==
  /\ redis[k] # None
  /\ redis' = [redis EXCEPT ![k] = None]
  /\ UNCHANGED <<reachable, outages, client, request, pc, result, status, streamed>>

Next ==
  \/ \E c \in Calls :
       \/ \E text \in Texts, asked \in Backends \union {None} : Ask(c, text, asked)
       \/ LookUp(c) \/ Infer(c) \/ InferFails(c) \/ Store(c) \/ Answer(c)
  \/ GoAway \/ ComeBack \/ \E k \in Keys : Expire(k)

Spec == Init /\ [][Next]_vars

-----------------------------------------------------------------------------
(* PredictionService.predict_batch *)

\* The model is asked for the valid texts, None marks the others.
ValidTexts(ts) == [i \in DOMAIN ts |-> IF ts[i] \in TooLong \union {None} THEN None ELSE ts[i]]

\* Its results, one for each text it was given, go to the places of the valid texts.
PredictBatch(ts, results) ==
  [i \in DOMAIN ts |->
     IF ValidTexts(ts)[i] = None THEN "Invalid input"
     ELSE results[Cardinality({j \in 1 .. i : ValidTexts(ts)[j] # None})]]

ValidPlaces(ts) ==
  FoldLeft(LAMBDA places, i : IF ValidTexts(ts)[i] = None THEN places ELSE Append(places, i),
           <<>>, [i \in DOMAIN ts |-> i])

\* The texts that the model is asked for, in their order.
Valid(ts) == [k \in DOMAIN ValidPlaces(ts) |-> ts[ValidPlaces(ts)[k]]]

-----------------------------------------------------------------------------
(* Properties *)

\* dependencies.py:103-105: Redis, coming and going between any two steps, never
\* fails a request: whoever has a result from a backend that gives whole ones gets
\* it, and only results that exist are answered or streamed.
OutagesCostNothing ==
  \A c \in Calls :
    /\ status[c] = 200 => c \in streamed /\ result[c] # None
    /\ (pc[c] = "done" /\ result[c] # None)
         => status[c] = (IF result[c].by \in WholeResults THEN 200 ELSE 500)

\* Every text of a batch is answered in its place, the invalid ones by an error
\* (evaluated for all batches of up to three texts, and proved for all batches).
KeepsPlaces(ts) ==
  \A i \in DOMAIN ts :
    PredictBatch(ts, Valid(ts))[i] = (IF ValidTexts(ts)[i] = None THEN "Invalid input" ELSE ts[i])

BatchKeepsPlaces == \A ts \in SeqOf(Texts \union {None}, 3) : KeepsPlaces(ts)

\* prediction.py:66-67, "Includes the model backend name so switching backends (e.g.
\* mock -> onnx) can't serve a stale prediction from a different model."
AnswerIsFromBackend ==
  \A c \in Calls : status[c] = 200 => result[c].by = request[c].backend

==============================================================================
