------------------------------ MODULE ModelFactory ------------------------------
(***************************************************************************)
(* ModelFactory and the singletons behind it, asked for models by requests *)
(* in several threads: each level looks into its dictionary, builds, and   *)
(* writes, without a lock.  The warm-up, the shadow mode and reset_models  *)
(* use the same dictionaries.                                              *)
(***************************************************************************)
EXTENDS Naturals, FiniteSets, SequencesExt

CONSTANTS
  Calls,        \* threads that call create_model
  Names,        \* spellings of backends, e.g. "onnx" and "ONNX"
  BackendOf,    \* the backend a spelling stands for when it is lowered, or None
  Loadable,     \* backends whose libraries and model files are there
  MaxInstances, \* bound: models built
  Resets,       \* bound: calls of reset_models
  None

KnownBackends == {BackendOf[n] : n \in Names} \ {None}

FactoryAssumption ==
  /\ DOMAIN BackendOf = Names /\ Loadable \subseteq KnownBackends
  /\ MaxInstances \in Nat /\ Resets \in Nat
  /\ IsFiniteSet(Calls) /\ None \notin Nat

VARIABLES
  model_cache,  \* per spelling (the key is not lowered), the instance or None
  singleton,    \* per backend, the instance of its module or None
  built,        \* instances built, by number: their backend
  pc,           \* of each thread: idle, looking, building, storing, reading, returning, refused
  asked,        \* the spelling each thread asked for
  holds,        \* the instance each thread has, or None
  resets,
  \* history
  returned      \* of each thread, the instance create_model last returned

vars == <<model_cache, singleton, built, pc, asked, holds, resets, returned>>

Instances == 1 .. MaxInstances

TypeOK ==
  /\ model_cache \in [Names -> Instances \union {None}]
  /\ singleton \in [KnownBackends -> Instances \union {None}]
  /\ DOMAIN built \subseteq Instances
  /\ pc \in [Calls ->
       {"idle", "looking", "building", "storing", "reading", "returning", "refused"}]
  /\ asked \in [Calls -> Names \union {None}]
  /\ holds \in [Calls -> Instances \union {None}]
  /\ resets \in 0 .. Resets
  /\ returned \in [Calls -> Instances \union {None}]

Init ==
  /\ model_cache = [n \in Names |-> None]
  /\ singleton = [b \in KnownBackends |-> None]
  /\ built = <<>>
  /\ pc = [c \in Calls |-> "idle"]
  /\ asked = [c \in Calls |-> None]
  /\ holds = [c \in Calls |-> None]
  /\ resets = 0
  /\ returned = [c \in Calls |-> None]

\* create_model up to the call of the backend's module: a cached instance is returned,
\* an unknown backend refused.
Create(c, n) ==
  /\ pc[c] \in {"idle", "refused"}
  /\ asked' = [asked EXCEPT ![c] = n]
  /\ IF model_cache[n] # None
     THEN /\ returned' = [returned EXCEPT ![c] = model_cache[n]]
          /\ UNCHANGED pc
     ELSE /\ pc' = [pc EXCEPT ![c] = IF BackendOf[n] = None THEN "refused" ELSE "looking"]
          /\ UNCHANGED returned
  /\ UNCHANGED <<model_cache, singleton, built, holds, resets>>

Backend(c) == BackendOf[asked[c]]

\* get_..._analyzer looks for the instance of its module.
LookForSingleton(c) ==
  /\ pc[c] = "looking"
  /\ pc' = [pc EXCEPT ![c] = IF singleton[Backend(c)] # None THEN "reading" ELSE "building"]
  /\ UNCHANGED <<model_cache, singleton, built, asked, holds, resets, returned>>

\* The constructor loads the model; files or libraries that are missing raise, which
\* create_model turns into ModelInitializationError.
Build(c) ==
  /\ pc[c] = "building"
  /\ IF Backend(c) \notin Loadable
     THEN pc' = [pc EXCEPT ![c] = "refused"] /\ UNCHANGED <<built, holds>>
     ELSE /\ Cardinality(DOMAIN built) < MaxInstances
          /\ built' = [i \in DOMAIN built \union {Cardinality(DOMAIN built) + 1} |->
                         IF i \in DOMAIN built THEN built[i] ELSE Backend(c)]
          /\ holds' = [holds EXCEPT ![c] = Cardinality(DOMAIN built) + 1]
          /\ pc' = [pc EXCEPT ![c] = "storing"]
  /\ UNCHANGED <<model_cache, singleton, asked, resets, returned>>

\* The module keeps the new instance, over whatever another thread kept.
KeepSingleton(c) ==
  /\ pc[c] = "storing"
  /\ singleton' = [singleton EXCEPT ![Backend(c)] = holds[c]]
  /\ pc' = [pc EXCEPT ![c] = "reading"]
  /\ UNCHANGED <<model_cache, built, asked, holds, resets, returned>>

\* The module returns what it keeps by then, another thread's instance perhaps.
ReadSingleton(c) ==
  /\ pc[c] = "reading"
  /\ holds' = [holds EXCEPT ![c] = singleton[Backend(c)]]
  /\ pc' = [pc EXCEPT ![c] = "returning"]
  /\ UNCHANGED <<model_cache, singleton, built, asked, resets, returned>>

\* mutant
KeyOfDefault(c) == CHOOSE n \in Names : TRUE

\* The key create_model keeps the instance under: the spelling it was asked for.
CacheKey(c) == asked[c]

\* create_model keeps what it got and returns it.
Return(c) ==
  /\ pc[c] = "returning"
  /\ model_cache' = [model_cache EXCEPT ![CacheKey(c)] = holds[c]]
  /\ returned' = [returned EXCEPT ![c] = holds[c]]
  /\ holds' = [holds EXCEPT ![c] = None]
  /\ pc' = [pc EXCEPT ![c] = "idle"]
  /\ UNCHANGED <<singleton, built, asked, resets>>

\* reset_models, which isolates tests from each other: nobody is in create_model.
Reset ==
  /\ \A c \in Calls : pc[c] \in {"idle", "refused"}
  /\ resets < Resets /\ resets' = resets + 1
  /\ model_cache' = [n \in Names |-> None]
  /\ singleton' = [b \in KnownBackends |-> None]
  /\ UNCHANGED <<built, pc, asked, holds, returned>>

Next ==
  \/ \E c \in Calls :
       \/ \E n \in Names : Create(c, n)
       \/ LookForSingleton(c) \/ Build(c) \/ KeepSingleton(c) \/ ReadSingleton(c) \/ Return(c)
  \/ Reset

Spec == Init /\ [][Next]_vars

-----------------------------------------------------------------------------
(* Files of an ONNX model directory *)

Priority == <<"model.quantized.onnx", "model_quantized.onnx", "model_optimized.onnx", "model.onnx">>

\* _find_best_model_file: the first of the list that exists, else any other .onnx file.
BestFile(files) ==
  LET known == {k \in DOMAIN Priority : Priority[k] \in files}
  IN IF known # {} THEN Priority[CHOOSE k \in known : \A j \in known : k <= j]
     ELSE IF files # {} THEN CHOOSE f \in files : TRUE ELSE None

-----------------------------------------------------------------------------
(* Properties *)

\* What create_model returns and keeps is of the backend that was asked for,
\* although threads overwrite each other's instances and resets come between.
RightBackend ==
  /\ \A c \in Calls : holds[c] # None => built[holds[c]] = Backend(c)
  /\ \A n \in Names : model_cache[n] # None => built[model_cache[n]] = BackendOf[n]
  /\ \A b \in KnownBackends : singleton[b] # None => built[singleton[b]] = b

\* Threads that race build at most one instance of a backend each, between two resets,
\* however many spellings of it are asked for (factory.py:57-91).
FewInstances ==
  \A b \in KnownBackends :
    Cardinality({i \in DOMAIN built : built[i] = b}) <= Cardinality(Calls) * (resets + 1)

\* A quantized file is loaded whenever there is one (evaluated for all directories).
QuantizedFirst ==
  \A files \in SUBSET (ToSet(Priority) \union {"other.onnx"}) :
    files \intersect {Priority[1], Priority[2]} # {} => BestFile(files) \in {Priority[1], Priority[2]}

\* Threads get the right model and races cost at most one model a thread.
ModelsAreShared == RightBackend /\ FewInstances

\* factory.py:34-35, "It uses a cache to ensure that each backend is instantiated
\* only once (singleton pattern)": not kept by threads (README, section 6).
BuiltOnce ==
  resets = 0 => \A b \in KnownBackends : Cardinality({i \in DOMAIN built : built[i] = b}) <= 1

==============================================================================
