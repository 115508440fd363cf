------------------------------ MODULE GpuBatches ------------------------------
(***************************************************************************)
(* GPUBatchOptimizer with several GPUs: the texts of a call are cut into   *)
(* batches, each is assigned to a GPU by the load balancing strategy, and  *)
(* the results are put together again.  A coroutine per batch runs without *)
(* an await; those of several calls interleave.                            *)
(***************************************************************************)
EXTENDS Naturals, Sequences, FiniteSets, SequencesExt, FiniteSetsExt

CONSTANTS
  Calls,
  MaxTexts,       \* bound: texts of a call
  gpu_count,
  batch_size, max_batch_size,
  Strategies      \* those a server may be set up with

GpuAssumption ==
  /\ {MaxTexts, gpu_count, batch_size, max_batch_size} \subseteq Nat \ {0}
  /\ gpu_count > 1
  /\ Strategies \subseteq {"round-robin", "least-loaded", "gpu-utilization-based"}
  /\ IsFiniteSet(Calls)

GPUs == 0 .. gpu_count - 1

VARIABLES
  strategy,     \* load_balancing_strategy, set once
  gpu_loads, current_gpu_index,
  texts,        \* of each call: how many, 0 before it
  batches,      \* of each call: [gpu, items] in their order, texts by number
  ended,        \* of each call: batches that have ended
  failed        \* calls whose gather raised

vars == <<strategy, gpu_loads, current_gpu_index, texts, batches, ended, failed>>

TypeOK ==
  /\ strategy \in Strategies
  /\ gpu_loads \in [GPUs -> Nat] /\ current_gpu_index \in GPUs
  /\ texts \in [Calls -> 0 .. MaxTexts]
  /\ \A c \in Calls : \A j \in DOMAIN batches[c] :
       batches[c][j].gpu \in GPUs /\ batches[c][j].items \in Seq(1 .. MaxTexts)
  /\ ended \in [Calls -> SUBSET (1 .. MaxTexts)] /\ failed \subseteq Calls

Init ==
  /\ strategy \in Strategies
  /\ gpu_loads = [g \in GPUs |-> 0]
  /\ current_gpu_index = 0
  /\ texts = [c \in Calls |-> 0]
  /\ batches = [c \in Calls |-> <<>>]
  /\ ended = [c \in Calls |-> {}]
  /\ failed = {}

Least(a, b) == IF a < b THEN a ELSE b
Greatest(a, b) == IF a > b THEN a ELSE b

\* get_optimal_batch_size with dynamic batching: free memory decides; without
\* CUDA the configured size.
OptimalSizes(n) ==
  {Least(b, n) : b \in {batch_size, Greatest(batch_size \div 2, 8),
                        Least(max_batch_size, (batch_size * 3) \div 2)}}

\* mutant
Overlapping(n, size) ==
  [j \in 1 .. (n + size - 1) \div size |->
     [i \in 1 .. Least(size + 1, n - (j - 1) * size) |-> (j - 1) * size + i]]

\* texts[i : i + batch_size] for every i
Slices(n, size) ==
  [j \in 1 .. (n + size - 1) \div size |->
     [i \in 1 .. Least(size, n - (j - 1) * size) |-> (j - 1) * size + i]]

\* Texts given to GPU g by the first k of the batches.
Given(g, gpus, slices, k) ==
  FoldFunctionOnSet(+, 0, [j \in 1 .. k |-> IF gpus[j] = g THEN Len(slices[j]) ELSE 0], 1 .. k)

\* _select_gpu for batch j, after those before it.  get_optimal_batch_size has
\* asked once before the first; the free memory is not known.
MayBeChosen(gpus, slices, j) ==
  CASE strategy = "round-robin"  -> gpus[j] = (current_gpu_index + j) % gpu_count
    [] strategy = "least-loaded" ->
         LET load(g) == gpu_loads[g] + Given(g, gpus, slices, j - 1)
         IN /\ \A g \in GPUs : load(gpus[j]) <= load(g)
            /\ \A g \in GPUs : g < gpus[j] => load(g) > load(gpus[j])
    [] OTHER -> TRUE

\* process_batch_parallel until its gather: distribute_batches.
Distribute(c, n, size) ==
  LET slices == Slices(n, size)
      k      == Len(slices)
  IN /\ texts[c] = 0
     /\ texts' = [texts EXCEPT ![c] = n]
     /\ \E gpus \in [1 .. k -> GPUs] :
          /\ \A j \in 1 .. k : MayBeChosen(gpus, slices, j)
          /\ batches' = [batches EXCEPT ![c] = [j \in 1 .. k |-> [gpu |-> gpus[j], items |-> slices[j]]]]
          /\ gpu_loads' = [g \in GPUs |-> gpu_loads[g] + Given(g, gpus, slices, k)]
     /\ current_gpu_index' = IF strategy = "round-robin" THEN (current_gpu_index + k + 1) % gpu_count
                             ELSE current_gpu_index
     /\ UNCHANGED <<strategy, ended, failed>>

Running(c) == DOMAIN batches[c] \ ended[c]

LoadAfter(b) == Greatest(0, gpu_loads[b.gpu] - Len(b.items))

\* process_batch on its GPU.
BatchSucceeds(c, j) ==
  /\ j \in Running(c)
  /\ ended' = [ended EXCEPT ![c] = @ \union {j}]
  /\ gpu_loads' = [gpu_loads EXCEPT ![batches[c][j].gpu] = LoadAfter(batches[c][j])]
  /\ UNCHANGED <<strategy, current_gpu_index, texts, batches, failed>>

\* The GPU raises: once more on the CPU, which answers or raises; the load of the
\* GPU is not touched.
BatchFallsBack(c, j) ==
  /\ j \in Running(c)
  /\ ended' = [ended EXCEPT ![c] = @ \union {j}]
  /\ failed' \in {failed, failed \union {c}}
  /\ UNCHANGED <<strategy, gpu_loads, current_gpu_index, texts, batches>>

Next ==
  \E c \in Calls :
    \/ \E n \in 1 .. MaxTexts : \E size \in OptimalSizes(n) : Distribute(c, n, size)
    \/ \E j \in 1 .. MaxTexts : BatchSucceeds(c, j) \/ BatchFallsBack(c, j)

Spec == Init /\ [][Next]_vars

-----------------------------------------------------------------------------
(* Properties *)

\* The flattened results of a call that has ended.
Results(c) == FlattenSeq([j \in DOMAIN batches[c] |-> batches[c][j].items])

\* Every text is answered once, in the order of the request, whichever batches
\* are slow, fall back or belong to other calls (gpu_batch_optimizer.py:299-306).
ResultsInOrder ==
  \A c \in Calls :
    (texts[c] > 0 /\ Running(c) = {} /\ c \notin failed) => Results(c) = [i \in 1 .. texts[c] |-> i]

InFlight(g) ==
  MapThenSumSet(LAMBDA c :
    MapThenSumSet(LAMBDA j : IF batches[c][j].gpu = g THEN Len(batches[c][j].items) ELSE 0, Running(c)),
    Calls)

\* The tracked load of a GPU never falls short of what it works on.
LoadCoversWork == \A g \in GPUs : gpu_loads[g] >= InFlight(g)

\* gpu_batch_optimizer.py:24 and 188, "Select GPU with lowest tracked load": with
\* nothing to do no GPU is loaded.
IdleIsUnloaded == (\A g \in GPUs : InFlight(g) = 0) => \A g \in GPUs : gpu_loads[g] = 0

\* Round robin spreads the batches of a call: no GPU gets two more than another.
SpreadEvenly ==
  strategy = "round-robin" =>
    \A c \in Calls, g, h \in GPUs :
      Cardinality({j \in DOMAIN batches[c] : batches[c][j].gpu = g})
        <= Cardinality({j \in DOMAIN batches[c] : batches[c][j].gpu = h}) + 1

\* Overlapping calls get their own answers, and no GPU's work is forgotten.
GpuCallsAreWhole == ResultsInOrder /\ LoadCoversWork /\ SpreadEvenly

==============================================================================
