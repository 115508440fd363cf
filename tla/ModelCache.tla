------------------------------- MODULE ModelCache -------------------------------
(***************************************************************************)
(* ModelPersistenceManager on a volume that the replicas share: a model is *)
(* copied, hashed and described in a metadata file, steps that a crash may *)
(* part and that other replicas may come between.  Each replica remembers  *)
(* the metadata it has seen.                                               *)
(***************************************************************************)
EXTENDS Naturals

CONSTANTS
  Replicas,    \* processes, each with one ModelPersistenceManager
  Dirs,        \* names of models made safe for the file system
  Contents,    \* contents of ONNX files; a hash is named after what was hashed
  MaxCaches,   \* bound: calls of cache_onnx_model
  Partial,     \* the content of a model file that is being written, or was cut short
  Nothing,     \* the hash of a directory without a model file
  Torn,        \* the content of a metadata file that was opened and not written
  None

CacheAssumption ==
  /\ MaxCaches \in Nat /\ None \notin Dirs
  /\ {Partial, Nothing, Torn, None} \intersect Contents = {}
  /\ Partial # Nothing /\ Torn \notin {Partial, Nothing} /\ None \notin {Partial, Nothing, Torn}

VARIABLES
  model,        \* per directory, the content of model_optimized.onnx, or None without one
  directory,    \* directories that exist
  metadata,     \* per directory, the hash in the metadata file, Torn, or None without one
  memory,       \* _metadata_cache: per replica and directory, a hash or None
  pc,           \* of each replica: idle, or a step of Steps
  at,           \* the directory each replica works on, or None
  content,      \* what each replica caches, or the hash it has computed or read, or None
  caches,       \* calls of cache_onnx_model so far
  \* history
  overlapped,   \* replicas whose latest write another one came between
  mixed,        \* directories that two replicas have written at a time
  clean,        \* directories whose last writer was alone and finished
  loaded        \* of each replica, the content of the session it loaded last, or None

vars ==
  <<model, directory, metadata, memory, pc, at, content, caches, overlapped, mixed, clean, loaded>>

File == Contents \union {Partial, None}
Hashes == Contents \union {Partial, Nothing}
Writes == {"preparing", "copying", "hashing", "describing", "dumping", "removing"}
Steps == Writes \union {"idle", "validating", "opening"}

TypeOK ==
  /\ model \in [Dirs -> File] /\ directory \subseteq Dirs
  /\ metadata \in [Dirs -> Hashes \union {Torn, None}]
  /\ \A d \in Dirs : model[d] # None => d \in directory
  /\ memory \in [Replicas -> [Dirs -> Hashes \union {None}]]
  /\ pc \in [Replicas -> Steps]
  /\ at \in [Replicas -> Dirs \union {None}] /\ content \in [Replicas -> Hashes \union {None}]
  /\ \A p \in Replicas : (at[p] = None) = (pc[p] = "idle")
  /\ caches \in 0 .. MaxCaches
  /\ overlapped \subseteq Replicas /\ mixed \subseteq Dirs /\ clean \subseteq Dirs
  /\ loaded \in [Replicas -> Contents \union {None}]

Init ==
  /\ model = [d \in Dirs |-> None] /\ directory = {} /\ metadata = [d \in Dirs |-> None]
  /\ memory = [p \in Replicas |-> [d \in Dirs |-> None]]
  /\ pc = [p \in Replicas |-> "idle"]
  /\ at = [p \in Replicas |-> None]
  /\ content = [p \in Replicas |-> None]
  /\ caches = 0 /\ overlapped = {} /\ mixed = {} /\ clean = {}
  /\ loaded = [p \in Replicas |-> None]

Goes(p, step, d, c) ==
  pc' = [pc EXCEPT ![p] = step] /\ at' = [at EXCEPT ![p] = d] /\ content' = [content EXCEPT ![p] = c]

Writing(p) == pc[p] \in Writes

\* p begins to write d, where others may be writing.
Begins(p, d) ==
  LET others == {q \in Replicas \ {p} : Writing(q) /\ at[q] = d}
  IN /\ overlapped' = (overlapped \ {p}) \union (IF others = {} THEN {} ELSE others \union {p})
     /\ mixed' = IF others = {} THEN mixed ELSE mixed \union {d}
     /\ clean' = clean \ {d}

\* p returns, or raises.
Ends(p) == Goes(p, "idle", None, None)

-----------------------------------------------------------------------------
(* cache_onnx_model *)

Cache(p, d, c) ==
  /\ pc[p] = "idle" /\ caches < MaxCaches
  /\ directory' = directory \union {d}
  /\ Begins(p, d)
  /\ caches' = caches + 1
  /\ Goes(p, "preparing", d, c)
  /\ UNCHANGED <<model, metadata, memory, loaded>>

\* The model file is begun, unless the source is none of ONNX or the directory has gone.
Create(p) ==
  /\ pc[p] = "preparing"
  /\ \/ /\ at[p] \in directory
        /\ model' = [model EXCEPT ![at[p]] = Partial]
        /\ Goes(p, "copying", at[p], content[p])
     \/ Ends(p) /\ UNCHANGED model
  /\ UNCHANGED <<directory, metadata, memory, caches, overlapped, mixed, clean, loaded>>

\* The model file and the tokenizer are complete, or the call fails: the disk is full,
\* the directory has gone.
Copy(p) ==
  /\ pc[p] = "copying"
  /\ \/ /\ at[p] \in directory
        /\ model' = [model EXCEPT ![at[p]] = content[p]]
        /\ Goes(p, "hashing", at[p], None)
     \/ Ends(p) /\ UNCHANGED model
  /\ UNCHANGED <<directory, metadata, memory, caches, overlapped, mixed, clean, loaded>>

\* mutant
HashOfMetadata(d) == metadata[d]

\* _compute_model_hash: of the files that are in the directory now.
HashOf(d) == IF model[d] = None THEN Nothing ELSE model[d]

Hash(p) ==
  /\ pc[p] = "hashing"
  /\ Goes(p, "describing", at[p], HashOf(at[p]))
  /\ UNCHANGED <<model, directory, metadata, memory, caches, overlapped, mixed, clean, loaded>>

\* The size of the model file is asked, which raises if it has gone, and the metadata
\* file is opened, which empties it.
Describe(p) ==
  /\ pc[p] = "describing"
  /\ IF model[at[p]] = None THEN Ends(p) /\ UNCHANGED metadata
     ELSE Goes(p, "dumping", at[p], content[p]) /\ metadata' = [metadata EXCEPT ![at[p]] = Torn]
  /\ UNCHANGED <<model, directory, memory, caches, overlapped, mixed, clean, loaded>>

\* The metadata is written, to a file that a replica which came between may have removed
\* or opened again; then this replica remembers it.  Or the disk is full.
Dump(p) ==
  /\ pc[p] = "dumping"
  /\ \/ /\ \/ metadata' = [metadata EXCEPT ![at[p]] = content[p]]
           \/ p \in overlapped /\ UNCHANGED metadata
        /\ memory' = [memory EXCEPT ![p][at[p]] = content[p]]
        /\ clean' = IF p \notin overlapped THEN clean \union {at[p]} ELSE clean
     \/ UNCHANGED <<metadata, memory, clean>>
  /\ Ends(p)
  /\ UNCHANGED <<model, directory, caches, overlapped, mixed, loaded>>

-----------------------------------------------------------------------------
(* load_onnx_session_fast *)

\* get_model_metadata: the memory first, then the file, if it can be parsed.
Known(p, d) ==
  IF memory[p][d] # None THEN memory[p][d]
  ELSE IF metadata[d] \in Hashes THEN metadata[d] ELSE None

\* Without a directory or metadata the load fails.
Load(p, d) ==
  /\ pc[p] = "idle"
  /\ d \in directory
  /\ memory' = [memory EXCEPT ![p][d] = Known(p, d)]
  /\ IF Known(p, d) = None THEN UNCHANGED <<pc, at, content>>
     ELSE Goes(p, "validating", d, Known(p, d))
  /\ UNCHANGED <<model, directory, metadata, caches, overlapped, mixed, clean, loaded>>

\* A hash that differs is a warning, after which there is no hash to keep (None).
Validate(p) ==
  /\ pc[p] = "validating"
  /\ Goes(p, "opening", at[p], IF HashOf(at[p]) = content[p] THEN content[p] ELSE None)
  /\ UNCHANGED <<model, directory, metadata, memory, caches, overlapped, mixed, clean, loaded>>

\* The ONNX runtime refuses a file that is not there or not whole.
Open(p) ==
  /\ pc[p] = "opening"
  /\ loaded' = [loaded EXCEPT ![p] = IF model[at[p]] \in Contents THEN model[at[p]] ELSE @]
  /\ Ends(p)
  /\ UNCHANGED <<model, directory, metadata, memory, caches, overlapped, mixed, clean>>

-----------------------------------------------------------------------------
(* invalidate_cache, clear_cache and crashes *)

\* invalidate_cache removes the directory, or fails when a file of it is gone, ...
Remove(p, d) ==
  /\ pc[p] = "idle"
  /\ model' = [model EXCEPT ![d] = None]
  /\ Begins(p, d)
  /\ \/ directory' = directory \ {d} /\ Goes(p, "removing", d, None)
     \/ Ends(p) /\ UNCHANGED directory
  /\ UNCHANGED <<metadata, memory, caches, loaded>>

\* ... then the metadata, on disk and in its own memory.
Forget(p) ==
  /\ pc[p] = "removing"
  /\ metadata' = [metadata EXCEPT ![at[p]] = None]
  /\ memory' = [memory EXCEPT ![p][at[p]] = None]
  /\ Ends(p)
  /\ UNCHANGED <<model, directory, caches, overlapped, mixed, clean, loaded>>

\* A replica ends, within any call, and another takes its place with an empty memory.
Crash(p) ==
  /\ Ends(p)
  /\ memory' = [memory EXCEPT ![p] = [d \in Dirs |-> None]]
  /\ loaded' = [loaded EXCEPT ![p] = None]
  /\ UNCHANGED <<model, directory, metadata, caches, overlapped, mixed, clean>>

Next ==
  \E p \in Replicas :
    \/ \E d \in Dirs : (\E c \in Contents : Cache(p, d, c)) \/ Load(p, d) \/ Remove(p, d)
    \/ Create(p) \/ Copy(p) \/ Hash(p) \/ Describe(p) \/ Dump(p)
    \/ Validate(p) \/ Open(p) \/ Forget(p) \/ Crash(p)

Spec == Init /\ [][Next]_vars

-----------------------------------------------------------------------------
(* Properties *)

\* is_model_cached, and whether a load by p would go without a warning.
IsModelCached(d) == d \in directory /\ metadata[d] # None
LoadsSilently(p, d) == d \in directory /\ Known(p, d) # None /\ HashOf(d) = Known(p, d)

\* Whatever crashed or overlapped before, a cache_onnx_model that ran alone leaves a
\* whole model and the metadata of it, and every replica that remembers nothing else
\* loads it without a warning (persistence.py:131-201).
RecachingRepairs ==
  \A d \in clean :
    /\ IsModelCached(d) /\ model[d] \in Contents /\ metadata[d] = model[d]
    /\ \A p \in Replicas : memory[p][d] \in {None, model[d]} => LoadsSilently(p, d)

\* While no two replicas have written a directory at a time, a load of it that gives no
\* warning has hashed a whole model: crashes at any step, failed copies and stale
\* memories are all warned of (persistence.py:258-264, 180-201).
SilentLoadsAreWhole ==
  \A p \in Replicas :
    (pc[p] = "opening" /\ content[p] # None /\ at[p] \notin mixed) => content[p] \in Contents

\* Crashes and overlaps are repaired by caching again, and silent loads are of whole models.
CachedModelsAreSound == RecachingRepairs /\ SilentLoadsAreWhole

\* persistence.py:348, "True if the model is cached, False otherwise.": also true of a
\* directory whose copying was cut short, or whose metadata was (README, section 6).
CachedIsWhole == \A d \in Dirs : IsModelCached(d) => model[d] \in Contents /\ metadata[d] # Torn

\* persistence.py:258, "Validate cache integrity": what is opened may yet be another
\* model than the one that was hashed, or a part of it (README, section 6).
OpenedIsHashed ==
  \A p \in Replicas : (pc[p] = "opening" /\ content[p] # None) => model[at[p]] = content[p]

==============================================================================
