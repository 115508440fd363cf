----------------------------- MODULE ResultCache -----------------------------
(***************************************************************************)
(* ResultCacheManager (services/result_cache_manager.py) as pure operators *)
(* on its state.                                                           *)
(*                                                                         *)
(* The dictionary _result_cache is the sequence of its keys, oldest        *)
(* cached_at first.  All entries have the same time to live, so the        *)
(* entries that are past it are a prefix: `stale` is its length.  Every    *)
(* method runs under an asyncio.Lock whose body never suspends: each is    *)
(* one step of the event loop.                                             *)
(*                                                                         *)
(* A definition marked "mutant" is a slip in the code the next one models. *)
(***************************************************************************)
EXTENDS Integers, Sequences

CONSTANT CacheMax      \* async_batch_result_cache_max_size

\* The setting is declared with ge=100.
ASSUME CacheMaxAssumption == CacheMax \in Nat \ {0}

Entries(c) == {c[i] : i \in 1..Len(c)}

\* _cleanup_expired_cache: the entries still within their time to live.
Unexpired(c, stale) == SubSeq(c, stale + 1, Len(c))

\* _enforce_cache_size_limit: room is made for one more entry, oldest first.
WithRoomOneLate(c) ==                                        \* mutant
  IF Len(c) <= CacheMax THEN c ELSE SubSeq(c, Len(c) - CacheMax + 2, Len(c))
WithRoom(c) ==
  IF Len(c) < CacheMax THEN c ELSE SubSeq(c, Len(c) - CacheMax + 2, Len(c))

\* cache_result: clean up, make room, then keep an entry that is already there.
CacheResult(c, stale, j) ==
  LET kept == WithRoom(Unexpired(c, stale)) IN
  IF j \in Entries(kept) THEN kept ELSE Append(kept, j)

\* get_cached_result deletes the entry it looks up when it is past its time
\* to live; i is the entry's position.
Without(c, i) == SubSeq(c, 1, i - 1) \o SubSeq(c, i + 1, Len(c))

==============================================================================
