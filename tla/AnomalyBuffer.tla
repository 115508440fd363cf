----------------------------- MODULE AnomalyBuffer -----------------------------
(***************************************************************************)
(* BoundedAnomalyBuffer: entries in the order of their arrival, with a     *)
(* time to live; the oldest goes when the buffer is full.  Every method    *)
(* holds the lock from its first look to its last write.                   *)
(***************************************************************************)
EXTENDS Naturals, Sequences, SequencesExt

CONSTANTS
  max_size,
  Ttls,          \* times to live given by callers
  default_ttl,
  NoTtl,         \* a caller that gives none
  MaxEntries,    \* bound
  MaxTime        \* bound

BufferAssumption ==
  /\ max_size \in Nat \ {0} /\ Ttls \subseteq Nat /\ default_ttl \in Nat
  /\ MaxEntries \in Nat /\ MaxTime \in Nat

VARIABLES
  buffer,      \* ids in insertion order; ids count the entries
  entries,     \* of every entry so far: when it was added, what it lives, what was asked
  now,
  served,      \* what the latest get or get_all returned, as a set of ids
  evicted      \* history: entries evicted for room

vars == <<buffer, entries, now, served, evicted>>

TypeOK ==
  /\ buffer \in Seq(DOMAIN entries)
  /\ Len(entries) <= MaxEntries
  /\ now \in 0 .. MaxTime
  /\ served \subseteq DOMAIN entries /\ evicted \subseteq DOMAIN entries

Init == buffer = <<>> /\ entries = <<>> /\ now = 0 /\ served = {} /\ evicted = {}

\* is_expired
Expired(id) == now - entries[id].timestamp > entries[id].ttl

\* The default of the dataclass, whatever the buffer's default_ttl is: 3600 s,
\* here the longest time there is.
EntryTtl(ttl) == IF ttl = NoTtl THEN MaxTime ELSE ttl

\* mutant
KeepsOldest == IF Len(buffer) >= max_size THEN Front(buffer) ELSE buffer

Room == IF Len(buffer) >= max_size THEN Tail(buffer) ELSE buffer

\* add
Add(ttl) ==
  /\ Len(entries) < MaxEntries
  /\ entries' = Append(entries, [timestamp |-> now, ttl |-> EntryTtl(ttl), asked |-> ttl])
  /\ buffer' = Append(Room, Len(entries'))
  /\ evicted' = evicted \union (ToSet(buffer) \ ToSet(Room))
  /\ UNCHANGED <<now, served>>

\* get: an expired entry is removed and not served.
Get(id) ==
  /\ \/ /\ Contains(buffer, id) /\ ~Expired(id)
        /\ served' = {id} /\ UNCHANGED buffer
     \/ /\ Expired(id)
        /\ \E k \in DOMAIN buffer : buffer[k] = id /\ buffer' = RemoveAt(buffer, k)
        /\ served' = {}
     \/ /\ ~Contains(buffer, id)
        /\ served' = {} /\ UNCHANGED buffer
  /\ UNCHANGED <<entries, now, evicted>>

\* mutant
Positions == [i \in DOMAIN buffer |-> i - 1]

\* get_all serves, cleanup_expired keeps what has not expired.
Live ==
  FoldLeft(LAMBDA live, e : IF Expired(e) THEN live ELSE Append(live, e), <<>>, buffer)

GetAll ==
  /\ served' = ToSet(Live)
  /\ UNCHANGED <<buffer, entries, now, evicted>>

CleanupExpired ==
  /\ buffer' = Live
  /\ UNCHANGED <<entries, now, served, evicted>>

Tick ==
  /\ now < MaxTime /\ now' = now + 1 /\ served' = {}
  /\ UNCHANGED <<buffer, entries, evicted>>

Next ==
  \/ \E ttl \in Ttls \union {NoTtl} : Add(ttl)
  \/ \E id \in 1 .. Len(entries) : Get(id)
  \/ GetAll \/ CleanupExpired \/ Tick

Spec == Init /\ [][Next]_vars

-----------------------------------------------------------------------------
(* Properties *)

\* The buffer holds at most max_size entries, oldest first and each once, also
\* after removals from its middle.
BoundedInOrder ==
  /\ Len(buffer) <= max_size
  /\ \A j, k \in DOMAIN buffer : j < k => buffer[j] < buffer[k]

\* An entry is lost before its time only to max_size later ones: the newest
\* entries survive whatever is looked up, expired and cleaned up around them.
NewestSurvive ==
  \A id \in DOMAIN entries :
    (id + max_size > Len(entries) /\ ~Expired(id)) => Contains(buffer, id)

\* Nothing expired is served.
NothingStaleServed == \A id \in served : now - entries[id].timestamp <= entries[id].ttl

\* Entries are kept in order while there is room and time, and not served after it.
EntriesAreKept == BoundedInOrder /\ NewestSurvive /\ NothingStaleServed

\* anomaly_buffer.py:85, "The default TTL in seconds for new entries.": an entry
\* added without a time to live gets the buffer's default.
DefaultApplies ==
  \A id \in DOMAIN entries : entries[id].asked = NoTtl => entries[id].ttl = default_ttl

==============================================================================
