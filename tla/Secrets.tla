-------------------------------- MODULE Secrets --------------------------------
(***************************************************************************)
(* The secrets of one process: VaultSecretManager reads them through a     *)
(* cache that several threads share, while set_secret, other processes and *)
(* operators rotate them.                                                  *)
(***************************************************************************)
EXTENDS Naturals, Sequences

CONSTANTS
  Keys,       \* names of secrets
  Readers,    \* threads that get and set secrets
  cache_ttl,  \* ticks a cached secret is used
  MaxTime,    \* bound: ticks of the clock
  MaxVersion, \* bound: values a secret takes, 1 the first
  None

SecretsAssumption ==
  /\ cache_ttl \in Nat \ {0} /\ MaxTime \in Nat /\ MaxVersion \in Nat \ {0}
  /\ None \notin Keys \union Nat \union [value : Nat, at : Nat, since : Nat]

VARIABLES
  usable,     \* Vault is reachable and unsealed, and our token is valid
  value,      \* per secret, its version in Vault
  cache,      \* per secret, [value, at] or None, and since when it is known (history)
  pc,         \* of each thread: idle, found, checking, reading, storing, written, invalidating
  key,        \* the secret each thread is about, or None
  got,        \* what each thread has read and neither returned nor stored, or None
  now,
  \* history
  replaced,   \* per secret, when each of its versions was replaced
  late,       \* of each thread, how late its latest answer was (Lateness)
  settled     \* per secret, a version that no cached one should fall behind

vars == <<usable, value, cache, pc, key, got, now, replaced, late, settled>>

Versions == 1 .. MaxVersion
Times == 0 .. MaxTime
Entries == [value : Versions, at : Times, since : Times]
Steps == {"idle", "found", "checking", "reading", "storing", "written", "invalidating"}

TypeOK ==
  /\ usable \in BOOLEAN
  /\ value \in [Keys -> Versions]
  /\ cache \in [Keys -> Entries \union {None}]
  /\ pc \in [Readers -> Steps]
  /\ key \in [Readers -> Keys \union {None}] /\ got \in [Readers -> Entries \union {None}]
  /\ \A r \in Readers :
       /\ (key[r] = None) = (pc[r] = "idle")
       /\ (got[r] # None) = (pc[r] \in {"checking", "storing"})
  /\ now \in Times

Init ==
  /\ usable = TRUE
  /\ value = [k \in Keys |-> 1]
  /\ cache = [k \in Keys |-> None]
  /\ pc = [r \in Readers |-> "idle"]
  /\ key = [r \in Readers |-> None]
  /\ got = [r \in Readers |-> None]
  /\ now = 0
  /\ replaced = [k \in Keys |-> <<>>]
  /\ late = [r \in Readers |-> 0]
  /\ settled = [k \in Keys |-> 0]

\* How long ago the value of entry e was replaced, 0 while it is current, not counting
\* the time that passed from the answer of Vault until the thread stored it.
Lateness(k, e) ==
  (IF e.value = value[k] THEN 0 ELSE now - replaced[k][e.value]) - (e.at - e.since)

Becomes(r, step, k) == pc' = [pc EXCEPT ![r] = step] /\ key' = [key EXCEPT ![r] = k]

\* get_secret asks the cache for the key.
Get(r, k) ==
  /\ pc[r] = "idle"
  /\ Becomes(r, IF cache[k] = None THEN "reading" ELSE "found", k)
  /\ UNCHANGED <<usable, value, cache, got, now, replaced, late, settled>>

\* It takes the entry; if another thread has dropped it since, KeyError leaves get_secret.
Take(r) ==
  /\ pc[r] = "found"
  /\ IF cache[key[r]] = None
     THEN Becomes(r, "idle", None) /\ UNCHANGED got
     ELSE Becomes(r, "checking", key[r]) /\ got' = [got EXCEPT ![r] = cache[key[r]]]
  /\ UNCHANGED <<usable, value, cache, now, replaced, late, settled>>

\* It reads the clock: an entry that has not expired answers.
Check(r) ==
  /\ pc[r] = "checking"
  /\ got' = [got EXCEPT ![r] = None]
  /\ IF now - got[r].at < cache_ttl
     THEN late' = [late EXCEPT ![r] = Lateness(key[r], got[r])] /\ Becomes(r, "idle", None)
     ELSE Becomes(r, "reading", key[r]) /\ UNCHANGED late
  /\ UNCHANGED <<usable, value, cache, now, replaced, settled>>

\* Vault answers, or the default is returned: an expired entry is not fallen back on.
Fetch(r) ==
  /\ pc[r] = "reading"
  /\ IF usable
     THEN /\ got' = [got EXCEPT ![r] = [value |-> value[key[r]], at |-> now, since |-> now]]
          /\ Becomes(r, "storing", key[r])
     ELSE Becomes(r, "idle", None) /\ UNCHANGED got
  /\ UNCHANGED <<usable, value, cache, now, replaced, late, settled>>

\* The thread stores it, however long after the answer, with the time at which it does.
\* (The clock is read just before the store: a stamp of then would only expire earlier.)
Store(r) ==
  /\ pc[r] = "storing"
  /\ LET entry == [got[r] EXCEPT !.at = now]
     IN /\ cache' = [cache EXCEPT ![key[r]] = entry]
        /\ late' = [late EXCEPT ![r] = Lateness(key[r], entry)]
  /\ got' = [got EXCEPT ![r] = None]
  /\ Becomes(r, "idle", None)
  /\ UNCHANGED <<usable, value, now, replaced, settled>>

Replace(k) ==
  /\ usable /\ value[k] < MaxVersion
  /\ value' = [value EXCEPT ![k] = @ + 1]
  /\ replaced' = [replaced EXCEPT ![k] = Append(@, now)]

\* set_secret writes.  A write that fails changes nothing; one whose answer is lost is
\* not known here, as a rotation by others.
Set(r, k) ==
  /\ pc[r] = "idle"
  /\ Replace(k)
  /\ Becomes(r, "written", k)
  /\ UNCHANGED <<usable, cache, got, now, late, settled>>

\* No thread holds an older version of k that it fetched but has not stored.
NoFetchOf(k) == \A r \in Readers : ~(pc[r] = "storing" /\ key[r] = k /\ got[r].value < value[k])

\* The cache holds no version of k, and none older than Vault's is on its way there.
Settle(k) == settled' = [settled EXCEPT ![k] = IF NoFetchOf(k) THEN value[k] ELSE @]

\* After a write it asks the cache for the key.
Seek(r) ==
  /\ pc[r] = "written"
  /\ IF cache[key[r]] = None
     THEN Becomes(r, "idle", None) /\ Settle(key[r])
     ELSE Becomes(r, "invalidating", key[r]) /\ UNCHANGED settled
  /\ UNCHANGED <<usable, value, cache, got, now, replaced, late>>

\* mutant
CacheKept(k) == cache

CacheWithout(k) == [cache EXCEPT ![k] = None]

\* It drops the entry.  (If another thread has dropped it, the KeyError is caught and
\* set_secret returns False, though the secret was written.)
Invalidate(r) ==
  /\ pc[r] = "invalidating"
  /\ cache' = CacheWithout(key[r])
  /\ Settle(key[r])
  /\ Becomes(r, "idle", None)
  /\ UNCHANGED <<usable, value, got, now, replaced, late>>

\* A rotation by a script or another process: nothing tells this one.
Rotate(k) ==
  /\ Replace(k)
  /\ UNCHANGED <<usable, cache, pc, key, got, now, late, settled>>

ClearCache ==
  /\ cache' = [k \in Keys |-> None]
  /\ UNCHANGED <<usable, value, pc, key, got, now, replaced, late, settled>>

\* Vault goes away, is sealed or forgets our token, and comes back.
VaultChanges ==
  /\ usable' = ~usable
  /\ UNCHANGED <<value, cache, pc, key, got, now, replaced, late, settled>>

Tick ==
  /\ now < MaxTime
  /\ now' = now + 1
  /\ UNCHANGED <<usable, value, cache, pc, key, got, replaced, late, settled>>

Next ==
  \/ \E r \in Readers : Take(r) \/ Check(r) \/ Fetch(r) \/ Store(r) \/ Seek(r) \/ Invalidate(r)
  \/ \E r \in Readers, k \in Keys : Get(r, k) \/ Set(r, k)
  \/ \E k \in Keys : Rotate(k)
  \/ ClearCache \/ VaultChanges \/ Tick

Spec == Init /\ [][Next]_vars

-----------------------------------------------------------------------------
(* Properties *)

\* Whatever rotates a secret, and whichever threads fetch it and store it however late,
\* an answer was replaced less than cache_ttl ago, plus the time that the thread took
\* which stored it: its entry is stamped when it is stored, not when Vault answered
\* (secrets.py:298-311).
AnswersAreRecent == \A r \in Readers : late[r] < cache_ttl

\* After set_secret the cache never again holds an older value, unless another thread
\* had fetched one and not yet stored it (secrets.py:334-341).
OwnWritesAreSeen == \A k \in Keys : cache[k] # None => cache[k].value >= settled[k]

\* Secrets are at most cache_ttl behind and own writes are seen.
SecretsAreFresh == AnswersAreRecent /\ OwnWritesAreSeen

\* What get_secret says (secrets.py:297) and threads refute: a caller gets the value or
\* the default.  An entry may vanish between the question and the use (299-300).
ValueOrDefault == \A r \in Readers : pc[r] = "found" => cache[key[r]] # None

\* What set_secret says (secrets.py:332) and threads refute: False if nothing was
\* written.  An entry may vanish between 340 and 341.
TrueIfWritten == \A r \in Readers : pc[r] = "invalidating" => cache[key[r]] # None

==============================================================================
