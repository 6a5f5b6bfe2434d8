----------------------------- MODULE SimpleCache -----------------------------
(***************************************************************************)
(* app/core/cache.py: an OrderedDict from keys to values with an expiry,   *)
(* least recently used first.  A cache is a record of the entries and of   *)
(* the order of their keys, the pairs of a key and one that was used after *)
(* it; get() and set() are its values after the call.                      *)
(* Instead of the time at which it expires an entry has the ticks that are *)
(* left to it, -1 once they are over.                                      *)
(***************************************************************************)
EXTENDS Integers, FiniteSets

CONSTANTS
    Ttl,        \* ticks that an entry lives
    MaxSize     \* maxsize

ASSUME CacheAssumption == Ttl \in Nat /\ MaxSize \in Nat \ {0}

EmptyCache == [entries |-> <<>>, order |-> {}]

\* Mutant: entries never expire.
Alive_Forever(entry) == TRUE

\* Mutant: expired in the very instant of expires_at.
Alive_Before(entry) == entry.left > 0

\* "time.time() > expires_at" is false.
Alive(entry) == entry.left >= 0

Fresh(cache, k) == k \in DOMAIN cache.entries /\ Alive(cache.entries[k])

\* What get() returns for a fresh key.
Value(cache, k) == cache.entries[k].value

\* The cache without the keys outside `kept'.
Keeping(cache, kept) ==
    [entries |-> [k \in kept |-> cache.entries[k]],
     order   |-> cache.order \cap (kept \X kept)]

\* move_to_end(k), or the assignment of a new key: it comes after the others.
MovedToEnd(order, others, k) ==
    (order \cap (others \X others)) \cup (others \X {k})

\* The cache after get(k): an expired entry is deleted, a fresh one becomes the
\* most recently used.
AfterGet(cache, k) ==
    IF Fresh(cache, k)
      THEN [entries |-> cache.entries,
            order   |-> MovedToEnd(cache.order, DOMAIN cache.entries \ {k}, k)]
      ELSE Keeping(cache, DOMAIN cache.entries \ {k})

\* The least recently used of the keys.
Oldest(cache, keys) ==
    CHOOSE k \in keys : \A x \in keys : <<x, k>> \notin cache.order

\* Mutant: the expired entries are not purged first.
Evicted_NoPurge(cache) ==
    LET keys == DOMAIN cache.entries
    IN  IF Cardinality(keys) <= MaxSize
          THEN cache
          ELSE Keeping(cache, keys \ {Oldest(cache, keys)})

\* Mutant: one entry too many.
Evicted_OneMore(cache) ==
    LET keys == DOMAIN cache.entries
    IN  IF Cardinality(keys) <= MaxSize + 1
          THEN cache
          ELSE Keeping(cache, keys \ {Oldest(cache, keys)})

\* What set() does when it made the store too large by one: purge the expired
\* entries, then, if that was not enough, the least recently used one.
Evicted(cache) ==
    LET keys  == DOMAIN cache.entries
        alive == {k \in keys : Alive(cache.entries[k])}
    IN  CASE Cardinality(keys) <= MaxSize  -> cache
          [] Cardinality(keys) > MaxSize /\ Cardinality(alive) <= MaxSize
                                           -> Keeping(cache, alive)
          [] OTHER                         -> Keeping(cache, alive \ {Oldest(cache, alive)})

\* The cache after set(k, value).
AfterSet(cache, k, value) ==
    Evicted([entries |-> [x \in DOMAIN cache.entries \cup {k} |->
                            IF x = k THEN [left |-> Ttl, value |-> value]
                                     ELSE cache.entries[x]],
             order   |-> MovedToEnd(cache.order, DOMAIN cache.entries \ {k}, k)])

\* A tick later.
Aged(cache) ==
    [entries |-> [k \in DOMAIN cache.entries |->
                    [cache.entries[k] EXCEPT !.left = IF @ >= 0 THEN @ - 1 ELSE -1]],
     order   |-> cache.order]
-----------------------------------------------------------------------------
(* What holds of every cache.                                              *)

\* Of any two keys one was used after the other.
InOrder(cache) ==
    LET keys == DOMAIN cache.entries
    IN  /\ cache.order \subseteq keys \X keys
        /\ \A x, y \in keys : <<x, y>> \in cache.order => <<y, x>> \notin cache.order
        /\ \A x, y \in keys : x = y \/ <<x, y>> \in cache.order \/ <<y, x>> \in cache.order
        /\ \A x, y, z \in keys :
             <<x, y>> \in cache.order /\ <<y, z>> \in cache.order => <<x, z>> \in cache.order

\* It holds no more than maxsize entries, of which none has longer to live than a
\* new one, and there is always one to evict.
WellFormed(cache) ==
    /\ IsFiniteSet(DOMAIN cache.entries)
    /\ Cardinality(DOMAIN cache.entries) <= MaxSize
    /\ \A k \in DOMAIN cache.entries : cache.entries[k].left \in -1..Ttl
    /\ InOrder(cache)
=============================================================================
