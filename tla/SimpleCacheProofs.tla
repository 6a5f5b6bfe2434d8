-------------------------- MODULE SimpleCacheProofs --------------------------
(***************************************************************************)
(* What get() and set() leave alone, for any lifetime and size: entries    *)
(* may disappear, but none is invented and none gets the value of another. *)
(* Then what they keep: a cache stays within its size and in order, and    *)
(* set() drops a live entry only from a full cache, the one used longest   *)
(* ago.                                                                    *)
(***************************************************************************)
EXTENDS SimpleCache, FiniteSetTheorems, WellFoundedInduction, TLAPS

\* get() adds nothing and changes no value.
LEMMA GetKeeps ==
    ASSUME NEW c, NEW k, NEW x \in DOMAIN AfterGet(c, k).entries
    PROVE  x \in DOMAIN c.entries /\ AfterGet(c, k).entries[x] = c.entries[x]
<1>1. CASE Fresh(c, k)
  <2>1. AfterGet(c, k).entries = c.entries
    BY <1>1 DEF AfterGet
  <2> QED BY <2>1
<1>2. CASE ~Fresh(c, k)
  BY <1>2 DEF AfterGet, Keeping
<1> QED BY <1>1, <1>2

LEMMA KeepingKeeps ==
    ASSUME NEW c, NEW kept, NEW x \in DOMAIN Keeping(c, kept).entries
    PROVE  x \in kept /\ Keeping(c, kept).entries[x] = c.entries[x]
  BY DEF Keeping

\* An eviction adds nothing and changes no value.
LEMMA EvictedKeeps ==
    ASSUME NEW c, NEW x \in DOMAIN Evicted(c).entries
    PROVE  x \in DOMAIN c.entries /\ Evicted(c).entries[x] = c.entries[x]
<1> DEFINE alive == {k \in DOMAIN c.entries : Alive(c.entries[k])}
<1>1. \/ Evicted(c) = c
      \/ Evicted(c) = Keeping(c, alive)
      \/ Evicted(c) = Keeping(c, alive \ {Oldest(c, alive)})
  BY DEF Evicted
<1>2. CASE Evicted(c) = c
  BY <1>2
<1>3. CASE Evicted(c) = Keeping(c, alive)
  BY <1>3, KeepingKeeps
<1>4. CASE Evicted(c) = Keeping(c, alive \ {Oldest(c, alive)})
  <2>1. PICK kept : kept \subseteq DOMAIN c.entries /\ Evicted(c) = Keeping(c, kept)
    BY <1>4
  <2> QED BY <2>1, KeepingKeeps
<1> QED BY <1>1, <1>2, <1>3, <1>4

\* set() adds the entry that it is given and changes no other value.
LEMMA SetKeeps ==
    ASSUME NEW c, NEW k, NEW v, NEW x \in DOMAIN AfterSet(c, k, v).entries
    PROVE  \/ x = k /\ AfterSet(c, k, v).entries[x] = [left |-> Ttl, value |-> v]
           \/ /\ x # k /\ x \in DOMAIN c.entries
              /\ AfterSet(c, k, v).entries[x] = c.entries[x]
<1> DEFINE stored == [y \in DOMAIN c.entries \cup {k} |->
                        IF y = k THEN [left |-> Ttl, value |-> v] ELSE c.entries[y]]
           full == [entries |-> stored, order |-> MovedToEnd(c.order, DOMAIN c.entries \ {k}, k)]
<1>1. AfterSet(c, k, v) = Evicted(full)
  BY DEF AfterSet
<1>2. full.entries = stored
  OBVIOUS
<1>3. x \in DOMAIN full.entries /\ AfterSet(c, k, v).entries[x] = full.entries[x]
  <2> HIDE DEF full
  <2> QED BY <1>1, EvictedKeeps
<1> QED BY <1>2, <1>3

LEMMA SetKeepsOthers ==
    ASSUME NEW c, NEW k, NEW v
    PROVE  \A x \in DOMAIN AfterSet(c, k, v).entries \ {k} :
             x \in DOMAIN c.entries /\ AfterSet(c, k, v).entries[x] = c.entries[x]
<1> SUFFICES ASSUME NEW x \in DOMAIN AfterSet(c, k, v).entries, x # k
             PROVE  x \in DOMAIN c.entries /\ AfterSet(c, k, v).entries[x] = c.entries[x]
  OBVIOUS
<1>1. \/ x = k /\ AfterSet(c, k, v).entries[x] = [left |-> Ttl, value |-> v]
      \/ /\ x # k /\ x \in DOMAIN c.entries
         /\ AfterSet(c, k, v).entries[x] = c.entries[x]
  BY SetKeeps
<1> QED BY <1>1

-----------------------------------------------------------------------------
(* The order of the keys.                                                  *)

\* A finite set of keys has one that was used longest ago: in a least set without
\* one, what is left without some key has one, and that or the key itself is it.
LEMMA OldestExists ==
    ASSUME NEW c, InOrder(c), NEW K, K \subseteq DOMAIN c.entries,
           IsFiniteSet(K), K # {}
    PROVE  Oldest(c, K) \in K /\ \A x \in K : <<x, Oldest(c, K)>> \notin c.order
<1> DEFINE HasOldest(U) == \E k \in U : \A x \in U : <<x, k>> \notin c.order
           bad == {U \in SUBSET K : U # {} /\ ~HasOldest(U)}
<1>1. SUFFICES ASSUME ~HasOldest(K)
               PROVE  FALSE
  BY DEF Oldest
<1>2. FiniteSubsetsOf(K) = SUBSET K
  BY FS_FiniteSubsetsOfFinite
<1>3. IsWellFoundedOn(StrictSubsetOrdering(K), SUBSET K)
  BY <1>2, FS_StrictSubsetOrderingWellFounded
<1>4. bad \subseteq SUBSET K /\ bad # {}
  BY <1>1
<1>5. PICK U \in bad : \A V \in bad : <<V, U>> \notin StrictSubsetOrdering(K)
  <2> HIDE DEF bad
  <2> QED BY <1>3, <1>4, WFMin
<1>6. PICK x \in U : TRUE
  BY <1>5
<1> DEFINE rest == U \ {x}
<1>7. rest \subseteq K /\ <<rest, U>> \in StrictSubsetOrdering(K)
  BY <1>5, <1>6 DEF StrictSubsetOrdering
<1>8. rest \notin bad
  BY <1>5, <1>7
<1>9. <<x, x>> \notin c.order
  BY <1>5, <1>6 DEF InOrder
<1>10. CASE rest = {}
  <2>1. U = {x}
    BY <1>6, <1>10
  <2> QED BY <1>5, <1>9, <2>1
<1>11. CASE rest # {}
  <2>1. PICK k \in rest : \A y \in rest : <<y, k>> \notin c.order
    BY <1>7, <1>8, <1>11
  <2>2. CASE <<x, k>> \notin c.order
    BY <1>5, <2>1, <2>2
  <2>3. CASE <<x, k>> \in c.order
    <3>1. ASSUME NEW y \in U
          PROVE  <<y, x>> \notin c.order
      <4>1. CASE y = x
        BY <1>9, <4>1
      <4>2. CASE y # x
        <5>1. x \in DOMAIN c.entries /\ y \in DOMAIN c.entries /\ k \in DOMAIN c.entries
          BY <1>5, <1>6, <2>1, <3>1
        <5>2. <<y, k>> \notin c.order
          BY <2>1, <3>1, <4>2
        <5> QED BY <2>3, <5>1, <5>2 DEF InOrder
      <4> QED BY <4>1, <4>2
    <3> QED BY <1>5, <1>6, <3>1
  <2> QED BY <2>2, <2>3
<1> QED BY <1>10, <1>11

\* What holds of a cache whatever its size.
Sound(c) ==
    /\ IsFiniteSet(DOMAIN c.entries)
    /\ \A k \in DOMAIN c.entries : c.entries[k].left \in -1..Ttl
    /\ InOrder(c)

LEMMA KeepingSound ==
    ASSUME NEW c, Sound(c), NEW kept, kept \subseteq DOMAIN c.entries
    PROVE  Sound(Keeping(c, kept)) /\ DOMAIN Keeping(c, kept).entries = kept
<1> DEFINE d == Keeping(c, kept)
<1>1. DOMAIN d.entries = kept /\ d.order = c.order \cap (kept \X kept)
  BY DEF Keeping
<1>2. \A k \in kept : d.entries[k] = c.entries[k]
  BY DEF Keeping
<1>3. IsFiniteSet(kept)
  BY FS_Subset DEF Sound
<1>4. \A x, y \in kept : <<x, y>> \in d.order <=> <<x, y>> \in c.order
  BY <1>1
<1> HIDE DEF d
<1>5. InOrder(d)
  <2>1. d.order \subseteq kept \X kept
    BY <1>1
  <2> QED BY <1>1, <1>4, <2>1 DEF Sound, InOrder
<1>6. \A k \in kept : d.entries[k].left \in -1..Ttl
  BY <1>2 DEF Sound
<1> QED BY <1>1, <1>3, <1>5, <1>6 DEF Sound, d

\* When a key moves to the end of an order of the other keys it is one of them all.
LEMMA MovedInOrder ==
    ASSUME NEW c, InOrder(c), NEW k, NEW d,
           DOMAIN d.entries = DOMAIN c.entries \cup {k},
           d.order = MovedToEnd(c.order, DOMAIN c.entries \ {k}, k)
    PROVE  /\ InOrder(d)
           /\ \A x, y \in DOMAIN d.entries :
                <<x, y>> \in d.order <=> x # k /\ (y = k \/ <<x, y>> \in c.order)
<1>1. d.order \subseteq (DOMAIN d.entries) \X (DOMAIN d.entries)
  BY DEF MovedToEnd
<1>2. \A x, y \in DOMAIN d.entries :
        <<x, y>> \in d.order <=> x # k /\ (y = k \/ <<x, y>> \in c.order)
  <2> SUFFICES ASSUME NEW x \in DOMAIN d.entries, NEW y \in DOMAIN d.entries
               PROVE  <<x, y>> \in d.order <=> x # k /\ (y = k \/ <<x, y>> \in c.order)
    OBVIOUS
  <2>1. CASE x = k
    BY <2>1 DEF MovedToEnd
  <2>2. CASE x # k /\ y = k
    BY <2>2 DEF MovedToEnd
  <2>3. CASE x # k /\ y # k
    BY <2>3 DEF MovedToEnd
  <2> QED BY <2>1, <2>2, <2>3
<1>3. InOrder(d)
  <2> USE DEF InOrder
  <2>1. \A x, y \in DOMAIN d.entries : <<x, y>> \in d.order => <<y, x>> \notin d.order
    BY <1>2
  <2>2. \A x, y \in DOMAIN d.entries : x = y \/ <<x, y>> \in d.order \/ <<y, x>> \in d.order
    BY <1>2
  <2>3. \A x, y, z \in DOMAIN d.entries :
          <<x, y>> \in d.order /\ <<y, z>> \in d.order => <<x, z>> \in d.order
    BY <1>2
  <2> QED BY <1>1, <2>1, <2>2, <2>3
<1> QED BY <1>2, <1>3

-----------------------------------------------------------------------------
(* get().                                                                  *)

\* What is fresh is there after get() as it was, and used after all the rest.
LEMMA GetOfFresh ==
    ASSUME NEW c, InOrder(c), NEW k, Fresh(c, k)
    PROVE  /\ AfterGet(c, k).entries = c.entries
           /\ InOrder(AfterGet(c, k))
           /\ \A x, y \in DOMAIN c.entries :
                <<x, y>> \in AfterGet(c, k).order
                  <=> x # k /\ (y = k \/ <<x, y>> \in c.order)
<1> DEFINE d == AfterGet(c, k)
<1>1. DOMAIN c.entries = DOMAIN c.entries \cup {k}
  BY DEF Fresh
<1>2. d.entries = c.entries
  BY DEF AfterGet
<1>3. d.order = MovedToEnd(c.order, DOMAIN c.entries \ {k}, k)
  BY DEF AfterGet
<1> HIDE DEF d
<1>4. InOrder(d) /\ \A x, y \in DOMAIN d.entries :
                      <<x, y>> \in d.order <=> x # k /\ (y = k \/ <<x, y>> \in c.order)
  BY <1>1, <1>2, <1>3, MovedInOrder
<1> QED BY <1>2, <1>4 DEF d

\* get() leaves a cache as it should be.
LEMMA GetWellFormed ==
    ASSUME NEW c, WellFormed(c), NEW k
    PROVE  WellFormed(AfterGet(c, k))
<1>1. CASE Fresh(c, k)
  <2>1. AfterGet(c, k).entries = c.entries /\ InOrder(AfterGet(c, k))
    BY <1>1, GetOfFresh DEF WellFormed
  <2> QED BY <2>1 DEF WellFormed
<1>2. CASE ~Fresh(c, k)
  <2> DEFINE kept == DOMAIN c.entries \ {k}
  <2>1. AfterGet(c, k) = Keeping(c, kept)
    BY <1>2 DEF AfterGet
  <2>2. Sound(Keeping(c, kept)) /\ DOMAIN Keeping(c, kept).entries = kept
    BY KeepingSound DEF Sound, WellFormed
  <2>3. Cardinality(kept) <= MaxSize
    <3>1. IsFiniteSet(DOMAIN c.entries) /\ kept \subseteq DOMAIN c.entries
      BY DEF WellFormed
    <3>2. Cardinality(kept) <= Cardinality(DOMAIN c.entries) /\ IsFiniteSet(kept)
      BY <3>1, FS_Subset
    <3>3. Cardinality(kept) \in Nat /\ Cardinality(DOMAIN c.entries) \in Nat
      BY <3>1, <3>2, FS_CardinalityType
    <3> QED BY <3>2, <3>3, CacheAssumption DEF WellFormed
  <2> QED BY <2>1, <2>2, <2>3 DEF Sound, WellFormed
<1> QED BY <1>1, <1>2

\* get() keeps every fresh entry as it is.
LEMMA GetKeepsFresh ==
    ASSUME NEW c, NEW k, NEW x, Fresh(c, x)
    PROVE  Fresh(AfterGet(c, k), x) /\ AfterGet(c, k).entries[x] = c.entries[x]
<1>1. CASE Fresh(c, k)
  BY <1>1 DEF AfterGet, Fresh
<1>2. CASE ~Fresh(c, k)
  <2>1. x # k /\ x \in DOMAIN c.entries \ {k}
    BY <1>2 DEF Fresh
  <2>2. AfterGet(c, k) = Keeping(c, DOMAIN c.entries \ {k})
    BY <1>2 DEF AfterGet
  <2> QED BY <2>1, <2>2 DEF Keeping, Fresh
<1> QED BY <1>1, <1>2

-----------------------------------------------------------------------------
(* set().                                                                  *)

Live(c) == {x \in DOMAIN c.entries : Alive(c.entries[x])}

\* The cache in the middle of set(), before anything is evicted.
Stored(c, k, v) ==
    [entries |-> [x \in DOMAIN c.entries \cup {k} |->
                    IF x = k THEN [left |-> Ttl, value |-> v] ELSE c.entries[x]],
     order   |-> MovedToEnd(c.order, DOMAIN c.entries \ {k}, k)]

LEMMA SetEvicts ==
    ASSUME NEW c, NEW k, NEW v
    PROVE  /\ AfterSet(c, k, v) = Evicted(Stored(c, k, v))
           /\ DOMAIN Stored(c, k, v).entries = DOMAIN c.entries \cup {k}
           /\ Stored(c, k, v).entries[k] = [left |-> Ttl, value |-> v]
           /\ \A x \in DOMAIN c.entries \ {k} : Stored(c, k, v).entries[x] = c.entries[x]
  BY DEF AfterSet, Stored

LEMMA StoredSound ==
    ASSUME NEW c, WellFormed(c), NEW k, NEW v
    PROVE  /\ Sound(Stored(c, k, v))
           /\ Cardinality(DOMAIN Stored(c, k, v).entries) <= MaxSize + 1
           /\ \A x, y \in DOMAIN Stored(c, k, v).entries :
                <<x, y>> \in Stored(c, k, v).order <=> x # k /\ (y = k \/ <<x, y>> \in c.order)
<1> DEFINE d == Stored(c, k, v)
<1>1. d.order = MovedToEnd(c.order, DOMAIN c.entries \ {k}, k)
  BY DEF Stored
<1>2. /\ DOMAIN d.entries = DOMAIN c.entries \cup {k}
      /\ d.entries[k] = [left |-> Ttl, value |-> v]
      /\ \A x \in DOMAIN c.entries \ {k} : d.entries[x] = c.entries[x]
  BY SetEvicts
<1> HIDE DEF d
<1>3. InOrder(d) /\ \A x, y \in DOMAIN d.entries :
                      <<x, y>> \in d.order <=> x # k /\ (y = k \/ <<x, y>> \in c.order)
  BY <1>1, <1>2, MovedInOrder DEF WellFormed
<1>4. IsFiniteSet(DOMAIN d.entries) /\ Cardinality(DOMAIN d.entries) <= MaxSize + 1
  <2>1. Cardinality(DOMAIN c.entries) \in Nat /\ Cardinality(DOMAIN c.entries) <= MaxSize
    BY FS_CardinalityType DEF WellFormed
  <2>2. IsFiniteSet(DOMAIN d.entries)
        /\ Cardinality(DOMAIN d.entries) = IF k \in DOMAIN c.entries
             THEN Cardinality(DOMAIN c.entries) ELSE Cardinality(DOMAIN c.entries) + 1
    BY <1>2, FS_AddElement DEF WellFormed
  <2> QED BY <2>1, <2>2, CacheAssumption
<1>5. ASSUME NEW x \in DOMAIN d.entries
      PROVE  d.entries[x].left \in -1..Ttl
  <2>1. CASE x = k
    BY <1>2, <2>1, CacheAssumption
  <2>2. CASE x # k
    BY <1>2, <2>2 DEF WellFormed
  <2> QED BY <2>1, <2>2
<1> QED BY <1>3, <1>4, <1>5 DEF Sound, d

\* Either nothing that lives is evicted, or the live entries fill the cache without
\* the one among them that was used longest ago.
LEMMA EvictionForced ==
    ASSUME NEW c, Sound(c), Cardinality(DOMAIN c.entries) <= MaxSize + 1
    PROVE  /\ WellFormed(Evicted(c))
           /\ Evicted(c).order = c.order \cap ((DOMAIN Evicted(c).entries) \X (DOMAIN Evicted(c).entries))
           /\ \/ Live(c) \subseteq DOMAIN Evicted(c).entries
              \/ /\ Cardinality(DOMAIN Evicted(c).entries) = MaxSize
                 /\ \E old \in Live(c) :
                      /\ DOMAIN Evicted(c).entries = Live(c) \ {old}
                      /\ \A x \in Live(c) \ {old} : <<old, x>> \in c.order
<1> DEFINE keys == DOMAIN c.entries
           e    == Evicted(c)
<1>1. IsFiniteSet(keys) /\ Cardinality(keys) \in Nat
  BY FS_CardinalityType DEF Sound
<1>2. Live(c) \subseteq keys
  BY DEF Live
<1>3. IsFiniteSet(Live(c)) /\ Cardinality(Live(c)) \in Nat /\ Cardinality(Live(c)) <= Cardinality(keys)
  BY <1>1, <1>2, FS_Subset, FS_CardinalityType
<1>4. MaxSize \in Nat \ {0}
  BY CacheAssumption
<1>5. CASE Cardinality(keys) <= MaxSize
  <2>1. e = c
    <3>1. ~(Cardinality(keys) > MaxSize)
      BY <1>1, <1>4, <1>5
    <3> QED BY <1>5, <3>1 DEF Evicted
  <2>2. c.order \subseteq keys \X keys
    BY DEF Sound, InOrder
  <2>3. WellFormed(c)
    BY <1>5 DEF Sound, WellFormed
  <2> HIDE DEF e
  <2> QED BY <1>2, <2>1, <2>2, <2>3 DEF e
<1>6. CASE Cardinality(keys) > MaxSize /\ Cardinality(Live(c)) <= MaxSize
  <2>1. e = Keeping(c, Live(c))
    <3>1. ~(Cardinality(keys) <= MaxSize)
      BY <1>1, <1>4, <1>6
    <3> QED BY <1>6, <3>1 DEF Evicted, Live
  <2>2. Sound(Keeping(c, Live(c))) /\ DOMAIN Keeping(c, Live(c)).entries = Live(c)
    BY <1>2, KeepingSound
  <2>3. Keeping(c, Live(c)).order = c.order \cap (Live(c) \X Live(c))
    BY DEF Keeping
  <2>4. WellFormed(Keeping(c, Live(c)))
    BY <1>6, <2>2 DEF Sound, WellFormed
  <2> HIDE DEF e
  <2> QED BY <2>1, <2>2, <2>3, <2>4 DEF e
<1>7. CASE Cardinality(keys) > MaxSize /\ Cardinality(Live(c)) > MaxSize
  <2> DEFINE old  == Oldest(c, Live(c))
             kept == Live(c) \ {old}
  <2>1. e = Keeping(c, kept)
    <3>1. ~(Cardinality(keys) <= MaxSize) /\ ~(Cardinality(Live(c)) <= MaxSize)
      BY <1>1, <1>3, <1>4, <1>7
    <3> QED BY <3>1 DEF Evicted, Live
  <2>2. Live(c) # {}
    <3>1. Cardinality({}) = 0
      BY FS_EmptySet
    <3> QED BY <1>4, <1>7, <3>1
  <2>3. old \in Live(c) /\ \A x \in Live(c) : <<x, old>> \notin c.order
    BY <1>2, <1>3, <2>2, OldestExists DEF Sound
  <2> HIDE DEF old
  <2>4. \A x \in Live(c) \ {old} : <<old, x>> \in c.order
    BY <1>2, <2>3 DEF Sound, InOrder
  <2>5. kept \subseteq keys
    BY <1>2
  <2>6. Sound(Keeping(c, kept)) /\ DOMAIN Keeping(c, kept).entries = kept
    BY <2>5, KeepingSound
  <2>7. Keeping(c, kept).order = c.order \cap (kept \X kept)
    BY DEF Keeping
  <2>8. Cardinality(kept) = MaxSize
    <3>1. Cardinality(kept) = Cardinality(Live(c)) - 1
      BY <1>3, <2>3, FS_RemoveElement
    <3> QED BY <1>1, <1>3, <1>4, <1>7, <3>1
  <2> HIDE DEF e, kept
  <2>9. WellFormed(Keeping(c, kept))
    <3>1. Cardinality(DOMAIN Keeping(c, kept).entries) <= MaxSize
      BY <1>4, <2>6, <2>8
    <3> QED BY <2>6, <3>1 DEF Sound, WellFormed
  <2> QED BY <2>1, <2>3, <2>4, <2>6, <2>7, <2>8, <2>9 DEF e, kept
<1> QED BY <1>1, <1>3, <1>4, <1>5, <1>6, <1>7

\* set() leaves a cache as it should be.
LEMMA SetWellFormed ==
    ASSUME NEW c, WellFormed(c), NEW k, NEW v
    PROVE  WellFormed(AfterSet(c, k, v))
<1>1. Sound(Stored(c, k, v)) /\ Cardinality(DOMAIN Stored(c, k, v).entries) <= MaxSize + 1
  BY StoredSound
<1>2. WellFormed(Evicted(Stored(c, k, v)))
  BY <1>1, EvictionForced
<1> QED BY <1>2, SetEvicts

\* What was just put into the cache is there, and a live entry makes room for it
\* only when the cache is then full of live entries, which were all used later.
LEMMA SetRemembers ==
    ASSUME NEW c, WellFormed(c), NEW k, NEW v
    PROVE  /\ k \in DOMAIN AfterSet(c, k, v).entries
           /\ AfterSet(c, k, v).entries[k] = [left |-> Ttl, value |-> v]
           /\ \/ \A x : Fresh(c, x) => x \in DOMAIN AfterSet(c, k, v).entries
              \/ /\ Cardinality(DOMAIN AfterSet(c, k, v).entries) = MaxSize
                 /\ \A x \in DOMAIN AfterSet(c, k, v).entries : Fresh(AfterSet(c, k, v), x)
                 /\ \A x : Fresh(c, x) /\ x \notin DOMAIN AfterSet(c, k, v).entries =>
                      \A y \in DOMAIN AfterSet(c, k, v).entries \ {k} : <<x, y>> \in c.order
<1> DEFINE s == Stored(c, k, v)
           d == AfterSet(c, k, v)
<1>1. /\ d = Evicted(s)
      /\ DOMAIN s.entries = DOMAIN c.entries \cup {k}
      /\ s.entries[k] = [left |-> Ttl, value |-> v]
      /\ \A x \in DOMAIN c.entries \ {k} : s.entries[x] = c.entries[x]
  BY SetEvicts
<1>2. \A x, y \in DOMAIN s.entries :
        <<x, y>> \in s.order <=> x # k /\ (y = k \/ <<x, y>> \in c.order)
  BY StoredSound
<1>3. \/ Live(s) \subseteq DOMAIN d.entries
      \/ /\ Cardinality(DOMAIN d.entries) = MaxSize
         /\ \E old \in Live(s) :
              /\ DOMAIN d.entries = Live(s) \ {old}
              /\ \A x \in Live(s) \ {old} : <<old, x>> \in s.order
  BY <1>1, StoredSound, EvictionForced
<1>4. \A x \in DOMAIN d.entries : x \in DOMAIN s.entries /\ d.entries[x] = s.entries[x]
  BY <1>1, EvictedKeeps
<1> HIDE DEF s, d
<1>5. k \in Live(s)
  BY <1>1, CacheAssumption DEF Live, Alive
<1>6. \A x : Fresh(c, x) => x \in Live(s)
  <2> SUFFICES ASSUME NEW x, Fresh(c, x), x # k
               PROVE  x \in Live(s)
    BY <1>5
  <2> QED BY <1>1 DEF Live, Fresh
<1>7. CASE Live(s) \subseteq DOMAIN d.entries
  BY <1>1, <1>4, <1>5, <1>6, <1>7 DEF d
<1>8. CASE ~(Live(s) \subseteq DOMAIN d.entries)
  <2>1. PICK old \in Live(s) : /\ DOMAIN d.entries = Live(s) \ {old}
                               /\ \A x \in Live(s) \ {old} : <<old, x>> \in s.order
    BY <1>3, <1>8
  <2>2. Cardinality(DOMAIN d.entries) = MaxSize
    BY <1>3, <1>8
  <2>3. Live(s) \subseteq DOMAIN s.entries
    BY DEF Live
  <2>4. old # k
    <3>1. SUFFICES ASSUME old = k
                   PROVE  DOMAIN d.entries = {}
      BY <2>2, FS_EmptySet, CacheAssumption
    <3> QED BY <1>2, <1>5, <2>1, <2>3, <3>1
  <2>5. k \in DOMAIN d.entries
    BY <1>5, <2>1, <2>4
  <2>6. \A x \in DOMAIN d.entries : Fresh(d, x)
    BY <1>4, <2>1 DEF Live, Fresh
  <2>7. ASSUME NEW x, Fresh(c, x), x \notin DOMAIN d.entries,
               NEW y \in DOMAIN d.entries \ {k}
        PROVE  <<x, y>> \in c.order
    <3>1. x = old
      BY <1>6, <2>1, <2>7
    <3> QED BY <1>2, <2>1, <2>3, <2>7, <3>1
  <2> QED BY <1>1, <1>4, <2>2, <2>5, <2>6, <2>7 DEF d
<1> QED BY <1>7, <1>8

\* After set() the key is the last in order; of the others the order is as it was.
LEMMA SetOrder ==
    ASSUME NEW c, WellFormed(c), NEW k, NEW v
    PROVE  \A x, y \in DOMAIN AfterSet(c, k, v).entries :
             <<x, y>> \in AfterSet(c, k, v).order <=> x # k /\ (y = k \/ <<x, y>> \in c.order)
<1> DEFINE s == Stored(c, k, v)
           d == AfterSet(c, k, v)
<1>1. d = Evicted(s)
  BY SetEvicts
<1>2. \A x, y \in DOMAIN s.entries :
        <<x, y>> \in s.order <=> x # k /\ (y = k \/ <<x, y>> \in c.order)
  BY StoredSound
<1>3. d.order = s.order \cap ((DOMAIN d.entries) \X (DOMAIN d.entries))
  BY <1>1, StoredSound, EvictionForced
<1>4. DOMAIN d.entries \subseteq DOMAIN s.entries
  BY <1>1, EvictedKeeps
<1> HIDE DEF s, d
<1> QED BY <1>2, <1>3, <1>4 DEF d

-----------------------------------------------------------------------------
(* The passing of time.                                                    *)

LEMMA AgedWellFormed ==
    ASSUME NEW c, WellFormed(c)
    PROVE  WellFormed(Aged(c))
<1> DEFINE d == Aged(c)
<1>1. DOMAIN d.entries = DOMAIN c.entries /\ d.order = c.order
  BY DEF Aged
<1>2. ASSUME NEW x \in DOMAIN c.entries
      PROVE  d.entries[x].left \in -1..Ttl
  <2>1. d.entries[x].left = IF c.entries[x].left >= 0 THEN c.entries[x].left - 1 ELSE -1
    BY DEF Aged
  <2>2. c.entries[x].left \in -1..Ttl
    BY DEF WellFormed
  <2> HIDE DEF d
  <2> QED BY <2>1, <2>2, CacheAssumption
<1> HIDE DEF d
<1> QED BY <1>1, <1>2 DEF WellFormed, InOrder, d

LEMMA EmptyWellFormed == WellFormed(EmptyCache)
<1>1. IsFiniteSet({}) /\ Cardinality({}) = 0
  BY FS_EmptySet
<1>2. DOMAIN EmptyCache.entries = {} /\ EmptyCache.order = {}
  BY DEF EmptyCache
<1> QED BY <1>1, <1>2, CacheAssumption DEF WellFormed, InOrder
=============================================================================
