--------------------------- MODULE PipelineProofs ---------------------------
(***************************************************************************)
(* Proofs about the rate limiter for incoming requests and the layers of   *)
(* middleware around it.  The inductive invariant of the store says of     *)
(* each key that what purge has dropped is older than the window and than  *)
(* all that is left, so that the bucket holds all of the history that can  *)
(* still share a window with a new admission.                              *)
(***************************************************************************)
EXTENDS Pipeline, FiniteSetTheorems, TLAPS

AllEntries == [n : Nat, at : Nat]

InWindow(l, e) == {d \in l : e.at <= d.at /\ d.at <= e.at + Window}

\* The bucket b and the history l of a key with limit m at time t.
KeyOK(b, l, t, m) ==
    /\ l \in SUBSET AllEntries /\ IsFiniteSet(l)
    /\ \A e \in l : e.n < Cardinality(l) /\ e.at <= t
    /\ b \subseteq l /\ Cardinality(b) <= m
    /\ \A e \in l \ b : e.at + Window < t
    /\ \A e \in l \ b, d \in b : e.at <= d.at
    /\ \A e \in l : Cardinality(InWindow(l, e)) <= m

LEMMA NothingYet == ASSUME NEW t \in Nat, NEW m \in Nat PROVE KeyOK({}, {}, t, m)
BY FS_EmptySet DEF KeyOK

LEMMA TimePasses ==
    ASSUME NEW b, NEW l, NEW t \in Nat, NEW m, KeyOK(b, l, t, m)
    PROVE  KeyOK(b, l, t + 1, m)
<1>1. /\ \A e \in l : e.at \in Nat /\ e.at <= t + 1
      /\ \A e \in l \ b : e.at + Window < t + 1
  BY InboundAssumption DEF KeyOK, AllEntries
<1> QED BY <1>1 DEF KeyOK

LEMMA PurgeKeeps ==
    ASSUME NEW b, NEW l, NEW t \in Nat, NEW m \in Nat, KeyOK(b, l, t, m)
    PROVE  KeyOK({e \in b : e.at + Window >= t}, l, t, m)
<1> DEFINE p == {e \in b : e.at + Window >= t}
<1>1. p \subseteq b /\ \A e \in b \ p : ~(e.at + Window >= t)
  OBVIOUS
<1>2. \A e \in l : e.at \in Nat
  BY DEF KeyOK, AllEntries
<1>3. IsFiniteSet(b) /\ Cardinality(b) \in Nat /\ Cardinality(p) \in Nat
      /\ Cardinality(p) <= Cardinality(b)
  BY <1>1, FS_Subset, FS_CardinalityType DEF KeyOK
<1>4. Cardinality(p) <= m
  BY <1>3 DEF KeyOK
<1>5. \A e \in l \ p : e.at + Window < t
  BY <1>1, <1>2, InboundAssumption DEF KeyOK
<1>6. \A d \in p : d.at + Window >= t
  OBVIOUS
<1> HIDE DEF p
<1>7. \A e \in l \ p, d \in p : e.at <= d.at
  <2> SUFFICES ASSUME NEW e \in l \ p, NEW d \in p PROVE e.at <= d.at
    OBVIOUS
  <2>1. e.at \in Nat /\ d.at \in Nat /\ e.at + Window < t /\ d.at + Window >= t
    BY <1>1, <1>2, <1>5, <1>6 DEF KeyOK
  <2> QED BY <2>1, InboundAssumption
<1>8. KeyOK(p, l, t, m)
  BY <1>1, <1>4, <1>5, <1>7 DEF KeyOK
<1> QED BY <1>8 DEF p

LEMMA AdmissionKeeps ==
    ASSUME NEW b, NEW l, NEW t \in Nat, NEW m \in Nat, KeyOK(b, l, t, m),
           Cardinality(b) < m,
           NEW x, x = [n |-> Cardinality(l), at |-> t]
    PROVE  KeyOK(b \cup {x}, l \cup {x}, t, m) /\ x \notin l
<1>1. /\ IsFiniteSet(l) /\ Cardinality(l) \in Nat /\ b \subseteq l
      /\ IsFiniteSet(b) /\ Cardinality(b) \in Nat
  BY FS_Subset, FS_CardinalityType DEF KeyOK
<1>2. \A e \in l : e \in AllEntries /\ e.n \in Nat /\ e.at \in Nat /\ e.n < Cardinality(l) /\ e.at <= t
  BY DEF KeyOK, AllEntries
<1>3. x \in AllEntries /\ x.n = Cardinality(l) /\ x.at = t
  BY <1>1 DEF AllEntries
<1>4. x \notin l
  BY <1>1, <1>2, <1>3
<1>5. IsFiniteSet(l \cup {x}) /\ Cardinality(l \cup {x}) = Cardinality(l) + 1
  BY <1>1, <1>4, FS_AddElement
<1>6. Cardinality(b \cup {x}) = Cardinality(b) + 1 /\ IsFiniteSet(b \cup {x})
  BY <1>1, <1>4, FS_AddElement
<1>7. \A e \in l \cup {x} : e.n < Cardinality(l \cup {x}) /\ e.at <= t
  BY <1>1, <1>2, <1>3, <1>5
<1>8. \A e \in l \ b : e.at + Window < t /\ \A d \in b : e.at <= d.at
  BY DEF KeyOK
<1>9. \A e \in l \cup {x} : Cardinality(InWindow(l \cup {x}, e)) <= m
  <2> SUFFICES ASSUME NEW e \in l \cup {x} PROVE Cardinality(InWindow(l \cup {x}, e)) <= m
    OBVIOUS
  <2>1. CASE e.at + Window >= t
    <3>1. InWindow(l \cup {x}, e) \subseteq b \cup {x}
      <4> SUFFICES ASSUME NEW d \in l, e.at <= d.at PROVE d \in b
        BY DEF InWindow
      <4>1. d.at + Window >= t
        BY <1>2, <1>3, <2>1, InboundAssumption
      <4> QED BY <1>2, <1>8, <4>1, InboundAssumption
    <3>2. Cardinality(InWindow(l \cup {x}, e)) <= Cardinality(b \cup {x})
          /\ Cardinality(InWindow(l \cup {x}, e)) \in Nat
      BY <1>6, <3>1, FS_Subset, FS_CardinalityType
    <3> QED BY <1>1, <1>6, <3>2
  <2>2. CASE ~(e.at + Window >= t)
    <3>1. e # x
      BY <1>3, <2>2, InboundAssumption
    <3>2. InWindow(l \cup {x}, e) = InWindow(l, e)
      BY <1>3, <2>2 DEF InWindow
    <3> QED BY <3>1, <3>2 DEF KeyOK
  <2> QED BY <2>1, <2>2
<1>10. \A e \in (l \cup {x}) \ (b \cup {x}), d \in b \cup {x} : e.at <= d.at
  BY <1>2, <1>3, <1>8
<1>11. Cardinality(b \cup {x}) <= m
  BY <1>1, <1>6
<1> QED BY <1>1, <1>2, <1>3, <1>4, <1>5, <1>7, <1>8, <1>9, <1>10, <1>11 DEF KeyOK

StoreInv ==
    /\ now \in Nat
    /\ log \in [Keys -> SUBSET AllEntries]
    /\ buckets \in [DOMAIN buckets -> SUBSET AllEntries]
    /\ DOMAIN buckets \subseteq Keys /\ IsFiniteSet(DOMAIN buckets)
    /\ Cardinality(DOMAIN buckets) <= MaxBuckets
    /\ \A k \in DOMAIN buckets : buckets[k] # {}
    /\ \A k \in Keys \ DOMAIN buckets : log[k] = {}
    /\ \A k \in Keys : KeyOK(Bucket(k), log[k], now, Limits[k])

LEMMA StoreInitInv == StoreInit => StoreInv
<1> SUFFICES ASSUME StoreInit PROVE StoreInv
  OBVIOUS
<1>1. DOMAIN buckets = {} /\ now = 0 /\ log = [k \in Keys |-> {}]
  BY DEF StoreInit
<1>2. buckets \in [DOMAIN buckets -> SUBSET AllEntries]
  BY DEF StoreInit
<1>3. \A k \in Keys : KeyOK(Bucket(k), log[k], now, Limits[k])
  BY <1>1, NothingYet, InboundAssumption DEF Bucket
<1>4. IsFiniteSet({}) /\ Cardinality({}) <= MaxBuckets
  BY FS_EmptySet, InboundAssumption
<1> QED BY <1>1, <1>2, <1>3, <1>4 DEF StoreInv

\* What a key has after its purge, and after its admission.
LEMMA PurgedOK ==
    ASSUME StoreInv, NEW k \in Keys
    PROVE  KeyOK(Purged(k), log[k], now, Limits[k])
<1>1. KeyOK(Bucket(k), log[k], now, Limits[k]) /\ now \in Nat /\ Limits[k] \in Nat
  BY InboundAssumption DEF StoreInv
<1> QED BY <1>1, PurgeKeeps DEF Purged

LEMMA EntryOK ==
    ASSUME StoreInv, NEW k \in Keys, Cardinality(Purged(k)) < Limits[k]
    PROVE  /\ KeyOK(Purged(k) \cup {Entry(k)}, log[k] \cup {Entry(k)}, now, Limits[k])
           /\ Entry(k) \in AllEntries /\ Purged(k) \subseteq log[k]
<1>1. KeyOK(Purged(k), log[k], now, Limits[k]) /\ now \in Nat /\ Limits[k] \in Nat
  BY PurgedOK, InboundAssumption DEF StoreInv
<1>2. KeyOK(Purged(k) \cup {Entry(k)}, log[k] \cup {Entry(k)}, now, Limits[k])
  BY <1>1, AdmissionKeeps DEF Entry
<1> QED BY <1>1, <1>2 DEF KeyOK

\* The buckets with the newcomer among them.
LEMMA RecordedShape ==
    ASSUME StoreInv, NEW k \in Keys, Cardinality(Purged(k)) < Limits[k]
    PROVE  /\ Recorded(k) \in [DOMAIN Recorded(k) -> SUBSET AllEntries]
           /\ DOMAIN Recorded(k) = DOMAIN buckets \cup {k} /\ DOMAIN Recorded(k) \subseteq Keys
           /\ IsFiniteSet(DOMAIN Recorded(k))
           /\ Cardinality(DOMAIN Recorded(k)) \in Nat
           /\ Cardinality(DOMAIN Recorded(k)) <= MaxBuckets + 1
           /\ \A j \in DOMAIN Recorded(k) : Recorded(k)[j] # {}
           /\ Recorded(k)[k] = Purged(k) \cup {Entry(k)}
           /\ \A j \in DOMAIN Recorded(k) \ {k} : j \in DOMAIN buckets /\ Recorded(k)[j] = buckets[j]
<1>1. DOMAIN Recorded(k) = DOMAIN buckets \cup {k}
  BY DEF Recorded
<1>2. /\ IsFiniteSet(DOMAIN buckets) /\ Cardinality(DOMAIN buckets) \in Nat
      /\ Cardinality(DOMAIN buckets) <= MaxBuckets
  BY FS_CardinalityType DEF StoreInv
<1>3. /\ IsFiniteSet(DOMAIN Recorded(k))
      /\ Cardinality(DOMAIN Recorded(k)) \in Nat
      /\ Cardinality(DOMAIN Recorded(k)) <= MaxBuckets + 1
  <2> DEFINE D == DOMAIN buckets
  <2>1. /\ IsFiniteSet(D \cup {k})
        /\ Cardinality(D \cup {k}) = IF k \in D THEN Cardinality(D) ELSE Cardinality(D) + 1
    BY <1>2, FS_AddElement
  <2> HIDE DEF D
  <2>2. Cardinality(D) \in Nat /\ Cardinality(D) <= MaxBuckets /\ MaxBuckets \in Nat
    BY <1>2, InboundAssumption DEF D
  <2>3. Cardinality(D \cup {k}) \in Nat /\ Cardinality(D \cup {k}) <= MaxBuckets + 1
    BY <2>1, <2>2
  <2> QED BY <1>1, <2>1, <2>3 DEF D
<1>4. Purged(k) \cup {Entry(k)} \in SUBSET AllEntries
  BY EntryOK DEF StoreInv
<1>5. /\ Recorded(k) \in [DOMAIN Recorded(k) -> SUBSET AllEntries]
      /\ Recorded(k)[k] = Purged(k) \cup {Entry(k)}
      /\ \A j \in DOMAIN Recorded(k) \ {k} : j \in DOMAIN buckets /\ Recorded(k)[j] = buckets[j]
  BY <1>4 DEF Recorded, StoreInv
<1> QED BY <1>1, <1>3, <1>5 DEF StoreInv

\* An admission, with or without an eviction.
LEMMA AdmitStep ==
    ASSUME StoreInv, NEW k \in Keys, Admit(k)
    PROVE  StoreInv'
<1>1. Cardinality(Purged(k)) < Limits[k] /\ now' = now
  BY DEF Admit
<1> DEFINE f == Recorded(k)
           added == log[k] \cup {Entry(k)}
<1>2. /\ f \in [DOMAIN f -> SUBSET AllEntries]
      /\ DOMAIN f = DOMAIN buckets \cup {k} /\ DOMAIN f \subseteq Keys
      /\ IsFiniteSet(DOMAIN f) /\ Cardinality(DOMAIN f) \in Nat
      /\ Cardinality(DOMAIN f) <= MaxBuckets + 1
      /\ \A j \in DOMAIN f : f[j] # {}
      /\ f[k] = Purged(k) \cup {Entry(k)}
      /\ \A j \in DOMAIN f \ {k} : j \in DOMAIN buckets /\ f[j] = buckets[j]
  BY <1>1, RecordedShape
<1>3. KeyOK(f[k], added, now, Limits[k]) /\ added \in SUBSET AllEntries
  BY <1>1, <1>2, EntryOK DEF StoreInv
<1>4. /\ \A j \in Keys : KeyOK(Bucket(j), log[j], now, Limits[j])
      /\ \A j \in Keys \ DOMAIN buckets : log[j] = {}
      /\ log \in [Keys -> SUBSET AllEntries] /\ now \in Nat
  BY DEF StoreInv
<1>5. CASE buckets' = f /\ log' = [log EXCEPT ![k] = added] /\ Cardinality(DOMAIN f) <= MaxBuckets
  <2> HIDE DEF f, added
  <2>1. \A j \in Keys : KeyOK(Bucket(j)', log'[j], now', Limits[j])
    <3> SUFFICES ASSUME NEW j \in Keys PROVE KeyOK(Bucket(j)', log'[j], now, Limits[j])
      BY <1>1
    <3>1. CASE j = k
      BY <1>2, <1>3, <1>4, <1>5, <3>1 DEF Bucket
    <3>2. CASE j # k
      <4>1. Bucket(j)' = Bucket(j) /\ log'[j] = log[j]
        BY <1>2, <1>4, <1>5, <3>2 DEF Bucket
      <4> QED BY <1>4, <4>1
    <3> QED BY <3>1, <3>2
  <2>2. \A j \in Keys \ DOMAIN buckets' : log'[j] = {}
    BY <1>2, <1>4, <1>5
  <2>3. log' \in [Keys -> SUBSET AllEntries]
    BY <1>3, <1>4, <1>5
  <2> QED BY <1>1, <1>2, <1>4, <1>5, <2>1, <2>2, <2>3 DEF StoreInv
<1>6. ASSUME NEW i \in DOMAIN f, Forget(f, k, i), Cardinality(DOMAIN f) > MaxBuckets
      PROVE  StoreInv'
  <2>1. /\ i # k /\ buckets' = Without(f, i)
        /\ log' = [log EXCEPT ![k] = added, ![i] = {}]
    BY <1>6 DEF Forget
  <2> HIDE DEF f, added
  <2>2. /\ DOMAIN buckets' = DOMAIN f \ {i}
        /\ \A j \in DOMAIN f \ {i} : buckets'[j] = f[j]
        /\ buckets' \in [DOMAIN buckets' -> SUBSET AllEntries]
    BY <1>2, <2>1 DEF Without
  <2>3. /\ log' \in [Keys -> SUBSET AllEntries]
        /\ log'[k] = added /\ log'[i] = {}
        /\ \A j \in Keys : j # k /\ j # i => log'[j] = log[j]
    BY <1>2, <1>3, <1>4, <2>1
  <2>4. \A j \in Keys : KeyOK(Bucket(j)', log'[j], now', Limits[j])
    <3> SUFFICES ASSUME NEW j \in Keys PROVE KeyOK(Bucket(j)', log'[j], now, Limits[j])
      BY <1>1
    <3>1. CASE j = k
      BY <1>2, <1>3, <2>1, <2>2, <2>3, <3>1 DEF Bucket
    <3>2. CASE j = i
      <4>1. Bucket(j)' = {}
        BY <2>2, <3>2 DEF Bucket
      <4> QED BY <1>4, <2>3, <3>2, <4>1, NothingYet, InboundAssumption
    <3>3. CASE j # k /\ j # i
      <4>1. Bucket(j)' = Bucket(j) /\ log'[j] = log[j]
        BY <1>2, <2>2, <2>3, <3>3 DEF Bucket
      <4> QED BY <1>4, <4>1
    <3> QED BY <3>1, <3>2, <3>3
  <2>5. IsFiniteSet(DOMAIN buckets') /\ Cardinality(DOMAIN buckets') <= MaxBuckets
    <3> DEFINE D == DOMAIN f
    <3>1. /\ IsFiniteSet(D \ {i})
          /\ Cardinality(D \ {i}) = IF i \in D THEN Cardinality(D) - 1 ELSE Cardinality(D)
      BY <1>2, FS_RemoveElement
    <3>2. i \in D /\ Cardinality(D) \in Nat /\ Cardinality(D) <= MaxBuckets + 1
          /\ MaxBuckets \in Nat /\ DOMAIN buckets' = D \ {i}
      BY <1>2, <1>6, <2>2, InboundAssumption
    <3> HIDE DEF D
    <3> QED BY <3>1, <3>2
  <2>6. \A j \in Keys \ DOMAIN buckets' : log'[j] = {}
    BY <1>2, <1>4, <2>2, <2>3
  <2> QED BY <1>1, <1>2, <1>4, <2>2, <2>3, <2>4, <2>5, <2>6 DEF StoreInv
<1>7. CASE Cardinality(DOMAIN f) > MaxBuckets
  BY <1>6, <1>7 DEF Admit
<1>8. CASE ~(Cardinality(DOMAIN f) > MaxBuckets)
  <2>1. buckets' = f /\ log' = [log EXCEPT ![k] = added]
    BY <1>8 DEF Admit
  <2>2. Cardinality(DOMAIN f) <= MaxBuckets
    BY <1>2, <1>8, InboundAssumption
  <2> QED BY <1>5, <2>1, <2>2
<1> QED BY <1>7, <1>8

\* A refusal only purges, and leaves something.
LEMMA RefuseStep ==
    ASSUME StoreInv, NEW k \in Keys, Refuse(k)
    PROVE  StoreInv'
<1>1. /\ buckets' = [buckets EXCEPT ![k] = Purged(k)]
      /\ now' = now /\ log' = log /\ Cardinality(Purged(k)) >= Limits[k]
  BY DEF Refuse
<1>2. Purged(k) # {}
  BY <1>1, FS_EmptySet, InboundAssumption
<1>3. k \in DOMAIN buckets
  BY <1>2 DEF Purged, Bucket
<1>4. KeyOK(Purged(k), log[k], now, Limits[k])
  BY PurgedOK
<1>5. Purged(k) \in SUBSET AllEntries
  BY <1>4 DEF KeyOK
<1>6. /\ DOMAIN buckets' = DOMAIN buckets /\ buckets'[k] = Purged(k)
      /\ \A j \in DOMAIN buckets \ {k} : buckets'[j] = buckets[j]
      /\ buckets' \in [DOMAIN buckets' -> SUBSET AllEntries]
  BY <1>1, <1>3, <1>5 DEF StoreInv
<1>7. \A j \in Keys : KeyOK(Bucket(j)', log'[j], now', Limits[j])
  BY <1>1, <1>3, <1>4, <1>6 DEF StoreInv, Bucket
<1> QED BY <1>1, <1>2, <1>6, <1>7 DEF StoreInv

LEMMA StoreStep == StoreInv /\ [StoreNext]_storeVars => StoreInv'
<1> SUFFICES ASSUME StoreInv, [StoreNext]_storeVars PROVE StoreInv'
  OBVIOUS
<1>1. CASE StoreTick
  <2>1. now' = now + 1 /\ buckets' = buckets /\ log' = log /\ now \in Nat
    BY <1>1 DEF StoreTick, StoreInv
  <2>2. \A j \in Keys : KeyOK(Bucket(j)', log'[j], now', Limits[j])
    BY <2>1, TimePasses DEF StoreInv, Bucket
  <2> QED BY <2>1, <2>2 DEF StoreInv
<1>2. CASE UNCHANGED storeVars
  BY <1>2 DEF storeVars, StoreInv, Bucket
<1> QED BY <1>1, <1>2, AdmitStep, RefuseStep DEF StoreNext

\* The invariant of the store holds throughout (is_limited).
THEOREM StoreInvariance == StoreSpec => []StoreInv
BY StoreInitInv, StoreStep, PTL DEF StoreSpec

\* The store never keeps more than MaxBuckets buckets, an empty one, or one over its
\* limit, for any number of clients (is_limited, _evict_one).
THEOREM StoreTypeCorrectness == StoreSpec => []StoreTypeOK
<1>1. ASSUME StoreInv PROVE StoreTypeOK
  <2>1. \A k \in Keys : log[k] \in SUBSET Entries
    <3> SUFFICES ASSUME NEW k \in Keys, NEW e \in log[k] PROVE e \in Entries
      OBVIOUS
    <3>1. e \in AllEntries /\ e.at <= now /\ now \in Nat
      BY <1>1 DEF StoreInv, KeyOK
    <3> QED BY <3>1 DEF AllEntries, Entries
  <2>2. \A k \in DOMAIN buckets : buckets[k] \subseteq log[k] /\ Cardinality(buckets[k]) <= Limits[k]
    BY <1>1 DEF StoreInv, KeyOK, Bucket
  <2> QED BY <1>1, <2>1, <2>2 DEF StoreInv, StoreTypeOK
<1> QED BY <1>1, StoreInvariance, PTL

\* In no window is a client admitted more often than its limit says, unless it is
\* forgotten in between, for any clients, limits, windows and sizes of the store
\* (_purge, is_limited).
THEOREM WindowIsRespected == StoreSpec => []WindowRespected
<1>1. StoreInv => WindowRespected
  BY DEF StoreInv, KeyOK, WindowRespected, Within, InWindow
<1> QED BY <1>1, StoreInvariance, PTL

\* Nobody is refused who has not used up its limit in the last window (is_limited).
THEOREM RefusalsAreEarned == StoreSpec => RefusalsEarned
<1>1. ASSUME StoreInv, NEW k \in Keys, Refuse(k)
      PROVE  Cardinality({e \in log[k] : e.at + Window >= now}) >= Limits[k]
  <2> DEFINE recent == {e \in log[k] : e.at + Window >= now}
  <2>1. IsFiniteSet(log[k]) /\ Purged(k) \subseteq log[k]
    BY <1>1, PurgedOK DEF KeyOK
  <2>2. Purged(k) \subseteq recent
    BY <2>1 DEF Purged
  <2>3. IsFiniteSet(recent) /\ Cardinality(recent) \in Nat /\ Cardinality(Purged(k)) \in Nat
        /\ Cardinality(Purged(k)) <= Cardinality(recent)
    BY <2>1, <2>2, FS_Subset, FS_CardinalityType
  <2>4. Cardinality(Purged(k)) >= Limits[k] /\ Limits[k] \in Nat
    BY <1>1, InboundAssumption DEF Refuse
  <2> QED BY <2>3, <2>4
<1>2. StoreInv => [\A k \in Keys :
         Refuse(k) => Cardinality({e \in log[k] : e.at + Window >= now}) >= Limits[k]]_storeVars
  BY <1>1
<1> QED BY <1>2, StoreInvariance, PTL DEF StoreSpec, RefusalsEarned

\* Nobody is forgotten before MaxBuckets others have been admitted at least as
\* recently (_evict_one).
THEOREM OnlyLeastRecentForgotten == StoreSpec => LeastRecentForgotten
<1>1. ASSUME StoreInv, [StoreNext]_storeVars, NEW k \in Keys, log[k] # {}, log'[k] = {}
      PROVE  \E others \in SUBSET (Keys \ {k}) :
               /\ Cardinality(others) >= MaxBuckets
               /\ \A j \in others : \A e \in log[k] : \E d \in log'[j] : e.at <= d.at
  <2>1. log' # log
    BY <1>1
  <2>2. PICK c \in Keys : Admit(c)
    BY <1>1, <2>1 DEF StoreNext, Refuse, StoreTick, storeVars
  <2> DEFINE f == Recorded(c)
  <2>3. /\ DOMAIN f \subseteq Keys /\ IsFiniteSet(DOMAIN f) /\ Cardinality(DOMAIN f) \in Nat
        /\ \A j \in DOMAIN f : f[j] # {}
        /\ f[c] = Purged(c) \cup {Entry(c)}
        /\ \A j \in DOMAIN f \ {c} : j \in DOMAIN buckets /\ f[j] = buckets[j]
        /\ Purged(c) \subseteq log[c]
    BY <1>1, <2>2, RecordedShape, EntryOK DEF Admit
  <2>4. ~(log' = [log EXCEPT ![c] = @ \cup {Entry(c)}])
    BY <1>1 DEF StoreInv
  <2>5. PICK i \in DOMAIN f : Forget(f, c, i) /\ Cardinality(DOMAIN f) > MaxBuckets
    BY <2>2, <2>4 DEF Admit
  <2>6. /\ i # c /\ Oldest(f, i)
        /\ log' = [log EXCEPT ![c] = @ \cup {Entry(c)}, ![i] = {}]
    BY <2>5 DEF Forget
  <2> HIDE DEF f
  <2>7. k = i
    BY <1>1, <2>3, <2>6 DEF StoreInv
  <2>8. \A j \in DOMAIN f \ {k} : f[j] \subseteq log'[j]
    <3> SUFFICES ASSUME NEW j \in DOMAIN f \ {k} PROVE f[j] \subseteq log'[j]
      OBVIOUS
    <3>1. CASE j = c
      <4>1. log'[c] = log[c] \cup {Entry(c)}
        BY <1>1, <2>6 DEF StoreInv
      <4> QED BY <2>3, <3>1, <4>1
    <3>2. CASE j # c
      <4>1. log'[j] = log[j] /\ f[j] = buckets[j] /\ j \in DOMAIN buckets
        BY <1>1, <2>3, <2>6, <2>7, <3>2 DEF StoreInv
      <4> QED BY <1>1, <2>3, <4>1 DEF StoreInv, KeyOK, Bucket
    <3> QED BY <3>1, <3>2
  <2>9. \A j \in DOMAIN f \ {k}, e \in log[k] : \E d \in log'[j] : e.at <= d.at
    <3> SUFFICES ASSUME NEW j \in DOMAIN f \ {k}, NEW e \in log[k]
                 PROVE  \E d \in log'[j] : e.at <= d.at
      OBVIOUS
    <3>1. /\ f[k] = buckets[k] /\ k \in DOMAIN buckets /\ f[k] # {} /\ f[k] \subseteq log[k]
          /\ \A b \in log[k] \ f[k], d \in f[k] : b.at <= d.at
      BY <1>1, <2>3, <2>6, <2>7 DEF StoreInv, KeyOK, Bucket
    <3>2. PICK b \in f[k] : e.at <= b.at
      <4>1. e.at \in Nat
        BY <1>1 DEF StoreInv, AllEntries
      <4>2. CASE e \in f[k]
        BY <4>1, <4>2
      <4>3. CASE e \notin f[k]
        BY <3>1, <4>3
      <4> QED BY <4>2, <4>3
    <3>3. PICK d \in f[j] : b.at <= d.at
      BY <2>6, <2>7 DEF Oldest
    <3>4. /\ e.at \in Nat /\ b.at \in Nat /\ d.at \in Nat
      <4>1. f[j] \subseteq AllEntries
        BY <1>1, <2>2, <2>3, RecordedShape DEF Admit, f
      <4> QED BY <1>1, <3>1, <4>1 DEF StoreInv, AllEntries
    <3> QED BY <2>8, <3>2, <3>3, <3>4
  <2>10. Cardinality(DOMAIN f \ {k}) >= MaxBuckets
    <3> DEFINE D == DOMAIN f
    <3>1. Cardinality(D \ {k}) = IF k \in D THEN Cardinality(D) - 1 ELSE Cardinality(D)
      BY <2>3, FS_RemoveElement
    <3>2. k \in D /\ Cardinality(D) \in Nat /\ Cardinality(D) > MaxBuckets /\ MaxBuckets \in Nat
      BY <2>3, <2>5, <2>7, InboundAssumption
    <3> HIDE DEF D
    <3>3. Cardinality(D \ {k}) >= MaxBuckets
      BY <3>1, <3>2
    <3> QED BY <3>3 DEF D
  <2> QED BY <2>3, <2>9, <2>10
<1>2. StoreInv /\ [StoreNext]_storeVars =>
        [\A k \in Keys :
           log[k] # {} /\ log'[k] = {} =>
             \E others \in SUBSET (Keys \ {k}) :
               /\ Cardinality(others) >= MaxBuckets
               /\ \A j \in others : \A e \in log[k] : \E d \in log'[j] : e.at <= d.at]_storeVars
  BY <1>1
<1> QED BY <1>2, StoreInvariance, PTL DEF StoreSpec, LeastRecentForgotten

-----------------------------------------------------------------------------
\* What stands around what.
LEMMA LayerOrder ==
    /\ Outside("timeout", "body") /\ Outside("timeout", "app")
    /\ ~Outside("timeout", "timeout") /\ ~Outside("timeout", "limiter")
    /\ ~Outside("timeout", "errors")
    /\ Outside("security", "app") /\ Outside("security", "limiter")
<1>1. DOMAIN Layers = 1..7
  BY DEF Layers
<1>2. /\ Layers[1] = "app" /\ Layers[2] = "cors" /\ Layers[3] = "body" /\ Layers[4] = "timeout"
      /\ Layers[5] = "limiter" /\ Layers[6] = "security" /\ Layers[7] = "errors"
  BY DEF Layers
<1>3. \A i \in 1..7 : i = 1 \/ i = 2 \/ i = 3 \/ i = 4 \/ i = 5 \/ i = 6 \/ i = 7
  OBVIOUS
<1>4. \A i \in 1..7 : Layers[i] = "timeout" => i = 4
  BY <1>2, <1>3
<1>5. \A j \in 1..7 : j < 4 => Layers[j] \notin {"timeout", "limiter", "errors"}
  BY <1>2, <1>3
<1>6. /\ ~Outside("timeout", "timeout") /\ ~Outside("timeout", "limiter")
      /\ ~Outside("timeout", "errors")
  BY <1>1, <1>4, <1>5 DEF Outside
<1>7. Outside("timeout", "body") /\ Outside("timeout", "app")
  <2>1. 3 \in 1..7 /\ 1 \in 1..7 /\ 4 \in 1..7 /\ 3 < 4 /\ 1 < 4
    OBVIOUS
  <2> QED BY <1>1, <1>2, <2>1 DEF Outside
<1>8. Outside("security", "app") /\ Outside("security", "limiter")
  <2>1. 5 \in 1..7 /\ 1 \in 1..7 /\ 6 \in 1..7 /\ 5 < 6 /\ 1 < 6
    OBVIOUS
  <2> QED BY <1>1, <1>2, <2>1 DEF Outside
<1> QED BY <1>6, <1>7, <1>8

\* A request in a consistent state.
RequestOK(r) ==
    /\ r \in Requests
    /\ r.stage = "free" => r.begun = 0
    /\ r.stage = "reading" => r.at = "body" /\ r.begun = 0
    /\ r.stage = "handling" => r.at = "app" /\ r.begun = 0
    /\ r.stage = "answering" => r.begun > 0
    /\ r.begun = 2 => r.at = "timeout" /\ r.spent = Patience
    /\ r.begun > 0 => r.headers

PipeInv ==
    /\ conn \in [Conns -> Requests]
    /\ \A c \in Conns : RequestOK(conn[c])

\* A response that is begun by a layer, the first one or the 504 of the timer.
LEMMA AnsweredOK ==
    ASSUME NEW r, RequestOK(r), NEW layer \in {"app", "body", "timeout", "limiter", "errors"},
           r.begun = 0 \/ (r.begun = 1 /\ layer = "timeout" /\ r.spent = Patience)
    PROVE  RequestOK(Answered(r, layer))
<1> DEFINE headers == layer \in BringsHeaders \/ Outside("security", layer)
           d1 == [r EXCEPT !.stage = "answering"]
           d2 == [d1 EXCEPT !.at = layer]
           d3 == [d2 EXCEPT !.got = 0]
           d4 == [d3 EXCEPT !.begun = @ + 1]
           d5 == [d4 EXCEPT !.headers = headers]
<1>1. Answered(r, layer) = d5
  BY DEF Answered
<1>2. headers \in BOOLEAN /\ headers
  BY LayerOrder DEF BringsHeaders
<1> HIDE DEF headers
<1>3. r \in Requests /\ 0 \in 0..MaxBody /\ layer \in LayerNames /\ r.begun + 1 \in 1..2
  BY PipelineAssumption DEF RequestOK, LayerNames
<1>4. d1 \in Requests /\ d1.stage = "answering" /\ d1.begun = r.begun /\ d1.spent = r.spent
  BY <1>3 DEF Requests
<1> HIDE DEF d1
<1>5. /\ d2 \in Requests /\ d2.stage = "answering" /\ d2.begun = r.begun /\ d2.spent = r.spent
      /\ d2.at = layer
  BY <1>3, <1>4 DEF Requests
<1> HIDE DEF d2
<1>6. /\ d3 \in Requests /\ d3.stage = "answering" /\ d3.begun = r.begun /\ d3.spent = r.spent
      /\ d3.at = layer
  BY <1>3, <1>5 DEF Requests
<1> HIDE DEF d3
<1>7. /\ d4 \in Requests /\ d4.stage = "answering" /\ d4.begun = r.begun + 1 /\ d4.spent = r.spent
      /\ d4.at = layer
  BY <1>3, <1>6 DEF Requests
<1> HIDE DEF d4
<1>8. /\ d5 \in Requests /\ d5.stage = "answering" /\ d5.begun = r.begun + 1 /\ d5.spent = r.spent
      /\ d5.at = layer /\ d5.headers = headers
  BY <1>2, <1>7 DEF Requests
<1> HIDE DEF d5
<1>9. RequestOK(d5)
  BY <1>2, <1>8 DEF RequestOK
<1> QED BY <1>1, <1>9

LEMMA FreshOK == RequestOK(NoRequest) /\ NoRequest.begun = 0 /\ RequestOK(Reading) /\ Reading.begun = 0
<1>1. RequestOK(NoRequest) /\ NoRequest.begun = 0
  BY PipelineAssumption DEF RequestOK, NoRequest, Requests, LayerNames
<1> DEFINE d1 == [NoRequest EXCEPT !.stage = "reading"]
           d2 == [d1 EXCEPT !.at = "body"]
<1>2. Reading = d2
  BY DEF Reading
<1>3. d1 \in Requests /\ d1.stage = "reading" /\ d1.begun = 0
  BY <1>1 DEF RequestOK, Requests
<1> HIDE DEF d1
<1>4. d2 \in Requests /\ d2.stage = "reading" /\ d2.begun = 0 /\ d2.at = "body"
  BY <1>3 DEF Requests, LayerNames
<1> HIDE DEF d2
<1> QED BY <1>1, <1>2, <1>4 DEF RequestOK

\* Parts of a body, and the whole of it.
LEMMA BodyOK ==
    ASSUME NEW r, RequestOK(r), r.stage = "reading"
    PROVE  /\ RequestOK(Handed(r))
           /\ r.got # MaxBody => RequestOK(Kept(r)) /\ RequestOK(Handed(Kept(r)))
<1>1. ASSUME NEW q, RequestOK(q), q.stage = "reading" PROVE RequestOK(Handed(q))
  <2> DEFINE d1 == [q EXCEPT !.stage = "handling"]
             d2 == [d1 EXCEPT !.at = "app"]
  <2>1. Handed(q) = d2
    BY DEF Handed
  <2>2. d1 \in Requests /\ d1.stage = "handling" /\ d1.begun = 0
    BY <1>1 DEF RequestOK, Requests
  <2> HIDE DEF d1
  <2>3. d2 \in Requests /\ d2.stage = "handling" /\ d2.begun = 0 /\ d2.at = "app"
    BY <2>2 DEF Requests, LayerNames
  <2> HIDE DEF d2
  <2> QED BY <2>1, <2>3 DEF RequestOK
<1>2. ASSUME r.got # MaxBody PROVE RequestOK(Kept(r)) /\ Kept(r).stage = "reading"
  <2>1. r.got + 1 \in 0..MaxBody /\ r \in Requests
    <3>1. r \in Requests /\ r.got \in 0..MaxBody
      BY DEF RequestOK, Requests
    <3> QED BY <1>2, <3>1, PipelineAssumption
  <2>2. /\ Kept(r) \in Requests /\ Kept(r).stage = "reading" /\ Kept(r).at = r.at
        /\ Kept(r).begun = r.begun
    BY <2>1 DEF Kept, Requests
  <2> QED BY <2>2 DEF RequestOK
<1> QED BY <1>1, <1>2

\* One connection takes a step of its own.
LEMMA OneConnection ==
    ASSUME PipeInv, NEW c \in Conns, NEW new, RequestOK(new), conn' = [conn EXCEPT ![c] = new]
    PROVE  PipeInv'
<1>1. new \in Requests
  BY DEF RequestOK
<1>2. conn' \in [Conns -> Requests]
  BY <1>1 DEF PipeInv
<1>3. \A d \in Conns : conn'[d] = IF d = c THEN new ELSE conn[d]
  BY DEF PipeInv
<1> QED BY <1>2, <1>3 DEF PipeInv

\* The connections use the store as InboundLimiter says and stay consistent.
LEMMA PipelineStep ==
    PipeInv /\ [PipelineNext]_pipelineVars => PipeInv' /\ [StoreNext]_storeVars
<1> SUFFICES ASSUME PipeInv, [PipelineNext]_pipelineVars
             PROVE  PipeInv' /\ [StoreNext]_storeVars
  OBVIOUS
<1>0. \A c \in Conns : RequestOK(conn[c])
  BY DEF PipeInv
<1>1. ASSUME NEW c \in Conns, NEW k \in Keys, Refused(c, k)
      PROVE  PipeInv' /\ [StoreNext]_storeVars
  <2>1. PipeInv'
    BY <1>1, FreshOK, AnsweredOK, OneConnection DEF Refused
  <2> QED BY <1>1, <2>1 DEF Refused, StoreNext
<1>2. ASSUME NEW c \in Conns, NEW k \in Keys, Admitted(c, k)
      PROVE  PipeInv' /\ [StoreNext]_storeVars
  <2>1. PipeInv'
    <3>1. CASE conn' = [conn EXCEPT ![c] = Reading]
      BY <3>1, FreshOK, OneConnection
    <3>2. CASE conn' = [conn EXCEPT ![c] = Answered(Reading, "body")]
      BY <3>2, FreshOK, AnsweredOK, OneConnection
    <3> QED BY <1>2, <3>1, <3>2 DEF Admitted
  <2> QED BY <1>2, <2>1 DEF Admitted, StoreNext
<1>3. ASSUME NEW c \in Conns, NEW layer \in {"app", "body", "timeout", "errors"},
             conn[c].stage \in {"reading", "handling"}, Begins(c, layer)
      PROVE  PipeInv'
  <2>1. RequestOK(conn[c]) /\ conn[c].begun = 0
    BY <1>0, <1>3 DEF RequestOK
  <2> QED BY <1>3, <2>1, AnsweredOK, OneConnection DEF Begins
<1>4. ASSUME NEW c \in Conns, Chunk(c) \/ BodyEnds(c)
      PROVE  PipeInv' /\ UNCHANGED storeVars
  <2>1. RequestOK(conn[c]) /\ conn[c].stage = "reading"
    BY <1>0, <1>4 DEF Chunk, BodyEnds
  <2>2. CASE Begins(c, "body")
    BY <1>3, <1>4, <2>1, <2>2 DEF Chunk, BodyEnds
  <2>3. CASE conn' = [conn EXCEPT ![c] = Handed(conn[c])]
    BY <1>4, <2>1, <2>3, BodyOK, OneConnection DEF Chunk, BodyEnds
  <2>4. CASE conn[c].got # MaxBody /\ conn' = [conn EXCEPT ![c] = Kept(conn[c])]
    BY <1>4, <2>1, <2>4, BodyOK, OneConnection DEF Chunk, BodyEnds
  <2>5. CASE conn[c].got # MaxBody /\ conn' = [conn EXCEPT ![c] = Handed(Kept(conn[c]))]
    BY <1>4, <2>1, <2>5, BodyOK, OneConnection DEF Chunk, BodyEnds
  <2> QED BY <1>4, <2>2, <2>3, <2>4, <2>5 DEF Chunk, BodyEnds
<1>5. ASSUME NEW c \in Conns, Answer(c) \/ Raise(c)
      PROVE  PipeInv' /\ UNCHANGED storeVars
  BY <1>3, <1>5 DEF Answer, Raise
<1>6. ASSUME NEW c \in Conns, Complete(c)
      PROVE  PipeInv' /\ UNCHANGED storeVars
  BY <1>6, FreshOK, OneConnection DEF Complete
<1>7. ASSUME NEW c \in Conns, Expire(c)
      PROVE  PipeInv' /\ UNCHANGED storeVars
  <2>1. RequestOK(conn[c]) /\ conn[c].stage # "free" /\ conn[c].at # "timeout"
        /\ conn[c].spent = Patience
    BY <1>0, <1>7, LayerOrder DEF Expire, Timed
  <2>2. conn[c].begun \in {0, 1}
    BY <2>1 DEF RequestOK, Requests
  <2>3. RequestOK(Answered(conn[c], "timeout"))
    BY <2>1, <2>2, AnsweredOK
  <2> QED BY <1>7, <2>3, OneConnection DEF Expire, Begins
<1>8. CASE PipelineTick
  <2>1. \A c \in Conns : RequestOK(conn'[c])
    <3> SUFFICES ASSUME NEW c \in Conns PROVE RequestOK(conn'[c])
      OBVIOUS
    <3>1. CASE Timed(c)
      <4> DEFINE r == conn[c]
                 d == [r EXCEPT !.spent = @ + 1]
      <4>1. conn'[c] = d /\ r.spent < Patience /\ r.at # "timeout" /\ RequestOK(r)
        BY <1>0, <1>8, <3>1, LayerOrder DEF PipelineTick, Timed
      <4> HIDE DEF r
      <4>2. r \in Requests /\ r.spent \in 0..Patience
        BY <4>1 DEF RequestOK, Requests
      <4>3. r.spent + 1 \in 0..Patience
        BY <4>1, <4>2, PipelineAssumption
      <4>4. /\ d \in Requests /\ d.stage = r.stage /\ d.at = r.at /\ d.begun = r.begun
            /\ d.headers = r.headers
        BY <4>2, <4>3 DEF Requests
      <4> HIDE DEF d
      <4> QED BY <4>1, <4>4 DEF RequestOK
    <3>2. CASE ~Timed(c)
      BY <1>0, <1>8, <3>2 DEF PipelineTick
    <3> QED BY <3>1, <3>2
  <2>2. conn' \in [Conns -> Requests]
    <3>1. conn' = [c \in Conns |-> conn'[c]]
      BY <1>8 DEF PipelineTick
    <3>2. \A c \in Conns : conn'[c] \in Requests
      BY <2>1 DEF RequestOK
    <3> QED BY <3>1, <3>2
  <2> QED BY <1>8, <2>1, <2>2 DEF PipeInv, PipelineTick, StoreNext
<1>9. CASE UNCHANGED pipelineVars
  BY <1>9 DEF pipelineVars, PipeInv
<1> QED BY <1>1, <1>2, <1>4, <1>5, <1>6, <1>7, <1>8, <1>9 DEF PipelineNext, PipelineEnd

LEMMA PipelineInitInv == PipelineInit => PipeInv
<1>1. NoRequest \in Requests
  BY FreshOK DEF RequestOK
<1> QED BY <1>1, FreshOK DEF PipelineInit, PipeInv

\* Whatever the connections do, they use the store of the limiter as it is meant to be
\* used, so that its theorems hold for the whole pipeline (RateLimitMiddleware).
THEOREM StoreRefined == PipelineSpec => ImplementsStore
<1>1. PipelineInit => StoreInit
  BY DEF PipelineInit
<1> QED BY <1>1, PipelineInitInv, PipelineStep, PTL DEF PipelineSpec, StoreSpec, ImplementsStore

\* Every connection is in a consistent state throughout.
THEOREM PipelineInvariance == PipelineSpec => []PipeInv
BY PipelineInitInv, PipelineStep, PTL DEF PipelineSpec

\* Requests go from layer to layer as they should, with a body of at most MaxBody, for
\* any connections and any limits.
THEOREM PipelineTypeCorrectness == PipelineSpec => []PipelineTypeOK
<1>1. StoreTypeOK /\ PipeInv => PipelineTypeOK
  BY DEF PipeInv, RequestOK, PipelineTypeOK
<1> QED BY <1>1, StoreRefined, StoreTypeCorrectness, PipelineInvariance, PTL DEF ImplementsStore

\* No response goes out without the security headers (create_app,
\* SecurityHeadersMiddleware, handle_unhandled).
THEOREM HeadersOnEveryResponse == PipelineSpec => []HeadersEverywhere
<1>1. PipeInv => HeadersEverywhere
  BY DEF PipeInv, RequestOK, HeadersEverywhere
<1> QED BY <1>1, PipelineInvariance, PTL

\* The limits bind whatever else happens to a request: a body that is too large, a
\* timeout, an exception (RateLimitMiddleware).
THEOREM PipelineRespectsWindows == PipelineSpec => []WindowRespected
BY StoreRefined, WindowIsRespected, PTL DEF ImplementsStore

\* Nor does a client that sends large bodies or waits for slow handlers lose requests
\* of the window: 429 comes only after max_requests (RateLimitMiddleware._check_memory).
THEOREM PipelineRefusalsEarned == PipelineSpec => RefusalsEarned
BY StoreRefined, RefusalsAreEarned, PTL DEF ImplementsStore

\* Of a full store the pipeline, too, forgets only the client seen longest ago
\* (RateLimitMiddleware._evict_oldest).
THEOREM PipelineForgetsLeastRecent == PipelineSpec => LeastRecentForgotten
BY StoreRefined, OnlyLeastRecentForgotten, PTL DEF ImplementsStore
=============================================================================
