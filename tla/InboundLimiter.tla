--------------------------- MODULE InboundLimiter ---------------------------
(***************************************************************************)
(* _SlidingWindowStore: how often each client has been admitted within the *)
(* last Window, counted in at most MaxBuckets buckets.  is_limited awaits  *)
(* nothing, so it is one step.                                             *)
(*                                                                         *)
(* A key stands for a client and a category of routes, with the limit of   *)
(* that category.  A bucket, a deque of times in the code, is the set of   *)
(* its entries; they are numbered, because two may have the same time, and *)
(* the clock is monotonic, so that popping from the left as long as the    *)
(* first entry is old drops exactly the old ones.                          *)
(***************************************************************************)
EXTENDS Naturals, FiniteSets

CONSTANTS
    Limits,         \* of each key: max_requests of its category
    Window,         \* 60 seconds, in ticks
    MaxBuckets,     \* _MAX_BUCKETS
    MaxTime         \* bound of the clock

Keys == DOMAIN Limits

ASSUME InboundAssumption ==
    /\ \A k \in Keys : Limits[k] \in Nat \ {0}
    /\ Window \in Nat /\ MaxBuckets \in Nat \ {0} /\ MaxTime \in Nat

VARIABLES
    now,            \* time.monotonic()
    buckets,        \* _buckets: of some keys, the entries still kept
    log             \* history: all admissions since the limiter last forgot the key

storeVars == <<now, buckets, log>>

StoreInit ==
    /\ now = 0
    /\ buckets = [k \in {} |-> {}]
    /\ log = [k \in Keys |-> {}]

-----------------------------------------------------------------------------
\* Reading an absent bucket makes an empty one (defaultdict).
Bucket(k) == IF k \in DOMAIN buckets THEN buckets[k] ELSE {}

\* Mutant: what is exactly one window old goes as well.
Purged_OffByOne(k) == {e \in Bucket(k) : e.at + Window > now}

\* The bucket without what is older than the window.
Purged(k) == {e \in Bucket(k) : e.at + Window >= now}

Entry(k) == [n |-> Cardinality(log[k]), at |-> now]

\* Mutant: as its docstring says, _evict_one removes the most recent one.
Oldest_MostRecent(f, k) == \A j \in DOMAIN f : \A d \in f[j] : \E e \in f[k] : d.at <= e.at

\* No bucket ends earlier than that of k.
Oldest(f, k) == \A j \in DOMAIN f : \A e \in f[k] : \E d \in f[j] : e.at <= d.at

\* The buckets once k has got its entry; one of them too many, and the one that was
\* used longest ago goes, which is never the newcomer.
Recorded(k) ==
    [j \in DOMAIN buckets \cup {k} |-> IF j = k THEN Purged(k) \cup {Entry(k)} ELSE buckets[j]]

Without(f, k) == [j \in DOMAIN f \ {k} |-> f[j]]

Forget(f, k, j) ==
    /\ j # k /\ Oldest(f, j)
    /\ buckets' = Without(f, j)
    /\ log' = [log EXCEPT ![k] = @ \cup {Entry(k)}, ![j] = {}]

\* is_limited returns False.
Admit(k) ==
    /\ Cardinality(Purged(k)) < Limits[k]
    /\ IF Cardinality(DOMAIN Recorded(k)) > MaxBuckets
         THEN \E j \in DOMAIN Recorded(k) : Forget(Recorded(k), k, j)
         ELSE /\ buckets' = Recorded(k)
              /\ log' = [log EXCEPT ![k] = @ \cup {Entry(k)}]
    /\ UNCHANGED now

\* Mutant: refused requests count as well.
Refuse_Counts(k) ==
    /\ Cardinality(Purged(k)) >= Limits[k]
    /\ buckets' = [buckets EXCEPT ![k] = Purged(k) \cup {[n |-> Cardinality(buckets[k]) + MaxTime, at |-> now]}]
    /\ UNCHANGED <<now, log>>

\* is_limited returns True, and the purge has happened.
Refuse(k) ==
    /\ Cardinality(Purged(k)) >= Limits[k]
    /\ buckets' = [buckets EXCEPT ![k] = Purged(k)]
    /\ UNCHANGED <<now, log>>

StoreTick ==
    /\ now < MaxTime
    /\ now' = now + 1
    /\ UNCHANGED <<buckets, log>>

StoreNext ==
    \/ \E k \in Keys : Admit(k) \/ Refuse(k)
    \/ StoreTick

StoreSpec == StoreInit /\ [][StoreNext]_storeVars

-----------------------------------------------------------------------------
(* Properties.                                                             *)

Entries == [n : Nat, at : 0..now]

\* No more than MaxBuckets buckets are kept, none of them is empty or over its
\* limit, and each holds admissions of its own client.
StoreTypeOK ==
    /\ now \in Nat
    /\ log \in [Keys -> SUBSET Entries]
    /\ DOMAIN buckets \subseteq Keys /\ Cardinality(DOMAIN buckets) <= MaxBuckets
    /\ \A k \in DOMAIN buckets :
         /\ buckets[k] # {} /\ buckets[k] \subseteq log[k]
         /\ Cardinality(buckets[k]) <= Limits[k]

\* The admissions of k within Window of the entry e.
Within(k, e) == {d \in log[k] : e.at <= d.at /\ d.at <= e.at + Window}

\* In no period of length Window is a client admitted more often than its limit
\* says, however its requests fall and whatever purge has dropped, unless the
\* limiter forgets it in between.
WindowRespected ==
    \A k \in Keys : \A e \in log[k] : Cardinality(Within(k, e)) <= Limits[k]

\* Who is refused has been admitted as often as the limit says in the last Window,
\* on its own account: neither older admissions nor refused requests nor the
\* requests of others count.
RefusalsEarned ==
    [][\A k \in Keys :
         Refuse(k) => Cardinality({e \in log[k] : e.at + Window >= now}) >= Limits[k]]_storeVars

\* A client, limited or not, is forgotten only when MaxBuckets others have been
\* admitted since, or at the same time as, it was for the last time (_evict_one).
LeastRecentForgotten ==
    [][\A k \in Keys :
         log[k] # {} /\ log'[k] = {} =>
           \E others \in SUBSET (Keys \ {k}) :
             /\ Cardinality(others) >= MaxBuckets
             /\ \A j \in others : \A e \in log[k] : \E d \in log'[j] : e.at <= d.at]_storeVars
=============================================================================
