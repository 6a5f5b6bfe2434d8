---------------------------- MODULE PagingProofs -----------------------------
(***************************************************************************)
(* Paging for any catalogue, page sizes, limits, clients and lifetime and  *)
(* size of the cache: what clients are sent implements Listing, and pages  *)
(* fit their readers.  The invariant ties every cache entry, cursor, page  *)
(* and walk to the snapshot that it was cut from, and dates the titles: a  *)
(* title fits the query, or did so a number of ticks ago that the age of   *)
(* the entry or the request bounds.                                        *)
(***************************************************************************)
EXTENDS Paging, SimpleCacheProofs, SequenceTheorems, FiniteSetTheorems

-----------------------------------------------------------------------------
(* The invariant.                                                          *)

\* t fits the query, or did when it last changed at most n ticks ago.
Dated(t, query, n) == t \in Titles /\ (Permitted(upstream[t], query) \/ since[t] <= n)

AllDated(titles, query, n) == \A i \in DOMAIN titles : Dated(titles[i], query, n)

Snapshots == [query : Queries, titles : Seq(Titles), age : 0..Ttl+1, others : 0..MaxSize]

MadeOK ==
    /\ made \in Seq(Snapshots)
    /\ \A i \in 1..Len(made) : Walks!Distinct(made[i].titles)

\* These are the titles of snapshot id from this place on, some if there are any;
\* whether there are more; and the cursor behind them.
Part(id, from, titles, more, token) ==
    /\ id \in 1..Len(made) /\ from \in Nat /\ titles \in Seq(Titles)
    /\ from + Len(titles) > Len(made[id].titles) => titles = <<>>
    /\ from < Len(made[id].titles) => titles # <<>>
    /\ \A i \in 1..Len(titles) : titles[i] = made[id].titles[from + i]
    /\ more = (from + Len(titles) < Len(made[id].titles))
    /\ token \in Tokens \cup {Null}
    /\ token # Null => more /\ token.id = id /\ token.offset = from + Len(titles)

PageOK(page) == Part(page.id, page.from, page.titles, page.more, page.token)

WalkOK(w) ==
    \/ w = NoWalk
    \/ Part(w.id, w.from, w.seen, w.more, w.token)

\* An entry of the cache, with the ticks that are left to it.
EntryOK(k, e) ==
    /\ e = [left |-> e.left, value |-> e.value] /\ e.left \in -1..Ttl
    /\ k[1] = "snapshot" =>
         /\ k[2] \in 1..Len(made)
         /\ e.value.query = made[k[2]].query /\ e.value.titles = made[k[2]].titles
         /\ Alive(e) => AllDated(e.value.titles, e.value.query, Ttl + Patience - e.left)

CacheOK(c) == \A k \in DOMAIN c.entries : EntryOK(k, c.entries[k])

Fetched == [found : Seq(Items), offset : Nat, state : {"open", "done", "failed"}]

\* What passes the filters at all is dated.
FoundOK(found, query, n) ==
    \A i \in DOMAIN found :
      Listable(found[i].class, query.age) => Dated(found[i].title, query, n)

ScanOK(s, query, n) ==
    /\ s \in [{query.groups[i] : i \in DOMAIN query.groups} -> Fetched]
    /\ \A g \in DOMAIN s : FoundOK(s[g].found, query, n)

\* The page continues where the cursor of the request leads.
Follows(r, page) == r.cursor # Null => page.id = r.cursor.id /\ page.from = r.cursor.offset

\* What a request that arrived n ticks ago has while it stands at `place'.
RequestOK(place, r, s, data, n) ==
    /\ r \in IF place = "idle" THEN {Null} ELSE Requested
    /\ place \in {"scanning", "ranking"} => r.cursor = Null
    /\ place = "scanning" => ScanOK(s, r.query, n)
    /\ place = "ranking" => data \in Seq(Titles) /\ AllDated(data, r.query, n)
    /\ place = "rating" =>
         PageOK(data) /\ Follows(r, data) /\ AllDated(data.titles, r.query, Ttl + Patience + n)

Typed ==
    /\ upstream \in Uploads
    /\ since \in [Titles -> 0..Long]
    /\ pc \in [Clients -> {"idle", "scanning", "ranking", "rating"}]
    /\ req = [c \in Clients |-> req[c]]
    /\ scan = [c \in Clients |-> scan[c]]
    /\ held = [c \in Clients |-> held[c]]
    /\ walk = [c \in Clients |-> walk[c]]
    /\ spent \in [Clients -> 0..Patience]
    /\ \A c \in Clients : pc[c] = "idle" => spent[c] = 0
    /\ arrived \in 0..MaxRequests /\ changes \in 0..MaxChanges

IInv ==
    /\ Typed
    /\ MadeOK
    /\ CacheOK(cache)
    /\ \A c \in Clients : WalkOK(walk[c])
    /\ \A c \in Clients : RequestOK(pc[c], req[c], scan[c], held[c], spent[c])
    /\ PagesFitTheReader

SameWorld == UNCHANGED <<upstream, since>>

\* Snapshots are never changed, except for their age and for how often others were used.
MadeGrows ==
    /\ Len(made') >= Len(made)
    /\ \A i \in 1..Len(made) : made'[i].titles = made[i].titles /\ made'[i].query = made[i].query

-----------------------------------------------------------------------------
LEMMA LongFacts == /\ Long \in Nat /\ Ttl \in Nat /\ Patience \in Nat
                   /\ Long = Ttl + Patience + Patience + 1
                   /\ MaxSize \in Nat \ {0}
BY CacheAssumption, PagingAssumption DEF Long

\* Ratings do not matter to what follows, except that there are some.
LEMMA UploadFacts == \A u \in Uploads : u \in [Titles -> AllClasses]
BY PagingAssumption DEF Titles

LEMMA DatedLonger ==
    ASSUME NEW titles, NEW query, NEW n \in Int, NEW m \in Int, n <= m,
           since \in [Titles -> 0..Long], AllDated(titles, query, n)
    PROVE  AllDated(titles, query, m)
BY LongFacts DEF AllDated, Dated

LEMMA DatedStays ==
    ASSUME NEW titles, NEW query, NEW n, SameWorld, AllDated(titles, query, n)
    PROVE  AllDated(titles, query, n)'
BY DEF AllDated, Dated, SameWorld, Permitted

\* What was cut from a snapshot stays a part of it.
LEMMA PartStays ==
    ASSUME MadeOK, MadeGrows, MadeOK', NEW id, NEW from, NEW titles, NEW more, NEW token,
           Part(id, from, titles, more, token)
    PROVE  Part(id, from, titles, more, token)'
<1>1. id \in 1..Len(made') /\ made'[id].titles = made[id].titles
  BY DEF MadeOK, MadeGrows, Part
<1>2. token \in Tokens => token \in Tokens'
  BY DEF MadeOK, MadeGrows, Tokens
<1> QED BY <1>1, <1>2 DEF Part

LEMMA WalkStays ==
    ASSUME MadeOK, MadeGrows, MadeOK', NEW w, WalkOK(w)
    PROVE  WalkOK(w)'
BY PartStays DEF WalkOK

LEMMA RequestedStays ==
    ASSUME MadeOK, MadeGrows, MadeOK', NEW r, r \in Requested
    PROVE  r \in Requested'
<1>1. 1..Len(made) \subseteq 1..Len(made')
  BY DEF MadeOK, MadeGrows
<1>2. Tokens \subseteq Tokens'
  BY <1>1 DEF Tokens
<1> QED BY <1>2 DEF Requested

LEMMA RequestStays ==
    ASSUME MadeOK, MadeGrows, MadeOK', SameWorld,
           NEW place, NEW r, NEW s, NEW data, NEW n, RequestOK(place, r, s, data, n)
    PROVE  RequestOK(place, r, s, data, n)'
<1>1. r \in Requested => r \in Requested'
  BY RequestedStays
<1>2. place = "scanning" => ScanOK(s, r.query, n)'
  BY DatedStays DEF RequestOK, ScanOK, FoundOK, Dated, SameWorld, Permitted
<1>3. place = "ranking" => AllDated(data, r.query, n)'
  BY DatedStays DEF RequestOK
<1>4. place = "rating" => PageOK(data)' /\ AllDated(data.titles, r.query, Ttl + Patience + n)'
  BY PartStays, DatedStays DEF RequestOK, PageOK
<1> QED BY <1>1, <1>2, <1>3, <1>4 DEF RequestOK, Follows

LEMMA CacheStays ==
    ASSUME MadeOK, MadeGrows, MadeOK', SameWorld, NEW c, CacheOK(c)
    PROVE  CacheOK(c)'
<1> SUFFICES ASSUME NEW k \in DOMAIN c.entries PROVE EntryOK(k, c.entries[k])'
  BY DEF CacheOK
<1>1. EntryOK(k, c.entries[k])
  BY DEF CacheOK
<1> QED BY <1>1, DatedStays DEF EntryOK, MadeGrows, MadeOK, Alive

LEMMA GetOK ==
    ASSUME NEW c, NEW k, CacheOK(c)
    PROVE  CacheOK(AfterGet(c, k))
BY GetKeeps DEF CacheOK

LEMMA SetOK ==
    ASSUME NEW c, NEW k, NEW v, CacheOK(c), EntryOK(k, [left |-> Ttl, value |-> v])
    PROVE  CacheOK(AfterSet(c, k, v))
BY SetKeeps DEF CacheOK

-----------------------------------------------------------------------------
(* Snapshots and what is cut from them.                                    *)

LEMMA MadeFacts ==
    ASSUME MadeOK
    PROVE  /\ Len(made) \in Nat /\ DOMAIN made = 1..Len(made)
           /\ \A i \in 1..Len(made) : /\ made[i] \in Snapshots /\ made[i].titles \in Seq(Titles)
                                      /\ made[i].query \in Queries
<1>1. /\ Len(made) \in Nat /\ DOMAIN made = 1..Len(made)
      /\ \A i \in 1..Len(made) : made[i] \in Snapshots
  BY DEF MadeOK
<1> QED BY <1>1 DEF Snapshots

LEMMA PassedOK ==
    ASSUME MadeOK, NEW k
    PROVE  /\ Passed(k) \in Seq(Snapshots) /\ Len(Passed(k)) = Len(made)
           /\ \A i \in 1..Len(made) : /\ Passed(k)[i].titles = made[i].titles
                                      /\ Passed(k)[i].query = made[i].query
<1> DEFINE n(i) == IF SnapshotKey(i) = k THEN 0 ELSE Least(made[i].others + 1, MaxSize)
<1>1. ASSUME NEW i \in 1..Len(made)
      PROVE  /\ Passed(k)[i] = [made[i] EXCEPT !.others = n(i)]
             /\ n(i) \in 0..MaxSize
  <2>1. made[i].others \in 0..MaxSize
    BY <1>1, MadeFacts DEF Snapshots
  <2>2. n(i) \in 0..MaxSize
    BY <2>1, LongFacts DEF Least
  <2> QED BY <2>2, MadeFacts DEF Passed
<1>2. DOMAIN Passed(k) = 1..Len(made) /\ Passed(k) = [i \in 1..Len(made) |-> Passed(k)[i]]
  BY MadeFacts DEF Passed
<1> HIDE DEF n
<1>3. ASSUME NEW i \in 1..Len(made)
      PROVE  /\ Passed(k)[i] \in Snapshots
             /\ Passed(k)[i].titles = made[i].titles /\ Passed(k)[i].query = made[i].query
  <2>1. PICK m, x : m = made[i] /\ x = n(i)
    OBVIOUS
  <2>2. m \in Snapshots /\ x \in 0..MaxSize /\ Passed(k)[i] = [m EXCEPT !.others = x]
    BY <1>1, <2>1, MadeFacts
  <2>3. /\ [m EXCEPT !.others = x] \in Snapshots
        /\ [m EXCEPT !.others = x].titles = m.titles /\ [m EXCEPT !.others = x].query = m.query
    BY <2>2 DEF Snapshots
  <2> QED BY <2>1, <2>2, <2>3
<1> QED BY <1>2, <1>3, MadeFacts

LEMMA PassedMade ==
    ASSUME MadeOK, NEW k, made' = Passed(k)
    PROVE  MadeOK' /\ MadeGrows
BY PassedOK, MadeFacts DEF MadeOK, MadeGrows

NewSnapshot(query, titles) == [query |-> query, titles |-> titles, age |-> 0, others |-> 0]

LEMMA AppendedMade ==
    ASSUME MadeOK, NEW k, NEW query \in Queries, NEW titles \in Seq(Titles),
           Walks!Distinct(titles), made' = Append(Passed(k), NewSnapshot(query, titles))
    PROVE  /\ MadeOK' /\ MadeGrows
           /\ Len(made') = Len(made) + 1
           /\ made'[Len(made) + 1].query = query /\ made'[Len(made) + 1].titles = titles
<1> DEFINE new == NewSnapshot(query, titles)
<1>1. /\ new \in Snapshots /\ new.query = query /\ new.titles = titles
      /\ made' = Append(Passed(k), new)
  BY LongFacts DEF NewSnapshot, Snapshots
<1> HIDE DEF new
<1>2. made' \in Seq(Snapshots) /\ Len(made') = Len(made) + 1
  BY <1>1, PassedOK
<1>3. /\ made'[Len(made) + 1] = new
      /\ \A i \in 1..Len(made) : made'[i] = Passed(k)[i]
  <2>1. PICK m, n : m = Passed(k) /\ n = Len(made)
    OBVIOUS
  <2>2. m \in Seq(Snapshots) /\ Len(m) = n /\ n \in Nat /\ made' = Append(m, new)
    BY <1>1, <2>1, PassedOK, MadeFacts
  <2>3. Append(m, new)[n + 1] = new /\ \A i \in 1..n : Append(m, new)[i] = m[i]
    BY <1>1, <2>2
  <2> QED BY <2>1, <2>2, <2>3
<1> QED BY <1>1, <1>2, <1>3, PassedOK, MadeFacts DEF MadeOK, MadeGrows

\* Two parts, one behind the other, are a part.
LEMMA PartsJoin ==
    ASSUME MadeOK', NEW id, NEW from, NEW seen, NEW more, NEW token, NEW titles, NEW more2,
           NEW token2, from + Len(seen) < Len(made'[id].titles),
           Part(id, from, seen, more, token)', Part(id, from + Len(seen), titles, more2, token2)'
    PROVE  Part(id, from, seen \o titles, more2, token2)'
<1>1. /\ seen \in Seq(Titles) /\ titles \in Seq(Titles) /\ Len(seen) \in Nat /\ Len(titles) \in Nat
      /\ from \in Nat
  BY DEF Part
<1>2. /\ seen \o titles \in Seq(Titles) /\ Len(seen \o titles) = Len(seen) + Len(titles)
      /\ \A i \in 1..Len(seen) + Len(titles) :
           (seen \o titles)[i] = IF i <= Len(seen) THEN seen[i] ELSE titles[i - Len(seen)]
  BY <1>1, ConcatProperties
<1>3. Len(made'[id].titles) \in Nat
  <2>1. id \in 1..Len(made')
    BY DEF Part
  <2>2. made'[id] \in Snapshots
    BY <2>1 DEF MadeOK
  <2> QED BY <2>2 DEF Snapshots
<1>4. \A i \in 1..Len(seen \o titles) : (seen \o titles)[i] = made'[id].titles[from + i]
  <2> SUFFICES ASSUME NEW i \in 1..Len(seen) + Len(titles)
               PROVE  (seen \o titles)[i] = made'[id].titles[from + i]
    BY <1>2
  <2>1. CASE i <= Len(seen)
    BY <1>1, <1>2, <2>1 DEF Part
  <2>2. CASE i > Len(seen)
    <3>1. i - Len(seen) \in 1..Len(titles) /\ from + Len(seen) + (i - Len(seen)) = from + i
      BY <1>1, <2>2
    <3> QED BY <1>1, <1>2, <2>2, <3>1 DEF Part
  <2> QED BY <1>1, <2>1, <2>2
<1>5. titles # <<>> /\ Len(titles) > 0 /\ seen \o titles # <<>>
  BY <1>1, <1>2 DEF Part
<1>6. from + (Len(seen) + Len(titles)) = (from + Len(seen)) + Len(titles)
  BY <1>1
<1> QED BY <1>1, <1>2, <1>3, <1>4, <1>5, <1>6 DEF Part

\* The rest of a list from some place on begins with the titles that are part of it.
LEMMA RestOfList ==
    ASSUME NEW list \in Seq(Titles), NEW from \in Nat, NEW titles \in Seq(Titles),
           from + Len(titles) > Len(list) => titles = <<>>,
           \A i \in 1..Len(titles) : titles[i] = list[from + i]
    PROVE  LET rest == SubSeq(list, from + 1, Len(list))
           IN  /\ rest \in Seq(Titles)
               /\ Len(titles) \in 0..Len(rest)
               /\ titles = SubSeq(rest, 1, Len(titles))
               /\ from + Len(titles) < Len(list) <=> Len(titles) < Len(rest)
               /\ Walks!Distinct(list) => Walks!Distinct(rest)
<1> DEFINE rest == SubSeq(list, from + 1, Len(list))
<1>1. /\ rest \in Seq(Titles)
      /\ Len(rest) = IF from + 1 <= Len(list) THEN Len(list) - from ELSE 0
      /\ \A i \in 1..Len(list) - from : rest[i] = list[from + i]
  <2>1. \A i \in from + 1 .. Len(list) : list[i] \in Titles
    OBVIOUS
  <2>2. /\ rest \in Seq(Titles)
        /\ Len(rest) = IF from + 1 <= Len(list) THEN Len(list) - (from + 1) + 1 ELSE 0
        /\ \A i \in 1..Len(list) - (from + 1) + 1 : rest[i] = list[from + 1 + i - 1]
    BY <2>1, SubSeqProperties
  <2> QED BY <2>2
<1> HIDE DEF rest
<1>2. Len(titles) \in 0..Len(rest)
  BY <1>1
<1>3. titles = SubSeq(rest, 1, Len(titles))
  <2>1. \A i \in 1..Len(titles) : rest[i] \in Titles /\ rest[i] = titles[i]
    BY <1>1, <1>2
  <2>2. /\ SubSeq(rest, 1, Len(titles)) \in Seq(Titles)
        /\ Len(SubSeq(rest, 1, Len(titles))) = Len(titles)
        /\ \A i \in 1..Len(titles) : SubSeq(rest, 1, Len(titles))[i] = titles[i]
    BY <2>1, SubSeqProperties
  <2> QED BY <2>2, SeqEqual
<1>4. from + Len(titles) < Len(list) <=> Len(titles) < Len(rest)
  BY <1>1
<1>5. Walks!Distinct(list) => Walks!Distinct(rest)
  <2> SUFFICES ASSUME Walks!Distinct(list), NEW i \in 1..Len(rest), NEW j \in 1..Len(rest), i # j
               PROVE  rest[i] # rest[j]
    BY <1>1 DEF Walks!Distinct
  <2>1. from + i \in DOMAIN list /\ from + j \in DOMAIN list /\ from + i # from + j
    BY <1>1
  <2>2. rest[i] = list[from + i] /\ rest[j] = list[from + j]
    BY <1>1
  <2> QED BY <2>1, <2>2 DEF Walks!Distinct
<1> QED BY <1>1, <1>2, <1>3, <1>4, <1>5 DEF rest

-----------------------------------------------------------------------------
(* Steps of a request, apart from what it decides.                         *)

\* The variables of c's request after a step, and those of the others as before.
StepsTo(c, p, r, s, d, n, w) ==
    /\ pc' = [pc EXCEPT ![c] = p] /\ req' = [req EXCEPT ![c] = r]
    /\ scan' = [scan EXCEPT ![c] = s] /\ held' = [held EXCEPT ![c] = d]
    /\ spent' = [spent EXCEPT ![c] = n] /\ walk' = [walk EXCEPT ![c] = w]

\* c's request goes on or ends, and the requests of the others stand still.
LEMMA Stepping ==
    ASSUME IInv, NEW c \in Clients, SameWorld, MadeOK', MadeGrows,
           NEW p, NEW r, NEW s, NEW d, NEW n, NEW w,
           p \in {"idle", "scanning", "ranking", "rating"}, n \in 0..Patience,
           p = "idle" => n = 0,
           StepsTo(c, p, r, s, d, n, w), arrived' \in 0..MaxRequests, changes' = changes,
           RequestOK(p, r, s, d, n)', WalkOK(w)', CacheOK(cache)',
           PagesFitTheReader'
    PROVE  IInv'
<1> USE DEF StepsTo
<1>1. Typed'
  BY DEF IInv, Typed, SameWorld
<1>2. ASSUME NEW x \in Clients PROVE WalkOK(walk[x])'
  <2>1. PICK new : new = walk'[x]
    OBVIOUS
  <2>2. CASE x = c
    <3>1. new = w
      BY <2>1, <2>2 DEF IInv, Typed
    <3> QED BY <2>1, <3>1
  <2>3. CASE x # c
    <3>1. WalkOK(new)'
      <4>1. new = walk[x]
        BY <2>1, <2>3 DEF IInv, Typed
      <4>2. WalkOK(new)
        BY <4>1 DEF IInv
      <4> QED BY <4>2, WalkStays DEF IInv
    <3> QED BY <2>1, <3>1
  <2> QED BY <2>2, <2>3
<1>3. ASSUME NEW x \in Clients PROVE RequestOK(pc[x], req[x], scan[x], held[x], spent[x])'
  <2>1. PICK p1, r1, s1, d1, n1 : p1 = pc'[x] /\ r1 = req'[x] /\ s1 = scan'[x] /\ d1 = held'[x]
                                  /\ n1 = spent'[x]
    OBVIOUS
  <2>2. CASE x = c
    <3>1. p1 = p /\ r1 = r /\ s1 = s /\ d1 = d /\ n1 = n
      BY <2>1, <2>2 DEF IInv, Typed
    <3>2. RequestOK(p1, r1, s1, d1, n1)'
      BY <3>1
    <3> QED BY <2>1, <3>2
  <2>3. CASE x # c
    <3>1. RequestOK(p1, r1, s1, d1, n1)
      <4>1. p1 = pc[x] /\ r1 = req[x] /\ s1 = scan[x] /\ d1 = held[x] /\ n1 = spent[x]
        BY <2>1, <2>3 DEF IInv, Typed
      <4> QED BY <4>1 DEF IInv
    <3>2. RequestOK(p1, r1, s1, d1, n1)'
      BY <3>1, RequestStays DEF IInv
    <3> QED BY <2>1, <3>2
  <2> QED BY <2>2, <2>3
<1> QED BY <1>1, <1>2, <1>3 DEF IInv

LEMMA Waiting ==
    ASSUME IInv, NEW c \in Clients, SameWorld, MadeOK', MadeGrows,
           NEW place \in {"scanning", "ranking", "rating"}, NEW data, Await(c, place, data),
           NEW r, req' = [req EXCEPT ![c] = r], NEW s, scan' = [scan EXCEPT ![c] = s],
           NEW n, n = spent[c], RequestOK(place, r, s, data, n)', CacheOK(cache)',
           arrived' \in 0..MaxRequests, changes' = changes
    PROVE  IInv'
<1>1. /\ pc' = [pc EXCEPT ![c] = place] /\ held' = [held EXCEPT ![c] = data]
      /\ spent' = spent /\ walk' = walk /\ PagesFitTheReader'
  BY DEF Await, PagesFitTheReader
<1>2. PICK w : w = walk[c]
  OBVIOUS
<1>3. /\ n \in 0..Patience
      /\ place \in {"idle", "scanning", "ranking", "rating"} /\ (place = "idle" => n = 0)
  BY DEF IInv, Typed
<1>4. WalkOK(w)'
  BY <1>2, WalkStays DEF IInv
<1>5. StepsTo(c, place, r, s, data, n, w)
  <2>1. spent' = [spent EXCEPT ![c] = n] /\ walk' = [walk EXCEPT ![c] = w]
    BY <1>1, <1>2 DEF IInv, Typed
  <2> QED BY <1>1, <2>1 DEF StepsTo
<1> QED BY <1>1, <1>3, <1>4, <1>5, Stepping

\* A request ends, and the client's walk may have gone on.
LEMMA Ending ==
    ASSUME IInv, NEW c \in Clients, SameWorld, MadeOK', MadeGrows,
           NEW r, NEW status, NEW page, Answer(c, r, status, page),
           NEW w, walk' = [walk EXCEPT ![c] = w], WalkOK(w)', CacheOK(cache)',
           arrived' \in 0..MaxRequests, changes' = changes,
           status = "served" => AllDated(page.titles, r.query, Ttl + 2 * Patience)'
    PROVE  IInv'
<1>1. PagesFitTheReader'
  BY DEF Answer, PagesFitTheReader, AllDated, Dated
<1>2. 0 \in 0..Patience /\ RequestOK("idle", Null, Null, Null, 0)'
  BY LongFacts DEF RequestOK
<1>3. StepsTo(c, "idle", Null, Null, Null, 0, w)
  BY DEF Answer, StepsTo
<1> QED BY <1>1, <1>2, <1>3, Stepping

\* The walk of a client that puts a page behind those it has, or begins anew.
LEMMA WalkedOK ==
    ASSUME IInv, NEW c \in Clients, MadeOK', MadeGrows, NEW r, NEW page,
           PageOK(page)', Follows(r, page), NEW new, new = Walked(c, r, page)
    PROVE  WalkOK(new)'
<1>1. PICK w, token : w = walk[c] /\ token = r.cursor
  OBVIOUS
<1>2. CASE Onward(c, r)
  <2>0. token # Null /\ token = w.token
    BY <1>1, <1>2 DEF Onward
  <2>1. Part(w.id, w.from, w.seen, w.more, w.token) /\ w.token # Null
    BY <1>1, <2>0 DEF IInv, WalkOK, NoWalk
  <2>2. Part(w.id, w.from, w.seen, w.more, w.token)'
    BY <2>1, PartStays DEF IInv
  <2>3. page.id = w.id /\ page.from = w.from + Len(w.seen)
    BY <1>1, <2>0, <2>1 DEF Follows, Part
  <2>4. w.from + Len(w.seen) < Len(made'[w.id].titles)
    BY <2>1, <2>2 DEF Part
  <2>5. Part(w.id, w.from, w.seen \o page.titles, page.more, page.token)'
    BY <2>2, <2>3, <2>4, PartsJoin DEF PageOK
  <2>6. new = [id |-> page.id, from |-> w.from, seen |-> w.seen \o page.titles,
               more |-> page.more, token |-> page.token, onward |-> TRUE]
    BY <1>1, <1>2 DEF Walked
  <2>7. /\ new.id = w.id /\ new.from = w.from /\ new.seen = w.seen \o page.titles
        /\ new.more = page.more /\ new.token = page.token
    <3>1. PICK joined : joined = w.seen \o page.titles
      OBVIOUS
    <3>2. new = [id |-> page.id, from |-> w.from, seen |-> joined,
                 more |-> page.more, token |-> page.token, onward |-> TRUE]
      BY <2>6, <3>1
    <3>3. /\ new.id = page.id /\ new.from = w.from /\ new.seen = joined
          /\ new.more = page.more /\ new.token = page.token
      BY <3>2
    <3> QED BY <2>3, <3>1, <3>3
  <2>8. Part(new.id, new.from, new.seen, new.more, new.token)'
    BY <2>5, <2>7
  <2> QED BY <2>8 DEF WalkOK
<1>3. CASE ~Onward(c, r)
  <2>0. Onward(c, r) = FALSE
    BY <1>3 DEF Onward
  <2>1. new = [id |-> page.id, from |-> page.from, seen |-> page.titles,
               more |-> page.more, token |-> page.token, onward |-> FALSE]
    BY <1>1, <1>3, <2>0 DEF Walked
  <2> QED BY <2>1 DEF WalkOK, PageOK
<1> QED BY <1>2, <1>3

LEMMA Serving ==
    ASSUME IInv, NEW c \in Clients, SameWorld, MadeOK', MadeGrows, NEW r, NEW page,
           Serve(c, r, page), PageOK(page)', Follows(r, page), CacheOK(cache)',
           AllDated(page.titles, r.query, Ttl + 2 * Patience)',
           arrived' \in 0..MaxRequests, changes' = changes
    PROVE  IInv'
<1>1. PICK new : new = Walked(c, r, page)
  OBVIOUS
<1>2. WalkOK(new)'
  BY <1>1, WalkedOK
<1>3. Answer(c, r, "served", page) /\ walk' = [walk EXCEPT ![c] = new]
  BY <1>1 DEF Serve
<1> QED BY <1>2, <1>3, Ending

LEMMA Unserved ==
    ASSUME IInv, NEW c \in Clients, SameWorld, MadeOK', MadeGrows, NEW r, NEW status, NEW page,
           Answer(c, r, status, page), status # "served", UNCHANGED walk, CacheOK(cache)',
           arrived' \in 0..MaxRequests, changes' = changes
    PROVE  IInv'
<1>1. PICK w : w = walk[c]
  OBVIOUS
<1>2. WalkOK(w)' /\ walk' = [walk EXCEPT ![c] = w]
  BY <1>1, WalkStays DEF IInv, Typed
<1>3. PagesFitTheReader' /\ StepsTo(c, "idle", Null, Null, Null, 0, w)
  BY <1>2 DEF Answer, StepsTo, PagesFitTheReader
<1>4. 0 \in 0..Patience /\ RequestOK("idle", Null, Null, Null, 0)'
  BY LongFacts DEF RequestOK
<1> QED BY <1>2, <1>3, <1>4, Stepping

-----------------------------------------------------------------------------
(* Pages.                                                                  *)

\* The page shows these titles from behind the offset on.
CutFrom(page, id, titles, offset) ==
    /\ page.id = id /\ page.from = offset
    /\ \A i \in DOMAIN page.titles : offset + i \in DOMAIN titles
                                     /\ page.titles[i] = titles[offset + i]

\* A page of snapshot id, cut by its list, is a part of it.
LEMMA PageOfOK ==
    ASSUME MadeOK', NEW id \in 1..Len(made'), NEW query, NEW titles, NEW offset \in Nat,
           NEW limit \in Nat \ {0}, query \in Queries, titles = made'[id].titles,
           NEW page, page = PageOf(id, query, titles, offset, limit)
    PROVE  PageOK(page)' /\ CutFrom(page, id, titles, offset)
<1> DEFINE end == Least(offset + limit, Len(titles))
           cut == SubSeq(titles, offset + 1, end)
           next == offset + Len(cut)
           more == next < Len(titles)
           token == IF more /\ Secret THEN [id |-> id, offset |-> next, query |-> query] ELSE Null
<1>1. titles \in Seq(Titles) /\ Len(titles) \in Nat
  <2>1. made'[id] \in Snapshots
    BY DEF MadeOK
  <2> QED BY <2>1 DEF Snapshots
<1>2. end \in Nat /\ end <= Len(titles) /\ end <= offset + limit
      /\ (end = offset + limit \/ end = Len(titles))
  BY <1>1 DEF Least
<1> HIDE DEF end
<1>3. /\ cut \in Seq(Titles)
      /\ Len(cut) = IF offset + 1 <= end THEN end - (offset + 1) + 1 ELSE 0
      /\ \A i \in 1..end - (offset + 1) + 1 : cut[i] = titles[offset + 1 + i - 1]
  <2>1. \A i \in offset + 1 .. end : titles[i] \in Titles
    BY <1>1, <1>2
  <2> QED BY <1>2, <2>1, SubSeqProperties
<1> HIDE DEF cut
<1>4. /\ Len(cut) = IF offset < end THEN end - offset ELSE 0
      /\ \A i \in 1..Len(cut) : cut[i] = titles[offset + i] /\ offset + i \in 1..Len(titles)
  <2>1. Len(cut) = IF offset < end THEN end - offset ELSE 0
    BY <1>2, <1>3
  <2>2. ASSUME NEW i \in 1..Len(cut)
        PROVE  cut[i] = titles[offset + i] /\ offset + i \in 1..Len(titles)
    <3>1. i \in 1..end - offset /\ end - (offset + 1) + 1 = end - offset
          /\ offset + 1 + i - 1 = offset + i
      BY <1>2, <2>1
    <3> QED BY <1>1, <1>2, <1>3, <3>1
  <2> QED BY <2>1, <2>2
<1>5. next \in Nat /\ more \in BOOLEAN
  BY <1>4, <1>2
<1> HIDE DEF next
<1>6. /\ offset + Len(cut) > Len(titles) => cut = <<>>
      /\ offset < Len(titles) => cut # <<>>
  <2>1. offset + Len(cut) > Len(titles) => Len(cut) = 0
    BY <1>1, <1>2, <1>4
  <2>2. offset < Len(titles) => Len(cut) > 0
    BY <1>1, <1>2, <1>4
  <2> QED BY <1>3, <2>1, <2>2
<1>7. /\ token \in Tokens' \cup {Null}
      /\ token # Null => more /\ token.id = id /\ token.offset = next
  <2>1. [id |-> id, offset |-> next, query |-> query] \in Tokens'
    BY <1>5 DEF Tokens
  <2> QED BY <2>1
<1> HIDE DEF token, more
<1>8. page = [id |-> id, from |-> offset, titles |-> cut, more |-> more, token |-> token]
  <2>1. SubSeq(titles, offset + 1, next) = cut
    <3>1. CASE offset < end
      BY <1>2, <1>4, <3>1 DEF next, cut
    <3>2. CASE offset >= end
      <4>1. next = offset /\ Len(cut) = 0
        BY <1>2, <1>4, <3>2 DEF next
      <4>2. SubSeq(titles, offset + 1, next) = <<>>
        BY <4>1, SubSeqEmpty
      <4> QED BY <1>3, <4>1, <4>2
    <3> QED BY <1>2, <3>1, <3>2
  <2> QED BY <2>1 DEF PageOf, next, cut, end, more, token
<1>9. page.id = id /\ page.from = offset /\ page.titles = cut /\ page.more = more /\ page.token = token
  BY <1>8
<1>10. more = (offset + Len(cut) < Len(titles))
  BY DEF more, next
<1>11. Part(id, offset, cut, more, token)'
  BY <1>1, <1>3, <1>4, <1>6, <1>7, <1>10 DEF Part, next
<1>12. PageOK(page)'
  BY <1>9, <1>11 DEF PageOK
<1>13. DOMAIN cut = 1..Len(cut) /\ DOMAIN titles = 1..Len(titles)
  BY <1>1, <1>3
<1> QED BY <1>4, <1>9, <1>12, <1>13 DEF CutFrom

-----------------------------------------------------------------------------
(* The steps.                                                              *)

LEMMA SameMade ==
    ASSUME MadeOK, UNCHANGED made
    PROVE  MadeOK' /\ MadeGrows
BY MadeFacts DEF MadeOK, MadeGrows

LEMMA SameCache ==
    ASSUME IInv, MadeOK', MadeGrows, SameWorld, UNCHANGED cache
    PROVE  CacheOK(cache)'
<1>1. PICK x : x = cache
  OBVIOUS
<1> QED BY <1>1, CacheStays DEF IInv

LEMMA AtFacts ==
    ASSUME IInv, NEW c \in Clients
    PROVE  /\ RequestOK(pc[c], req[c], scan[c], held[c], spent[c])
           /\ spent[c] \in 0..Patience /\ spent[c] \in Nat
           /\ WalkOK(walk[c])
BY LongFacts DEF IInv, Typed

LEMMA QueryFacts ==
    ASSUME NEW query \in Queries
    PROVE  query.groups \in {<<"named", "none">>, <<"none">>}
BY PagingAssumption

LEMMA UnscannedOK ==
    ASSUME NEW r, r.query \in Queries, NEW n
    PROVE  ScanOK(Unscanned(r), r.query, n)
<1>1. PICK s, fresh : s = Unscanned(r) /\ fresh = [found |-> <<>>, offset |-> 0, state |-> "open"]
  OBVIOUS
<1>2. s = [g \in {r.query.groups[i] : i \in DOMAIN r.query.groups} |-> fresh]
  BY <1>1 DEF Unscanned
<1>3. fresh \in Fetched /\ fresh.found = <<>>
  BY <1>1 DEF Fetched
<1>4. s \in [{r.query.groups[i] : i \in DOMAIN r.query.groups} -> Fetched]
  BY <1>2, <1>3
<1>5. ASSUME NEW g \in DOMAIN s PROVE FoundOK(s[g].found, r.query, n)
  BY <1>2, <1>3, <1>5 DEF FoundOK
<1> QED BY <1>1, <1>4, <1>5 DEF ScanOK

LEMMA ScanBegins ==
    ASSUME IInv, NEW c \in Clients, NEW query \in Queries, NEW limit \in Limits,
           NEW offset \in Offsets, SameWorld, UNCHANGED <<cache, made, changes>>,
           At(c, "idle"), arrived < MaxRequests, arrived' = arrived + 1,
           req' = [req EXCEPT ![c] = [query |-> query, limit |-> limit,
                                      offset |-> offset, cursor |-> Null]],
           scan' = [scan EXCEPT ![c] = Unscanned(req'[c])], Await(c, "scanning", Null)
    PROVE  IInv'
<1>1. PICK r, s, n : /\ r = [query |-> query, limit |-> limit, offset |-> offset, cursor |-> Null]
                     /\ s = Unscanned(r) /\ n = spent[c]
  OBVIOUS
<1>2. req' = [req EXCEPT ![c] = r]
  BY <1>1
<1>3. scan' = [scan EXCEPT ![c] = s]
  BY <1>1, <1>2 DEF IInv, Typed
<1>4. MadeOK' /\ MadeGrows
  BY SameMade DEF IInv
<1>5. CacheOK(cache)'
  BY <1>4, SameCache
<1>6. RequestOK("scanning", r, s, Null, n)'
  <2>1. r.query = query /\ r.cursor = Null /\ r \in Requested'
    BY <1>1 DEF Requested
  <2>2. ScanOK(s, r.query, n)
    BY <1>1, <2>1, UnscannedOK
  <2>3. ScanOK(s, r.query, n)'
    BY <2>2 DEF ScanOK, FoundOK, Dated, SameWorld, Permitted
  <2> QED BY <2>1, <2>3 DEF RequestOK
<1>7. arrived' \in 0..MaxRequests
  BY PagingAssumption DEF IInv, Typed
<1> QED BY <1>1, <1>2, <1>3, <1>4, <1>5, <1>6, <1>7, Waiting

LEMMA CacheAfterGet ==
    ASSUME IInv, MadeOK', MadeGrows, SameWorld, NEW k, cache' = AfterGet(cache, k)
    PROVE  CacheOK(cache)'
<1>1. PICK x : x = cache'
  OBVIOUS
<1>2. CacheOK(x)
  BY <1>1, GetOK DEF IInv
<1> QED BY <1>1, <1>2, CacheStays DEF IInv

\* A page whose list is dated is dated.
LEMMA PageDated ==
    ASSUME NEW page, NEW titles, NEW offset, NEW query, NEW n, AllDated(titles, query, n),
           \A i \in DOMAIN page.titles : offset + i \in DOMAIN titles
                                         /\ page.titles[i] = titles[offset + i]
    PROVE  AllDated(page.titles, query, n)
BY DEF AllDated

\* A cursor whose snapshot is in the cache gets the page that it asks for.
LEMMA TurnOK ==
    ASSUME IInv, NEW c \in Clients, NEW d \in Clients, NEW query \in Queries,
           NEW limit \in Limits, walk[d].token # Null, NEW r,
           r = [query |-> query, limit |-> limit, offset |-> 0, cursor |-> walk[d].token],
           At(c, "idle"), Turn(c, r), SameWorld, UNCHANGED changes,
           arrived < MaxRequests, arrived' = arrived + 1
    PROVE  IInv'
<1>1. PICK token, k, e : token = r.cursor /\ k = SnapshotKey(token.id) /\ e = cache.entries[k]
  OBVIOUS
<1>2. r.query = query /\ r.limit = limit /\ r.offset = 0 /\ r.cursor = walk[d].token
  OBVIOUS
<1>3. token \in Tokens /\ token.id \in 1..Len(made) /\ token.offset \in Nat
  <2>1. WalkOK(walk[d])
    BY DEF IInv
  <2>2. walk[d].token \in Tokens
    BY <2>1 DEF WalkOK, NoWalk, Part
  <2> QED BY <1>1, <1>2, <2>2 DEF Tokens
<1>4. MadeOK' /\ MadeGrows
  BY SameMade, PassedMade DEF Turn, IInv
<1>5. CacheOK(cache)'
  BY <1>4, CacheAfterGet DEF Turn
<1>6. arrived' \in 0..MaxRequests
  BY PagingAssumption DEF IInv, Typed
<1>7. CASE Fresh(cache, k) /\ Matches(Value(cache, k).query, r.query)
  <2>1. PICK titles, page, s, n :
          /\ titles = Value(cache, k).titles
          /\ page = PageOf(token.id, r.query, titles, token.offset, r.limit)
          /\ s = scan[c] /\ n = spent[c]
    OBVIOUS
  <2>2. Await(c, "rating", page) /\ req' = [req EXCEPT ![c] = r] /\ scan' = [scan EXCEPT ![c] = s]
    <3>1. scan' = scan /\ Await(c, "rating", page) /\ req' = [req EXCEPT ![c] = r]
      BY <1>1, <1>7, <2>1 DEF Turn
    <3> QED BY <2>1, <3>1 DEF IInv, Typed
  <2>3. EntryOK(k, e) /\ Alive(e)
    BY <1>1, <1>7 DEF Fresh, IInv, CacheOK
  <2>4. k[1] = "snapshot" /\ k[2] = token.id
    BY <1>1 DEF SnapshotKey
  <2>5. /\ titles = made[token.id].titles /\ made[token.id].query = query
        /\ AllDated(titles, query, Ttl + Patience - e.left)
    BY <1>1, <1>2, <1>7, <2>1, <2>3, <2>4 DEF EntryOK, Value, Matches
  <2>6. /\ PageOK(page)' /\ page.id = token.id /\ page.from = token.offset
        /\ \A i \in DOMAIN page.titles : token.offset + i \in DOMAIN titles
                                         /\ page.titles[i] = titles[token.offset + i]
    <3>1. token.id \in 1..Len(made') /\ titles = made'[token.id].titles
      BY <1>3, <1>4, <2>5 DEF MadeGrows, MadeOK
    <3>2. limit \in Nat \ {0}
      BY PagingAssumption
    <3>3. /\ MadeOK' /\ query \in Queries /\ token.offset \in Nat
          /\ page = PageOf(token.id, query, titles, token.offset, limit)
      BY <1>2, <1>3, <1>4, <2>1
    <3>4. PageOK(page)' /\ CutFrom(page, token.id, titles, token.offset)
      BY <3>1, <3>2, <3>3, PageOfOK
    <3> QED BY <3>4 DEF CutFrom
  <2>7. AllDated(page.titles, query, Ttl + Patience + n)
    <3>1. n = 0
      BY <2>1 DEF At, IInv, Typed
    <3>2. Ttl + Patience - e.left <= Ttl + Patience + n /\ e.left \in Int
      BY <2>3, <3>1, LongFacts DEF EntryOK, Alive
    <3>3. AllDated(titles, query, Ttl + Patience + n)
      BY <2>5, <3>1, <3>2, LongFacts, DatedLonger DEF IInv, Typed
    <3>4. \A i \in DOMAIN page.titles : token.offset + i \in DOMAIN titles
                                         /\ page.titles[i] = titles[token.offset + i]
      BY <2>6
    <3> QED BY <3>3, <3>4 DEF AllDated
  <2>8. RequestOK("rating", r, s, page, n)'
    <3>1. r \in Requested
      BY <1>1, <1>2, <1>3, PagingAssumption DEF Requested
    <3>2. r \in Requested'
      BY <1>4, <3>1, RequestedStays DEF IInv
    <3>3. AllDated(page.titles, r.query, Ttl + Patience + n)'
      BY <1>2, <2>7, DatedStays
    <3>4. Follows(r, page)
      BY <1>1, <2>6 DEF Follows
    <3> QED BY <2>6, <3>2, <3>3, <3>4 DEF RequestOK, Follows
  <2> QED BY <1>4, <1>5, <1>6, <2>1, <2>2, <2>8, Waiting
<1>8. CASE ~(Fresh(cache, k) /\ Matches(Value(cache, k).query, r.query))
  <2>1. Answer(c, r, "gone", Null) /\ UNCHANGED walk
    BY <1>1, <1>8 DEF Turn
  <2> QED BY <1>4, <1>5, <1>6, <2>1, Unserved
<1> QED BY <1>7, <1>8

LEMMA ReceiveOK ==
    ASSUME IInv, NEW c \in Clients, Receive(c)
    PROVE  IInv'
<1>1. SameWorld /\ UNCHANGED changes /\ At(c, "idle") /\ arrived < MaxRequests
      /\ arrived' = arrived + 1
  BY DEF Receive, worldVars, SameWorld
<1>2. ASSUME NEW query \in Queries, NEW limit \in Limits, NEW offset \in Offsets,
             req' = [req EXCEPT ![c] = [query |-> query, limit |-> limit,
                                        offset |-> offset, cursor |-> Null]],
             scan' = [scan EXCEPT ![c] = Unscanned(req'[c])],
             Await(c, "scanning", Null), UNCHANGED <<cache, made>>
      PROVE  IInv'
  BY <1>1, <1>2, ScanBegins
<1>3. ASSUME NEW query \in Queries, NEW limit \in Limits, NEW d \in Clients,
             walk[d].token # Null,
             Turn(c, [query |-> query, limit |-> limit, offset |-> 0, cursor |-> walk[d].token])
      PROVE  IInv'
  BY <1>1, <1>3, TurnOK
<1> QED BY <1>2, <1>3 DEF Receive

\* A scan gets on, and nothing else happens.
LEMMA ScanGoesOn ==
    ASSUME IInv, NEW c \in Clients, At(c, "scanning"), SameWorld, reply' = Null,
           UNCHANGED <<cache, made, changes, pc, req, held, spent, walk, arrived>>,
           NEW s, scan' = [scan EXCEPT ![c] = s], ScanOK(s, req[c].query, spent[c])
    PROVE  IInv'
<1>1. PICK r, d, n, w : r = req[c] /\ d = held[c] /\ n = spent[c] /\ w = walk[c]
  OBVIOUS
<1>2. MadeOK' /\ MadeGrows
  BY SameMade DEF IInv
<1>3. CacheOK(cache)'
  BY <1>2, SameCache
<1>4. RequestOK("scanning", r, s, d, n)
  <2>1. RequestOK("scanning", r, scan[c], d, n)
    BY <1>1, AtFacts DEF At
  <2> QED BY <1>1, <2>1 DEF RequestOK
<1>5. RequestOK("scanning", r, s, d, n)' /\ WalkOK(w)'
  BY <1>1, <1>2, <1>4, RequestStays, WalkStays DEF IInv
<1>6. StepsTo(c, "scanning", r, s, d, n, w) /\ n \in 0..Patience /\ arrived' \in 0..MaxRequests
  BY <1>1 DEF StepsTo, IInv, Typed, At
<1>7. PagesFitTheReader'
  BY DEF PagesFitTheReader
<1> QED BY <1>2, <1>3, <1>5, <1>6, <1>7, Stepping

LEMMA TitlesFinite == IsFiniteSet(Titles)
<1>1. Catalogue \in Seq(Titles)
  BY PagingAssumption DEF Titles
<1>2. Len(Catalogue) \in Nat /\ DOMAIN Catalogue = 1..Len(Catalogue)
  BY <1>1
<1>3. IsFiniteSet(DOMAIN Catalogue)
  BY <1>2, FS_Interval
<1>4. Catalogue \in Surjection(DOMAIN Catalogue, Titles)
  BY <1>1, <1>2 DEF Surjection, Titles
<1> QED BY <1>3, <1>4, FS_Surjection DEF ExistsSurjection

\* An arrangement of titles is a list of them without repetitions.
LEMMA ArrangementFacts ==
    ASSUME NEW titles \in SUBSET Titles, NEW list \in SetToSeqs(titles)
    PROVE  list \in Seq(titles) /\ Walks!Distinct(list)
<1>1. Cardinality(titles) \in Nat
  BY TitlesFinite, FS_Subset, FS_CardinalityType
<1>2. list \in [1..Cardinality(titles) -> titles]
      /\ \A i, j \in 1..Cardinality(titles) : i # j => list[i] # list[j]
  BY DEF SetToSeqs
<1>3. list \in Seq(titles) /\ DOMAIN list = 1..Cardinality(titles)
  BY <1>1, <1>2
<1> QED BY <1>2, <1>3 DEF Walks!Distinct

\* What MangaDex lists for a group fits the query if it passes the filters.
LEMMA MappedOK ==
    ASSUME IInv, NEW g, NEW query, NEW n, NEW raw \in Seq(Offered(g, query))
    PROVE  Mapped(raw) \in Seq(Items) /\ FoundOK(Mapped(raw), query, n)
<1>1. Len(raw) \in Nat /\ DOMAIN raw = 1..Len(raw)
  OBVIOUS
<1>2. ASSUME NEW i \in 1..Len(raw)
      PROVE  /\ raw[i] \in Titles /\ upstream[raw[i]] \in AllClasses
             /\ upstream[raw[i]].rating \in ResolveContentRatings(query.age, query.preference)
  <2>1. raw[i] \in Offered(g, query)
    BY <1>2
  <2> QED BY <2>1, UploadFacts DEF Offered, IInv, Typed
<1>3. ASSUME NEW i \in 1..Len(raw)
      PROVE  [title |-> raw[i], class |-> upstream[raw[i]]] \in Items
  BY <1>2 DEF Items
<1>4. /\ Mapped(raw) \in Seq(Items) /\ DOMAIN Mapped(raw) = 1..Len(raw)
      /\ \A i \in 1..Len(raw) : Mapped(raw)[i] = [title |-> raw[i], class |-> upstream[raw[i]]]
  BY <1>1, <1>3 DEF Mapped
<1> QED BY <1>2, <1>4 DEF FoundOK, Dated, Permitted

LEMMA JoinedFound ==
    ASSUME NEW a \in Seq(Items), NEW b \in Seq(Items), NEW query, NEW n,
           FoundOK(a, query, n), FoundOK(b, query, n)
    PROVE  a \o b \in Seq(Items) /\ FoundOK(a \o b, query, n)
<1>1. /\ a \o b \in Seq(Items) /\ Len(a \o b) = Len(a) + Len(b)
      /\ \A i \in 1..Len(a) + Len(b) : (a \o b)[i] = IF i <= Len(a) THEN a[i] ELSE b[i - Len(a)]
  BY ConcatProperties
<1>2. Len(a) \in Nat /\ Len(b) \in Nat /\ DOMAIN (a \o b) = 1..Len(a) + Len(b)
  BY <1>1
<1>3. ASSUME NEW i \in 1..Len(a) + Len(b)
      PROVE  (\E j \in DOMAIN a : (a \o b)[i] = a[j]) \/ (\E j \in DOMAIN b : (a \o b)[i] = b[j])
  <2>1. CASE i <= Len(a)
    BY <1>1, <1>2, <2>1
  <2>2. CASE i > Len(a)
    <3>1. i - Len(a) \in DOMAIN b
      BY <1>2, <2>2
    <3> QED BY <1>1, <1>2, <2>2, <3>1
  <2> QED BY <1>2, <2>1, <2>2
<1> QED BY <1>1, <1>2, <1>3 DEF FoundOK

LEMMA ExtendedOK ==
    ASSUME IInv, NEW g, NEW query, NEW n, NEW listed \in Listings(g, query),
           NEW group \in Fetched, FoundOK(group.found, query, n),
           NEW new, new = Extended(group, listed)
    PROVE  new \in Fetched /\ FoundOK(new.found, query, n)
<1> DEFINE end == Least(group.offset + PageSize, Len(listed))
           raw == SubSeq(listed, group.offset + 1, end)
           after == group.offset + Len(raw)
           state == IF raw = <<>> \/ after >= Len(listed) \/ after >= MaxOffset
                      THEN "done" ELSE "open"
           found == group.found \o Mapped(raw)
<1>1. listed \in Seq(Offered(g, query)) /\ Len(listed) \in Nat
  <2>1. Offered(g, query) \in SUBSET Titles
    BY DEF Offered
  <2> QED BY <2>1, ArrangementFacts DEF Listings
<1>2. group.offset \in Nat /\ group.found \in Seq(Items)
  BY DEF Fetched
<1>3. end \in Nat /\ end <= Len(listed)
  BY <1>1, <1>2, PagingAssumption DEF Least
<1> HIDE DEF end
<1>4. raw \in Seq(Offered(g, query)) /\ Len(raw) \in Nat
  <2>1. \A i \in group.offset + 1 .. end : listed[i] \in Offered(g, query)
    BY <1>1, <1>2, <1>3
  <2> QED BY <1>2, <1>3, <2>1, SubSeqProperties
<1> HIDE DEF raw
<1>5. found \in Seq(Items) /\ FoundOK(found, query, n)
  BY <1>2, <1>4, MappedOK, JoinedFound
<1>6. after \in Nat /\ state \in {"open", "done", "failed"}
  BY <1>2, <1>4
<1>7. new = [found |-> found, offset |-> after, state |-> state]
  BY DEF Extended, raw, end
<1> HIDE DEF found, after, state
<1>8. new.found = found /\ new \in Fetched
  BY <1>5, <1>6, <1>7 DEF Fetched
<1> QED BY <1>5, <1>8

LEMMA ScanStepOK ==
    ASSUME IInv, NEW c \in Clients, NEW g \in Groups, Scan(c, g)
    PROVE  IInv'
<1>1. PICK s, q, n : s = scan[c] /\ q = req[c].query /\ n = spent[c]
  OBVIOUS
<1>2. ScanOK(s, q, n) /\ g \in DOMAIN s
  BY <1>1, AtFacts DEF Scan, At, RequestOK
<1>3. PICK group : group = s[g]
  OBVIOUS
<1>4. group \in Fetched /\ FoundOK(group.found, q, n)
  BY <1>2, <1>3 DEF ScanOK
<1>5. PICK new : new \in Fetched /\ FoundOK(new.found, q, n) /\ scan' = [scan EXCEPT ![c][g] = new]
  <2>1. CASE ScanFetch(c, g)
    <3>1. PICK listed \in Listings(g, q) : scan' = [scan EXCEPT ![c][g] = Extended(@, listed)]
      BY <1>1, <2>1 DEF ScanFetch
    <3>2. PICK new : new = Extended(group, listed)
      OBVIOUS
    <3>3. scan' = [scan EXCEPT ![c][g] = new]
      BY <1>1, <1>3, <3>1, <3>2
    <3> QED BY <1>4, <3>2, <3>3, ExtendedOK
  <2>2. CASE ScanFails(c, g)
    <3>1. PICK found \in {group.found, <<>>} :
            scan' = [scan EXCEPT ![c][g] = [found |-> found, offset |-> @.offset, state |-> "failed"]]
      BY <1>1, <1>3, <2>2 DEF ScanFails
    <3>2. PICK new : new = [found |-> found, offset |-> group.offset, state |-> "failed"]
      OBVIOUS
    <3>3. scan' = [scan EXCEPT ![c][g] = new]
      BY <1>1, <1>3, <3>1, <3>2
    <3>4. found \in Seq(Items) /\ FoundOK(found, q, n)
      <4>1. CASE found = group.found
        BY <1>4, <4>1 DEF Fetched
      <4>2. CASE found = <<>>
        BY <4>2 DEF FoundOK
      <4> QED BY <4>1, <4>2
    <3>5. new \in Fetched /\ new.found = found
      BY <1>4, <3>2, <3>4 DEF Fetched
    <3> QED BY <3>3, <3>4, <3>5
  <2> QED BY <2>1, <2>2 DEF Scan
<1>6. PICK t : t = [s EXCEPT ![g] = new]
  OBVIOUS
<1>7. ScanOK(t, q, n)
  BY <1>2, <1>5, <1>6 DEF ScanOK
<1>8. scan' = [scan EXCEPT ![c] = t]
  BY <1>1, <1>5, <1>6
<1> QED BY <1>1, <1>7, <1>8, ScanGoesOn DEF Scan, SameWorld, worldVars

\* What the groups found together.
LEMMA FoundTogether ==
    ASSUME NEW c \in Clients, NEW q \in Queries, NEW n, ScanOK(scan[c], q, n)
    PROVE  Found(c) \in Seq(Items) /\ FoundOK(Found(c), q, n)
<1>1. PICK s : s = scan[c]
  OBVIOUS
<1>2. DOMAIN s = {"named", "none"} \/ DOMAIN s = {"none"}
  <2>1. CASE q.groups = <<"named", "none">>
    <3>1. {q.groups[i] : i \in DOMAIN q.groups} = {"named", "none"}
      BY <2>1
    <3> QED BY <1>1, <3>1 DEF ScanOK
  <2>2. CASE q.groups = <<"none">>
    <3>1. {q.groups[i] : i \in DOMAIN q.groups} = {"none"}
      BY <2>2
    <3> QED BY <1>1, <3>1 DEF ScanOK
  <2> QED BY <2>1, <2>2, QueryFacts
<1>3. \A g \in DOMAIN s : s[g].found \in Seq(Items) /\ FoundOK(s[g].found, q, n)
  BY <1>1 DEF ScanOK, Fetched
<1>4. CASE "named" \in DOMAIN s
  <2>1. Found(c) = s["named"].found \o s["none"].found
    BY <1>1, <1>4 DEF Found
  <2> QED BY <1>2, <1>3, <1>4, <2>1, JoinedFound
<1>5. CASE "named" \notin DOMAIN s
  <2>1. Found(c) = s["none"].found
    BY <1>1, <1>5 DEF Found
  <2> QED BY <1>2, <1>3, <2>1
<1> QED BY <1>4, <1>5

LEMMA UnionOK ==
    ASSUME NEW items \in Seq(Items), NEW q, NEW n, FoundOK(items, q, n),
           NEW titles \in UnionsOf(items, q)
    PROVE  titles \in Seq(Titles) /\ Walks!Distinct(titles) /\ AllDated(titles, q, n)
<1> DEFINE S == {items[i].title : i \in Wanted(items, q)}
<1>1. \A t \in S : Dated(t, q, n)
  BY DEF Wanted, FoundOK
<1>2. S \in SUBSET Titles
  BY <1>1 DEF Dated
<1>3. titles \in SetToSeqs(S)
  BY DEF UnionsOf
<1> HIDE DEF S
<1>4. titles \in Seq(S) /\ Walks!Distinct(titles)
  BY <1>2, <1>3, ArrangementFacts
<1>5. titles \in Seq(Titles) /\ \A i \in DOMAIN titles : titles[i] \in S
  BY <1>2, <1>4
<1> QED BY <1>1, <1>4, <1>5 DEF AllDated

\* A snapshot is made, and its first page is cut.
LEMMA SnapshotMade ==
    ASSUME IInv, NEW c \in Clients, SameWorld, NEW r, r = req[c], r \in Requested,
           NEW titles \in Seq(Titles), Walks!Distinct(titles), NEW n \in 0..Patience,
           AllDated(titles, r.query, n), Snapshot(c, titles),
           NEW page, page = FirstPage(r, titles)
    PROVE  /\ MadeOK' /\ MadeGrows /\ CacheOK(cache)' /\ PageOK(page)'
           /\ AllDated(page.titles, r.query, n)
<1>0. PICK id, k, v, q, limit, offset :
        /\ id = Len(made) + 1 /\ k = SnapshotKey(id)
        /\ q = r.query /\ limit = r.limit /\ offset = r.offset
        /\ v = [query |-> q, titles |-> titles]
  OBVIOUS
<1>1. /\ q \in Queries /\ limit \in Nat \ {0} /\ offset \in Nat /\ Len(made) \in Nat
      /\ id \in Nat \ {0}
  <2>1. q \in Queries /\ limit \in Limits /\ offset \in Offsets \cup {0}
    BY <1>0 DEF Requested
  <2>2. Limits \subseteq Nat \ {0} /\ Offsets \subseteq Nat
    BY PagingAssumption
  <2>3. Len(made) \in Nat
    BY MadeFacts DEF IInv
  <2>4. limit \in Nat \ {0} /\ offset \in Nat
    BY <2>1, <2>2
  <2>5. id \in Nat \ {0}
    BY <1>0, <2>3
  <2> QED BY <2>1, <2>3, <2>4, <2>5
<1>2. made' = Append(Passed(k), NewSnapshot(q, titles)) /\ cache' = AfterSet(cache, k, v)
  BY <1>0 DEF Snapshot, NewSnapshot
<1>3. /\ MadeOK' /\ MadeGrows /\ Len(made') = id
      /\ made'[id].query = q /\ made'[id].titles = titles
  BY <1>0, <1>1, <1>2, AppendedMade DEF IInv
<1>4. k[1] = "snapshot" /\ k[2] = id /\ v.query = q /\ v.titles = titles
  BY <1>0 DEF SnapshotKey
<1>5. CacheOK(cache)'
  <2>1. PICK old, new, e : old = cache /\ new = cache' /\ e = [left |-> Ttl, value |-> v]
    OBVIOUS
  <2>2. CacheOK(old)'
    BY <1>3, <2>1, CacheStays DEF IInv
  <2>3. EntryOK(k, e)'
    <3>1. e.left = Ttl /\ e.value = v /\ e = [left |-> e.left, value |-> e.value]
      BY <2>1
    <3>2. Ttl + Patience - Ttl = Patience /\ Ttl \in -1..Ttl /\ n \in Int /\ n <= Patience
          /\ Patience \in Int
      BY LongFacts
    <3>3. AllDated(titles, q, Patience)
      BY <1>0, <3>2, DatedLonger DEF IInv, Typed
    <3>4. AllDated(titles, q, Patience)'
      BY <3>3, DatedStays
    <3>5. id \in 1..Len(made')
      BY <1>1, <1>3
    <3> QED BY <1>3, <1>4, <3>1, <3>2, <3>4, <3>5 DEF EntryOK
  <2>4. \A x \in DOMAIN new.entries : EntryOK(x, new.entries[x])'
    <3>1. new = AfterSet(old, k, v)
      BY <1>2, <2>1
    <3> QED BY <2>1, <2>2, <2>3, <3>1, SetKeeps DEF CacheOK
  <2> QED BY <2>1, <2>4 DEF CacheOK
<1>6. /\ PageOK(page)'
      /\ \A i \in DOMAIN page.titles : /\ offset + i \in DOMAIN titles
                                       /\ page.titles[i] = titles[offset + i]
  <2>1. id \in 1..Len(made')
    BY <1>1, <1>3
  <2>2. page = PageOf(id, q, titles, offset, limit)
    BY <1>0 DEF FirstPage
  <2>3. PageOK(page)' /\ CutFrom(page, id, titles, offset)
    BY <1>1, <1>3, <2>1, <2>2, PageOfOK
  <2> QED BY <2>3 DEF CutFrom
<1>7. AllDated(page.titles, q, n)
  BY <1>0, <1>6, PageDated
<1> QED BY <1>0, <1>3, <1>5, <1>6, <1>7

-----------------------------------------------------------------------------
(* Walks.                                                                  *)

\* In any snapshots m: what a walk has seen is some of the titles from a place on.
SeenIn(m, w) ==
    \/ w = NoWalk
    \/ /\ w.id \in 1..Len(m) /\ w.from \in Nat /\ w.seen \in Seq(Titles)
       /\ w.from + Len(w.seen) > Len(m[w.id].titles) => w.seen = <<>>
       /\ \A i \in 1..Len(w.seen) : w.seen[i] = m[w.id].titles[w.from + i]
       /\ w.more = (w.from + Len(w.seen) < Len(m[w.id].titles))

\* The rest of the list from there on.
RestIn(m, w) ==
    IF w.id = 0 THEN <<>> ELSE SubSeq(m[w.id].titles, w.from + 1, Len(m[w.id].titles))

\* What a walk has seen is the beginning of the rest of its list.
LEMMA WalkFacts ==
    ASSUME NEW m \in Seq(Snapshots), \A i \in 1..Len(m) : Walks!Distinct(m[i].titles),
           NEW w, SeenIn(m, w)
    PROVE  /\ RestIn(m, w) \in Seq(Titles) /\ Walks!Distinct(RestIn(m, w))
           /\ Len(w.seen) \in 0..Len(RestIn(m, w))
           /\ w.seen = SubSeq(RestIn(m, w), 1, Len(w.seen))
           /\ w.more = (Len(w.seen) < Len(RestIn(m, w)))
<1>1. CASE w = NoWalk
  <2>1. w.id = 0 /\ w.seen = <<>> /\ w.more = FALSE
    BY <1>1 DEF NoWalk
  <2>2. PICK rest, seen : rest = RestIn(m, w) /\ seen = w.seen
    OBVIOUS
  <2>3. rest = <<>> /\ seen = <<>>
    BY <2>1, <2>2 DEF RestIn
  <2>4. Len(seen) = 0 /\ Len(rest) = 0 /\ rest \in Seq(Titles) /\ Walks!Distinct(rest)
    BY <2>3 DEF Walks!Distinct
  <2>5. seen = SubSeq(rest, 1, 0)
    BY <2>3, SubSeqEmpty
  <2>6. w.more = (Len(seen) < Len(rest))
    <3>1. (0 < 0) = FALSE
      OBVIOUS
    <3> QED BY <2>1, <2>4, <3>1
  <2>7. Len(seen) \in 0..Len(rest) /\ seen = SubSeq(rest, 1, Len(seen))
    BY <2>4, <2>5
  <2> QED BY <2>2, <2>4, <2>6, <2>7
<1>2. CASE w # NoWalk
  <2>1. PICK list, from, seen : list = m[w.id].titles /\ from = w.from /\ seen = w.seen
    OBVIOUS
  <2>2. /\ w.id \in 1..Len(m) /\ from \in Nat /\ seen \in Seq(Titles)
        /\ from + Len(seen) > Len(list) => seen = <<>>
        /\ \A i \in 1..Len(seen) : seen[i] = list[from + i]
        /\ w.more = (from + Len(seen) < Len(list))
    BY <1>2, <2>1 DEF SeenIn
  <2>3. list \in Seq(Titles) /\ Walks!Distinct(list)
    <3>1. m[w.id] \in Snapshots
      BY <2>2
    <3> QED BY <2>1, <2>2, <3>1 DEF Snapshots
  <2>4. PICK rest : rest = SubSeq(list, from + 1, Len(list))
    OBVIOUS
  <2>5. /\ rest \in Seq(Titles) /\ Len(seen) \in 0..Len(rest) /\ seen = SubSeq(rest, 1, Len(seen))
        /\ from + Len(seen) < Len(list) <=> Len(seen) < Len(rest)
        /\ Walks!Distinct(rest)
    BY <2>2, <2>3, <2>4, RestOfList
  <2>6. RestIn(m, w) = rest
    <3>1. w.id # 0
      BY <2>2
    <3> QED BY <2>1, <2>4, <3>1 DEF RestIn
  <2>7. w.more = (Len(seen) < Len(rest))
    <3>1. (from + Len(seen) < Len(list)) = (Len(seen) < Len(rest))
      BY <2>5
    <3> QED BY <2>2, <3>1
  <2> QED BY <2>1, <2>5, <2>6, <2>7
<1> QED BY <1>1, <1>2

LEMMA WalksSeen ==
    /\ \A w : WalkOK(w) => SeenIn(made, w)
    /\ \A w : WalkOK(w)' => SeenIn(made', w)
BY DEF WalkOK, SeenIn, Part

\* A list does not change under the walk.
LEMMA RestStays ==
    ASSUME MadeOK, MadeGrows, NEW w, WalkOK(w)
    PROVE  RestIn(made', w) = RestIn(made, w)
<1>1. CASE w = NoWalk
  BY <1>1 DEF NoWalk, RestIn
<1>2. CASE Part(w.id, w.from, w.seen, w.more, w.token)
  BY <1>2 DEF Part, RestIn, MadeGrows
<1> QED BY <1>1, <1>2 DEF WalkOK

LEMMA WholeFacts ==
    /\ Whole = [c \in Clients |-> RestIn(made, walk[c])]
    /\ Whole' = [c \in Clients |-> RestIn(made', walk'[c])]
BY DEF Whole, RestIn

\* No walk goes on: to Listing, nothing happens.
LEMMA NobodyWalks ==
    ASSUME IInv, MadeGrows, UNCHANGED walk
    PROVE  UNCHANGED Walks!vars
<1>1. \A c \in Clients : RestIn(made', walk'[c]) = RestIn(made, walk[c])
  BY RestStays DEF IInv
<1>2. Whole' = Whole
  BY <1>1, WholeFacts
<1> QED BY <1>2 DEF Walks!vars

LEMMA OneWalks ==
    ASSUME NEW f, NEW g, NEW c \in Clients, \A d \in Clients : d # c => g[d] = f[d]
    PROVE  /\ [d \in Clients |-> g[d].seen] = [[d \in Clients |-> f[d].seen] EXCEPT ![c] = g[c].seen]
           /\ [d \in Clients |-> g[d].more] = [[d \in Clients |-> f[d].more] EXCEPT ![c] = g[c].more]
           /\ [d \in Clients |-> g[d].onward]
                = [[d \in Clients |-> f[d].onward] EXCEPT ![c] = g[c].onward]
  OBVIOUS

\* What Listing sees of a step.
ListingStep == [Walks!Next]_Walks!vars

\* A page that is served begins a new walk or continues the one that led to it.
LEMMA SomebodyWalks ==
    ASSUME IInv, MadeOK', NEW c \in Clients, MadeGrows, NEW r, NEW page,
           PageOK(page)', Follows(r, page), walk' = [walk EXCEPT ![c] = Walked(c, r, page)]
    PROVE  ListingStep
<1>1. PICK new, old, token : new = Walked(c, r, page) /\ old = walk[c] /\ token = r.cursor
  OBVIOUS
<1>2. walk'[c] = new /\ \A d \in Clients : d # c => walk'[d] = walk[d]
  BY <1>1 DEF IInv, Typed
<1>20. PICK f, g : f = walk /\ g = walk'
  OBVIOUS
<1>21. g[c] = new /\ \A d \in Clients : d # c => g[d] = f[d]
  BY <1>2, <1>20
<1>3. PICK rest, n : rest = RestIn(made', new) /\ n = Len(new.seen)
  OBVIOUS
<1>4. /\ rest \in Seq(Titles) /\ Walks!Distinct(rest) /\ n \in 0..Len(rest)
      /\ new.seen = SubSeq(rest, 1, n) /\ new.more = (n < Len(rest))
  <2>1. WalkOK(new)'
    BY <1>1, WalkedOK
  <2>2. SeenIn(made', new) /\ made' \in Seq(Snapshots)
        /\ \A i \in 1..Len(made') : Walks!Distinct(made'[i].titles)
    BY <2>1, WalksSeen DEF MadeOK
  <2> QED BY <1>3, <2>2, WalkFacts
<1>5. \A d \in Clients : d # c => RestIn(made', walk'[d]) = RestIn(made, walk[d])
  BY <1>2, RestStays DEF IInv
<1>6. Whole' = [Whole EXCEPT ![c] = rest] /\ Whole'[c] = rest
  <2>1. Whole' = [d \in Clients |-> IF d = c THEN rest ELSE RestIn(made, walk[d])]
    BY <1>2, <1>3, <1>5, WholeFacts
  <2> QED BY <2>1, WholeFacts
<1>7. [d \in Clients |-> walk'[d].seen]
        = [[d \in Clients |-> walk[d].seen] EXCEPT ![c] = SubSeq(rest, 1, n)]
  <2>1. [d \in Clients |-> g[d].seen] = [[d \in Clients |-> f[d].seen] EXCEPT ![c] = g[c].seen]
    BY <1>21, OneWalks
  <2>2. g[c].seen = SubSeq(rest, 1, n)
    BY <1>4, <1>21
  <2> QED BY <1>20, <2>1, <2>2
<1>8. [d \in Clients |-> walk'[d].more]
        = [[d \in Clients |-> walk[d].more] EXCEPT ![c] = n < Len(rest)]
  <2>1. [d \in Clients |-> g[d].more] = [[d \in Clients |-> f[d].more] EXCEPT ![c] = g[c].more]
    BY <1>21, OneWalks
  <2>2. g[c].more = (n < Len(rest))
    BY <1>4, <1>21
  <2> QED BY <1>20, <2>1, <2>2
<1>9. Walks!Sent(c, rest, n)
  BY <1>6, <1>7, <1>8 DEF Walks!Sent
<1>10. CASE ~Onward(c, r)
  <2>1. new.onward = FALSE
    BY <1>1, <1>10 DEF Walked, Onward
  <2>2. [d \in Clients |-> walk'[d].onward]
          = [[d \in Clients |-> walk[d].onward] EXCEPT ![c] = FALSE]
    <3>1. [d \in Clients |-> g[d].onward] = [[d \in Clients |-> f[d].onward] EXCEPT ![c] = g[c].onward]
      BY <1>21, OneWalks
    <3> QED BY <1>20, <1>21, <2>1, <3>1
  <2>3. Walks!Begin(c)
    BY <1>4, <1>6, <1>9, <2>2 DEF Walks!Begin
  <2> QED BY <2>3 DEF Walks!Next, ListingStep
<1>11. CASE Onward(c, r)
  <2>1. token # Null /\ token = old.token /\ WalkOK(old)
    BY <1>1, <1>11 DEF Onward, IInv
  <2>2. Part(old.id, old.from, old.seen, old.more, old.token) /\ old.token # Null
    BY <2>1 DEF WalkOK, NoWalk
  <2>3. old.more /\ page.id = old.id /\ page.from = old.from + Len(old.seen)
    BY <1>1, <2>1, <2>2 DEF Follows, Part
  <2>4. PICK joined : joined = old.seen \o page.titles
    OBVIOUS
  <2>5. new = [id |-> page.id, from |-> old.from, seen |-> joined,
               more |-> page.more, token |-> page.token, onward |-> TRUE]
    BY <1>1, <1>11, <2>4 DEF Walked
  <2>6. new.id = old.id /\ new.from = old.from /\ new.seen = joined /\ new.onward = TRUE
    BY <2>3, <2>5
  <2>7. rest = RestIn(made, walk[c])
    <3>1. RestIn(made', new) = RestIn(made', old)
      BY <2>6 DEF RestIn
    <3>2. RestIn(made', old) = RestIn(made, old)
      BY <2>1, RestStays DEF IInv
    <3> QED BY <1>1, <1>3, <3>1, <3>2
  <2>8. n \in Len(old.seen) + 1 .. Len(rest) /\ Len(old.seen) \in Nat
    <3>1. page.titles # <<>> /\ page.titles \in Seq(Titles) /\ old.seen \in Seq(Titles)
      <4>1. made'[old.id].titles = made[old.id].titles
        BY <2>2 DEF Part, MadeGrows
      <4>2. page.from < Len(made'[page.id].titles)
        BY <2>2, <2>3, <4>1 DEF Part
      <4> QED BY <2>2, <4>2 DEF PageOK, Part
    <3>2. Len(joined) = Len(old.seen) + Len(page.titles) /\ Len(page.titles) \in Nat \ {0}
          /\ Len(old.seen) \in Nat
      BY <2>4, <3>1, ConcatProperties, EmptySeq
    <3>3. n = Len(joined)
      <4>1. n = Len(new.seen) /\ new.seen = joined
        BY <1>3, <2>6
      <4> QED BY <4>1
    <3>4. Len(rest) \in Nat /\ n <= Len(rest)
      <4>1. rest \in Seq(Titles) /\ n \in 0..Len(rest)
        BY <1>4
      <4> QED BY <4>1
    <3>5. PICK x, y, z : x = Len(old.seen) /\ y = Len(page.titles) /\ z = Len(rest)
      OBVIOUS
    <3>6. n = x + y /\ x \in Nat /\ y \in Nat \ {0} /\ z \in Nat /\ n <= z
      BY <3>2, <3>3, <3>4, <3>5
    <3>7. n \in x + 1 .. z
      BY <3>6
    <3> QED BY <3>5, <3>6, <3>7
  <2>9. [d \in Clients |-> walk'[d].onward]
          = [[d \in Clients |-> walk[d].onward] EXCEPT ![c] = TRUE]
    <3>1. [d \in Clients |-> g[d].onward] = [[d \in Clients |-> f[d].onward] EXCEPT ![c] = g[c].onward]
      BY <1>21, OneWalks
    <3>2. g[c].onward = TRUE
      BY <1>21, <2>6
    <3> QED BY <1>20, <3>1, <3>2
  <2>10. Whole[c] = rest
    BY <2>7, WholeFacts
  <2>11. Walks!Continue(c)
    BY <1>1, <1>9, <2>3, <2>8, <2>9, <2>10 DEF Walks!Continue
  <2> QED BY <2>11 DEF Walks!Next, ListingStep
<1> QED BY <1>10, <1>11

-----------------------------------------------------------------------------
(* The steps that serve a page.                                            *)

\* The first page of a new snapshot is served, or waits for its statistics first.
LEMMA FirstPageOK ==
    ASSUME IInv, NEW c \in Clients, SameWorld, UNCHANGED <<changes, arrived>>,
           NEW r, r = req[c], r \in Requested, r.cursor = Null,
           NEW titles \in Seq(Titles), Walks!Distinct(titles), AllDated(titles, r.query, spent[c]),
           Snapshot(c, titles), NEW page, page = FirstPage(r, titles),
           Serve(c, r, page) \/ Rate(c, r, page)
    PROVE  IInv' /\ ListingStep
<1>1. PICK n : n = spent[c]
  OBVIOUS
<1>2. n \in 0..Patience /\ n \in Int /\ arrived' \in 0..MaxRequests /\ since \in [Titles -> 0..Long]
  BY <1>1, LongFacts DEF IInv, Typed
<1>3. /\ MadeOK' /\ MadeGrows /\ CacheOK(cache)' /\ PageOK(page)'
      /\ AllDated(page.titles, r.query, n)
  BY <1>1, <1>2, SnapshotMade
<1>4. AllDated(page.titles, r.query, Ttl + 2 * Patience)'
      /\ AllDated(page.titles, r.query, Ttl + Patience + n)'
  <2>1. /\ n <= Ttl + 2 * Patience /\ n <= Ttl + Patience + n
        /\ Ttl + 2 * Patience \in Int /\ Ttl + Patience + n \in Int
    BY <1>2, LongFacts
  <2>2. /\ AllDated(page.titles, r.query, Ttl + 2 * Patience)
        /\ AllDated(page.titles, r.query, Ttl + Patience + n)
    BY <1>2, <1>3, <2>1, DatedLonger
  <2> QED BY <2>2, DatedStays
<1>5. Follows(r, page)
  BY DEF Follows
<1>6. CASE Serve(c, r, page)
  <2>1. IInv'
    BY <1>2, <1>3, <1>4, <1>5, <1>6, Serving
  <2>2. ListingStep
    BY <1>3, <1>5, <1>6, SomebodyWalks DEF Serve
  <2> QED BY <2>1, <2>2
<1>7. CASE Await(c, "rating", page) /\ Scanned(c)
  <2>1. req' = [req EXCEPT ![c] = r] /\ scan' = [scan EXCEPT ![c] = Null]
    BY <1>7 DEF Scanned, IInv, Typed
  <2>2. r \in Requested'
    BY <1>3, RequestedStays DEF IInv
  <2>3. RequestOK("rating", r, Null, page, n)'
    BY <1>3, <1>4, <1>5, <2>2 DEF RequestOK, Follows
  <2>4. IInv'
    BY <1>1, <1>2, <1>3, <1>7, <2>1, <2>3, Waiting
  <2>5. ListingStep
    BY <1>3, <1>7, NobodyWalks DEF Await, ListingStep
  <2> QED BY <2>4, <2>5
<1> QED BY <1>6, <1>7 DEF Rate

LEMMA MergeOK ==
    ASSUME IInv, NEW c \in Clients, Merge(c)
    PROVE  IInv' /\ ListingStep
<1>1. PICK r, n : r = req[c] /\ n = spent[c]
  OBVIOUS
<1>2. /\ r \in Requested /\ r.cursor = Null /\ ScanOK(scan[c], r.query, n) /\ r.query \in Queries
      /\ n \in 0..Patience
  BY <1>1, AtFacts DEF Merge, At, RequestOK, Requested
<1>3. SameWorld /\ UNCHANGED <<changes, arrived>>
  BY DEF Merge, worldVars, SameWorld
<1>4. PICK titles \in UnionsOf(Found(c), r.query) :
        IF r.query.order = "popular" /\ titles # <<>>
          THEN Await(c, "ranking", titles) /\ Scanned(c) /\ UNCHANGED <<cache, made>>
          ELSE /\ Snapshot(c, titles)
               /\ IF r.query.order = "popular" THEN Serve(c, r, FirstPage(r, titles))
                                               ELSE Rate(c, r, FirstPage(r, titles))
  BY <1>1 DEF Merge
<1>5. titles \in Seq(Titles) /\ Walks!Distinct(titles) /\ AllDated(titles, r.query, n)
  BY <1>2, FoundTogether, UnionOK
<1>6. CASE Await(c, "ranking", titles) /\ Scanned(c) /\ UNCHANGED <<cache, made>>
  <2>1. MadeOK' /\ MadeGrows
    BY <1>6, SameMade DEF IInv
  <2>2. CacheOK(cache)'
    BY <1>3, <1>6, <2>1, SameCache
  <2>3. req' = [req EXCEPT ![c] = r] /\ scan' = [scan EXCEPT ![c] = Null]
    BY <1>1, <1>6 DEF Scanned, IInv, Typed
  <2>4. RequestOK("ranking", r, Null, titles, n)'
    <3>1. AllDated(titles, r.query, n)'
      BY <1>3, <1>5, DatedStays
    <3>2. r \in Requested'
      BY <1>2, <2>1, RequestedStays DEF IInv
    <3> QED BY <1>2, <1>5, <3>1, <3>2 DEF RequestOK
  <2>5. arrived' \in 0..MaxRequests
    BY <1>3 DEF IInv, Typed
  <2>6. IInv'
    BY <1>1, <1>3, <1>6, <2>1, <2>2, <2>3, <2>4, <2>5, Waiting
  <2>7. ListingStep
    BY <1>6, <2>1, NobodyWalks DEF Await, ListingStep
  <2> QED BY <2>6, <2>7
<1>7. CASE /\ Snapshot(c, titles)
           /\ Serve(c, r, FirstPage(r, titles)) \/ Rate(c, r, FirstPage(r, titles))
  <2>1. PICK page : page = FirstPage(r, titles)
    OBVIOUS
  <2> QED BY <1>1, <1>2, <1>3, <1>5, <1>7, <2>1, FirstPageOK
<1> QED BY <1>4, <1>6, <1>7

LEMMA RankOK ==
    ASSUME IInv, NEW c \in Clients, Rank(c)
    PROVE  IInv' /\ ListingStep
<1>1. PICK r, n, list : r = req[c] /\ n = spent[c] /\ list = held[c]
  OBVIOUS
<1>2. /\ r \in Requested /\ r.cursor = Null /\ list \in Seq(Titles) /\ AllDated(list, r.query, n)
  BY <1>1, AtFacts DEF Rank, At, RequestOK
<1>3. SameWorld /\ UNCHANGED <<changes, arrived>>
  BY DEF Rank, worldVars, SameWorld
<1>4. PICK titles \in SetToSeqs({list[i] : i \in DOMAIN list}) :
        Snapshot(c, titles) /\ Serve(c, r, FirstPage(r, titles))
  BY <1>1 DEF Rank
<1>5. titles \in Seq(Titles) /\ Walks!Distinct(titles) /\ AllDated(titles, r.query, n)
  <2> DEFINE S == {list[i] : i \in DOMAIN list}
  <2>1. \A t \in S : t \in Titles /\ Dated(t, r.query, n)
    BY <1>2 DEF AllDated, Dated
  <2> HIDE DEF S
  <2>2. titles \in Seq(S) /\ Walks!Distinct(titles)
    BY <1>4, <2>1, ArrangementFacts DEF S
  <2>3. titles \in Seq(Titles) /\ \A i \in DOMAIN titles : titles[i] \in S
    BY <2>1, <2>2
  <2> QED BY <2>1, <2>2, <2>3 DEF AllDated
<1>6. PICK page : page = FirstPage(r, titles)
  OBVIOUS
<1> QED BY <1>1, <1>2, <1>3, <1>4, <1>5, <1>6, FirstPageOK

LEMMA RatedOK ==
    ASSUME IInv, NEW c \in Clients, Rated(c)
    PROVE  IInv' /\ ListingStep
<1>1. PICK r, n, page : r = req[c] /\ n = spent[c] /\ page = held[c]
  OBVIOUS
<1>2. /\ PageOK(page) /\ Follows(r, page) /\ AllDated(page.titles, r.query, Ttl + Patience + n)
      /\ n \in 0..Patience
  BY <1>1, AtFacts DEF Rated, At, RequestOK
<1>3. SameWorld /\ UNCHANGED <<changes, arrived, cache, made>>
  BY DEF Rated, worldVars, SameWorld
<1>4. MadeOK' /\ MadeGrows
  BY <1>3, SameMade DEF IInv
<1>5. CacheOK(cache)' /\ PageOK(page)'
  BY <1>2, <1>3, <1>4, SameCache, PartStays DEF PageOK, IInv
<1>6. AllDated(page.titles, r.query, Ttl + 2 * Patience)'
  <2>1. Ttl + Patience + n <= Ttl + 2 * Patience /\ Ttl + Patience + n \in Int
        /\ Ttl + 2 * Patience \in Int
    BY <1>2, LongFacts
  <2>2. AllDated(page.titles, r.query, Ttl + 2 * Patience)
    BY <1>2, <2>1, DatedLonger DEF IInv, Typed
  <2> QED BY <1>3, <2>2, DatedStays
<1>7. Serve(c, r, page) /\ arrived' \in 0..MaxRequests
  BY <1>1, <1>3 DEF Rated, IInv, Typed
<1>8. IInv'
  BY <1>2, <1>3, <1>4, <1>5, <1>6, <1>7, Serving
<1>9. ListingStep
  BY <1>2, <1>4, <1>5, <1>7, SomebodyWalks DEF Serve
<1> QED BY <1>8, <1>9

LEMMA RequestTimeoutOK ==
    ASSUME IInv, NEW c \in Clients, RequestTimeout(c)
    PROVE  IInv'
<1>1. PICK r : r = req[c]
  OBVIOUS
<1>2. SameWorld /\ UNCHANGED <<changes, arrived, cache, made, walk>>
      /\ Answer(c, r, "timeout", Null)
  BY <1>1 DEF RequestTimeout, worldVars, SameWorld
<1>3. MadeOK' /\ MadeGrows
  BY <1>2, SameMade DEF IInv
<1>4. CacheOK(cache)' /\ arrived' \in 0..MaxRequests
  BY <1>2, <1>3, SameCache DEF IInv, Typed
<1> QED BY <1>2, <1>3, <1>4, Unserved

(* Steps of the world, at which all requests stand still.                  *)

\* By a step that takes d ticks, what is dated grows older by no more than d.
Ages(d) == \A t, query : \A n \in Nat : Dated(t, query, n) => Dated(t, query, n + d)'

LEMMA RequestAges ==
    ASSUME MadeOK, MadeGrows, MadeOK', NEW d \in {0, 1}, Ages(d),
           NEW place, NEW r, NEW s, NEW data, NEW n \in Nat, RequestOK(place, r, s, data, n)
    PROVE  RequestOK(place, r, s, data, n + d)'
<1>1. r \in Requested => r \in Requested'
  BY RequestedStays
<1>2. place = "scanning" => ScanOK(s, r.query, n + d)'
  BY DEF RequestOK, ScanOK, FoundOK, Ages
<1>3. place = "ranking" => AllDated(data, r.query, n + d)'
  BY DEF RequestOK, AllDated, Ages
<1>4. place = "rating" => PageOK(data)' /\ AllDated(data.titles, r.query, Ttl + Patience + (n + d))'
  <2>1. Ttl + Patience + n \in Nat /\ Ttl + Patience + n + d = Ttl + Patience + (n + d)
    BY LongFacts
  <2>2. place = "rating" => AllDated(data.titles, r.query, Ttl + Patience + n)
    BY DEF RequestOK
  <2>3. place = "rating" => AllDated(data.titles, r.query, Ttl + Patience + (n + d))'
    BY <2>1, <2>2 DEF AllDated, Ages
  <2> QED BY <2>3, PartStays DEF RequestOK, PageOK
<1> QED BY <1>1, <1>2, <1>3, <1>4 DEF RequestOK, Follows

\* An entry with d ticks less to live.
LEMMA EntryAges ==
    ASSUME MadeOK, MadeGrows, MadeOK', NEW d \in {0, 1}, Ages(d), NEW k, NEW e, NEW f,
           EntryOK(k, e), f = [left |-> f.left, value |-> f.value], f.value = e.value,
           f.left \in -1..Ttl, Alive(f) => Alive(e) /\ f.left = e.left - d
    PROVE  EntryOK(k, f)'
<1>1. CASE Alive(f)
  <2>1. e.left \in 0..Ttl /\ f.left = e.left - d /\ Alive(e)
    BY <1>1 DEF EntryOK, Alive
  <2>2. /\ Ttl + Patience - e.left \in Nat
        /\ Ttl + Patience - e.left + d = Ttl + Patience - f.left
    BY <2>1, LongFacts
  <2>3. k[1] = "snapshot" => AllDated(e.value.titles, e.value.query, Ttl + Patience - e.left)
    BY <2>1 DEF EntryOK
  <2>4. k[1] = "snapshot" => AllDated(f.value.titles, f.value.query, Ttl + Patience - f.left)'
    BY <2>2, <2>3 DEF AllDated, Ages
  <2> QED BY <2>4 DEF EntryOK, MadeGrows, MadeOK
<1>2. CASE ~Alive(f)
  BY <1>2 DEF EntryOK, MadeGrows, MadeOK, Alive
<1> QED BY <1>1, <1>2

LEMMA StandingStill ==
    ASSUME IInv, MadeOK', MadeGrows, NEW d \in {0, 1}, Ages(d), reply' = Null,
           UNCHANGED <<pc, req, scan, held, walk>>, spent' \in [Clients -> 0..Patience],
           \A c \in Clients : spent'[c] = IF pc[c] = "idle" THEN 0 ELSE spent[c] + d,
           upstream' \in Uploads, since' \in [Titles -> 0..Long], CacheOK(cache)',
           arrived' \in 0..MaxRequests, changes' \in 0..MaxChanges
    PROVE  IInv'
<1>1. Typed'
  BY DEF IInv, Typed
<1>2. ASSUME NEW x \in Clients PROVE WalkOK(walk[x])'
  <2>1. PICK w : w = walk[x] /\ w = walk'[x]
    OBVIOUS
  <2>2. WalkOK(w)'
    BY <2>1, WalkStays DEF IInv
  <2> QED BY <2>1, <2>2
<1>3. ASSUME NEW x \in Clients PROVE RequestOK(pc[x], req[x], scan[x], held[x], spent[x])'
  <2>1. PICK p, r, s, data, n, m :
          /\ p = pc[x] /\ r = req[x] /\ s = scan[x] /\ data = held[x] /\ n = spent[x]
          /\ p = pc'[x] /\ r = req'[x] /\ s = scan'[x] /\ data = held'[x] /\ m = spent'[x]
    OBVIOUS
  <2>2. RequestOK(p, r, s, data, n) /\ n \in Nat
    BY <2>1, AtFacts
  <2>3. RequestOK(p, r, s, data, m)'
    <3>1. CASE p = "idle"
      BY <2>2, <3>1 DEF RequestOK
    <3>2. CASE p # "idle"
      <4>1. m = n + d
        BY <2>1, <3>2
      <4> QED BY <2>2, <4>1, RequestAges DEF IInv
    <3> QED BY <3>1, <3>2
  <2> QED BY <2>1, <2>3
<1>4. PagesFitTheReader'
  BY DEF PagesFitTheReader
<1> QED BY <1>1, <1>2, <1>3, <1>4 DEF IInv

LEMMA OtherRouteOK ==
    ASSUME IInv, OtherRoute
    PROVE  IInv'
<1>1. /\ SameWorld /\ UNCHANGED <<changes, pc, req, scan, held, spent, walk>> /\ reply' = Null
      /\ arrived < MaxRequests /\ arrived' = arrived + 1
  BY DEF OtherRoute, worldVars, SameWorld
<1>2. MadeOK' /\ MadeGrows
  BY PassedMade DEF OtherRoute, IInv
<1>3. CacheOK(cache)'
  <2>1. PICK v, x : v = [query |-> Null, titles |-> <<>>] /\ x = cache'
    OBVIOUS
  <2>2. x = AfterSet(cache, OtherKey, v)
    BY <2>1 DEF OtherRoute
  <2>3. EntryOK(OtherKey, [left |-> Ttl, value |-> v])
    BY LongFacts DEF EntryOK, OtherKey
  <2>4. CacheOK(x)
    BY <2>2, <2>3, SetOK DEF IInv
  <2> QED BY <1>1, <1>2, <2>1, <2>4, CacheStays DEF IInv
<1>4. Ages(0)
  BY <1>1 DEF Ages, Dated, SameWorld, Permitted
<1>5. \A c \in Clients : spent'[c] = IF pc[c] = "idle" THEN 0 ELSE spent[c] + 0
  BY <1>1, LongFacts DEF IInv, Typed
<1>6. arrived' \in 0..MaxRequests
  BY <1>1, PagingAssumption DEF IInv, Typed
<1> QED BY <1>1, <1>2, <1>3, <1>4, <1>5, <1>6, StandingStill DEF IInv, Typed, SameWorld

LEMMA ReclassifyOK ==
    ASSUME IInv, Reclassify
    PROVE  IInv'
<1>1. /\ UNCHANGED <<cache, made, pc, req, scan, held, spent, walk, arrived>> /\ reply' = Null
      /\ upstream' \in Uploads
      /\ since' = [t \in Titles |-> IF upstream'[t] = upstream[t] THEN since[t] ELSE 0]
  BY DEF Reclassify
<1>2. MadeOK' /\ MadeGrows
  BY <1>1, SameMade DEF IInv
<1>3. since' \in [Titles -> 0..Long] /\ changes' \in 0..MaxChanges
  BY <1>1, LongFacts, PagingAssumption DEF Reclassify, IInv, Typed
<1>4. Ages(0)
  <2> SUFFICES ASSUME NEW t, NEW query, NEW n \in Nat, Dated(t, query, n)
               PROVE  Dated(t, query, n + 0)'
    BY DEF Ages
  <2>1. t \in Titles /\ n + 0 = n /\ 0 <= n
    BY DEF Dated
  <2>2. CASE upstream'[t] = upstream[t]
    BY <1>1, <2>1, <2>2 DEF Dated, Permitted
  <2>3. CASE upstream'[t] # upstream[t]
    BY <1>1, <2>1, <2>3 DEF Dated
  <2> QED BY <2>2, <2>3
<1>5. CacheOK(cache)'
  <2> SUFFICES ASSUME NEW k \in DOMAIN cache'.entries PROVE EntryOK(k, cache.entries[k])'
    BY DEF CacheOK
  <2>1. PICK e : e = cache.entries[k] /\ e = cache'.entries[k]
    BY <1>1
  <2>2. EntryOK(k, e)
    BY <1>1, <2>1 DEF IInv, CacheOK
  <2>3. e = [left |-> e.left, value |-> e.value] /\ e.left \in -1..Ttl /\ e.left = e.left - 0
    BY <2>2, LongFacts DEF EntryOK
  <2>4. EntryOK(k, e)'
    BY <1>2, <1>4, <2>2, <2>3, EntryAges DEF IInv
  <2> QED BY <2>1, <2>4
<1>6. \A c \in Clients : spent'[c] = IF pc[c] = "idle" THEN 0 ELSE spent[c] + 0
  BY <1>1, LongFacts DEF IInv, Typed
<1> QED BY <1>1, <1>2, <1>3, <1>4, <1>5, <1>6, StandingStill DEF IInv, Typed

\* The snapshots age.
LEMMA SnapshotsAge ==
    ASSUME MadeOK, made' = [i \in DOMAIN made |-> [made[i] EXCEPT !.age = Least(@ + 1, Ttl + 1)]]
    PROVE  MadeOK' /\ MadeGrows
<1>1. ASSUME NEW i \in 1..Len(made)
      PROVE  /\ made'[i] \in Snapshots
             /\ made'[i].titles = made[i].titles /\ made'[i].query = made[i].query
  <2>1. PICK m, x : m = made[i] /\ x = Least(m.age + 1, Ttl + 1)
    OBVIOUS
  <2>2. m \in Snapshots /\ m.age \in 0..Ttl+1
    BY <2>1, MadeFacts DEF Snapshots
  <2>3. x \in 0..Ttl+1
    BY <2>1, <2>2, LongFacts DEF Least
  <2>4. made'[i] = [m EXCEPT !.age = x]
    BY <2>1, MadeFacts
  <2>5. /\ [m EXCEPT !.age = x] \in Snapshots
        /\ [m EXCEPT !.age = x].titles = m.titles /\ [m EXCEPT !.age = x].query = m.query
    BY <2>2, <2>3 DEF Snapshots
  <2> QED BY <2>1, <2>4, <2>5
<1>2. DOMAIN made = 1..Len(made) /\ Len(made) \in Nat
  BY MadeFacts
<1>3. made' = [i \in 1..Len(made) |-> made'[i]]
  BY <1>2
<1>4. made' \in Seq(Snapshots) /\ Len(made') = Len(made)
  BY <1>1, <1>2, <1>3
<1> QED BY <1>1, <1>2, <1>4 DEF MadeOK, MadeGrows

LEMMA TickOK ==
    ASSUME IInv, Tick
    PROVE  IInv'
<1>1. /\ UNCHANGED <<upstream, changes, pc, req, scan, held, walk, arrived>> /\ reply' = Null
      /\ cache' = Aged(cache)
      /\ made' = [i \in DOMAIN made |-> [made[i] EXCEPT !.age = Least(@ + 1, Ttl + 1)]]
      /\ since' = [t \in Titles |-> Later(since[t])]
      /\ spent' = [c \in Clients |-> IF pc[c] = "idle" THEN 0 ELSE spent[c] + 1]
      /\ \A c \in Clients : pc[c] = "idle" \/ spent[c] < Patience
  BY DEF Tick, At
<1>2. MadeOK' /\ MadeGrows
  BY <1>1, SnapshotsAge DEF IInv
<1>3. /\ since' \in [Titles -> 0..Long]
      /\ \A t \in Titles : \A n \in Nat : since[t] <= n => since'[t] <= n + 1
  <2>1. ASSUME NEW x \in 0..Long PROVE Later(x) \in 0..Long /\ Later(x) <= x + 1
    BY LongFacts DEF Later
  <2>2. \A t \in Titles : since[t] \in 0..Long /\ since'[t] = Later(since[t])
    BY <1>1 DEF IInv, Typed
  <2> QED BY <1>1, <2>1, <2>2, LongFacts
<1>4. Ages(1)
  BY <1>1, <1>3 DEF Ages, Dated, Permitted
<1>5. CacheOK(cache)'
  <2> SUFFICES ASSUME NEW k \in DOMAIN cache'.entries PROVE EntryOK(k, cache.entries[k])'
    BY DEF CacheOK
  <2>1. PICK e, f : e = cache.entries[k] /\ f = cache'.entries[k]
    OBVIOUS
  <2>2. k \in DOMAIN cache.entries /\ f = [e EXCEPT !.left = IF @ >= 0 THEN @ - 1 ELSE -1]
    BY <1>1, <2>1 DEF Aged
  <2>3. EntryOK(k, e)
    BY <2>1, <2>2 DEF IInv, CacheOK
  <2>4. e = [left |-> e.left, value |-> e.value] /\ e.left \in -1..Ttl
    BY <2>3 DEF EntryOK
  <2>5. /\ f = [left |-> f.left, value |-> f.value] /\ f.value = e.value
        /\ f.left = IF e.left >= 0 THEN e.left - 1 ELSE -1
    BY <2>2, <2>4
  <2>6. f.left \in -1..Ttl /\ (Alive(f) => Alive(e) /\ f.left = e.left - 1)
    BY <2>4, <2>5, LongFacts DEF Alive
  <2>7. EntryOK(k, f)'
    BY <1>2, <1>4, <2>3, <2>5, <2>6, EntryAges DEF IInv
  <2> QED BY <2>1, <2>7
<1>6. spent' \in [Clients -> 0..Patience]
  BY <1>1, LongFacts DEF IInv, Typed
<1>7. \A c \in Clients : spent'[c] = IF pc[c] = "idle" THEN 0 ELSE spent[c] + 1
  BY <1>1
<1> QED BY <1>1, <1>2, <1>3, <1>4, <1>5, <1>6, <1>7, StandingStill DEF IInv, Typed

LEMMA StutterOK == IInv /\ UNCHANGED vars => IInv'
<1> SUFFICES ASSUME IInv, UNCHANGED vars PROVE IInv'
  OBVIOUS
<1> USE DEF vars, IInv
<1>1. Typed' /\ MadeOK' /\ PagesFitTheReader'
  BY DEF Typed, MadeOK, PagesFitTheReader, Permitted
<1>2. MadeGrows /\ SameWorld
  BY <1>1, SameMade DEF SameWorld
<1>3. CacheOK(cache)'
  BY <1>1, <1>2, SameCache
<1>4. \A c \in Clients : WalkOK(walk[c])'
  BY DEF WalkOK, NoWalk, Part, Tokens
<1>5. ASSUME NEW c \in Clients PROVE RequestOK(pc[c], req[c], scan[c], held[c], spent[c])'
  <2>1. PICK p, r, s, d, n :
          /\ p = pc[c] /\ r = req[c] /\ s = scan[c] /\ d = held[c] /\ n = spent[c]
          /\ p = pc'[c] /\ r = req'[c] /\ s = scan'[c] /\ d = held'[c] /\ n = spent'[c]
    OBVIOUS
  <2>2. RequestOK(p, r, s, d, n)'
    BY <1>1, <1>2, <2>1, AtFacts, RequestStays
  <2> QED BY <2>1, <2>2
<1> QED BY <1>1, <1>3, <1>4, <1>5

LEMMA InitOK == Init => IInv
<1> SUFFICES ASSUME Init PROVE IInv
  OBVIOUS
<1>1. Typed
  BY LongFacts, PagingAssumption DEF Init, Typed
<1>2. MadeOK
  BY DEF Init, MadeOK
<1>3. CacheOK(cache)
  BY DEF Init, EmptyCache, CacheOK
<1>4. \A c \in Clients : WalkOK(walk[c])
  BY DEF Init, WalkOK
<1>5. \A c \in Clients : RequestOK(pc[c], req[c], scan[c], held[c], spent[c])
  BY DEF Init, RequestOK
<1>6. PagesFitTheReader
  BY DEF Init, PagesFitTheReader
<1> QED BY <1>1, <1>2, <1>3, <1>4, <1>5, <1>6 DEF IInv

\* The steps that serve no page.
Quiet ==
    \/ \E c \in Clients :
         Receive(c) \/ RequestTimeout(c) \/ \E g \in Groups : Scan(c, g)
    \/ Reclassify \/ OtherRoute \/ Tick
    \/ UNCHANGED vars

LEMMA QuietOK ==
    ASSUME IInv, Quiet
    PROVE  IInv'
BY ReceiveOK, ScanStepOK, RequestTimeoutOK, ReclassifyOK, OtherRouteOK, TickOK, StutterOK
   DEF Quiet

LEMMA QuietListing ==
    ASSUME IInv, Quiet
    PROVE  ListingStep
<1>1. ASSUME NEW c \in Clients, Receive(c)
      PROVE  MadeGrows /\ UNCHANGED walk
  <2>1. CASE UNCHANGED made /\ Await(c, "scanning", Null)
    BY <2>1, SameMade DEF Await, IInv
  <2>2. ASSUME NEW r, Turn(c, r)
        PROVE  MadeGrows /\ UNCHANGED walk
    BY <2>2, SameMade, PassedMade DEF Turn, Await, IInv
  <2> QED BY <1>1, <2>1, <2>2 DEF Receive
<1>2. ASSUME NEW c \in Clients, RequestTimeout(c) \/ \E g \in Groups : Scan(c, g)
      PROVE  MadeGrows /\ UNCHANGED walk
  BY <1>2, SameMade DEF RequestTimeout, Scan, IInv
<1>3. ASSUME Reclassify \/ UNCHANGED vars
      PROVE  MadeGrows /\ UNCHANGED walk
  BY <1>3, SameMade DEF Reclassify, vars, IInv
<1>4. ASSUME OtherRoute
      PROVE  MadeGrows /\ UNCHANGED walk
  BY <1>4, PassedMade DEF OtherRoute, IInv
<1>5. ASSUME Tick
      PROVE  MadeGrows /\ UNCHANGED walk
  BY <1>5, SnapshotsAge DEF Tick, IInv
<1>6. MadeGrows /\ UNCHANGED walk
  BY <1>1, <1>2, <1>3, <1>4, <1>5 DEF Quiet
<1> QED BY <1>6, NobodyWalks DEF ListingStep

LEMMA NextOK == IInv /\ [Next]_vars => IInv' /\ ListingStep
<1> SUFFICES ASSUME IInv, [Next]_vars PROVE IInv' /\ ListingStep
  OBVIOUS
<1>1. CASE Quiet
  BY <1>1, QuietOK, QuietListing
<1>2. CASE \E c \in Clients : Merge(c) \/ Rank(c) \/ Rated(c)
  BY <1>2, MergeOK, RankOK, RatedOK
<1> QED BY <1>1, <1>2 DEF Next, Quiet

LEMMA ListingBegins == Init => Walks!Init
<1> SUFFICES ASSUME Init PROVE Walks!Init
  OBVIOUS
<1>1. walk = [c \in Clients |-> NoWalk] /\ made = <<>>
  BY DEF Init
<1>2. \A c \in Clients : walk[c].id = 0 /\ walk[c].seen = <<>>
  BY <1>1 DEF NoWalk
<1>3. \A c \in Clients : walk[c].more = FALSE /\ walk[c].onward = FALSE
  BY <1>1 DEF NoWalk
<1>4. Whole = [c \in Clients |-> <<>>]
  BY <1>2 DEF Whole
<1> QED BY <1>2, <1>3, <1>4 DEF Walks!Init

\* What the invariant says of the types.
LEMMA Types == IInv => TypeOK
<1> SUFFICES ASSUME IInv PROVE TypeOK
  OBVIOUS
<1>1. ASSUME NEW i \in DOMAIN made
      PROVE  /\ made[i].query \in Queries /\ made[i].titles \in Seq(Titles)
             /\ made[i].age \in 0..Ttl+1 /\ made[i].others \in 0..MaxSize
  <2>1. made[i] \in Snapshots
    BY MadeFacts DEF IInv
  <2> QED BY <2>1 DEF Snapshots
<1>2. ASSUME NEW c \in Clients
      PROVE  /\ walk[c].token \in Tokens \cup {Null}
             /\ walk[c].token # Null => walk[c].token.id = walk[c].id
  <2>1. PICK w : w = walk[c]
    OBVIOUS
  <2>2. WalkOK(w)
    BY <2>1 DEF IInv
  <2>3. w.token \in Tokens \cup {Null} /\ (w.token # Null => w.token.id = w.id)
    BY <2>2 DEF WalkOK, NoWalk, Part, Tokens
  <2> QED BY <2>1, <2>3
<1>3. ASSUME NEW c \in Clients
      PROVE  req[c] \in IF At(c, "idle") THEN {Null} ELSE Requested
  BY DEF IInv, RequestOK, At
<1>4. ASSUME NEW c \in Clients, At(c, "scanning"), NEW g \in DOMAIN scan[c]
      PROVE  scan[c][g].found \in Seq(Items)
  <2>1. PICK x, y : x = scan[c] /\ y = x[g]
    OBVIOUS
  <2>2. ScanOK(x, req[c].query, spent[c])
    BY <1>4, <2>1 DEF IInv, RequestOK, At
  <2>3. y \in Fetched /\ FoundOK(y.found, req[c].query, spent[c])
    BY <2>1, <2>2 DEF ScanOK
  <2> QED BY <2>1, <2>3 DEF Fetched
<1>5. ASSUME NEW c \in Clients, At(c, "ranking")
      PROVE  held[c] \in Seq(Titles)
  BY <1>5 DEF IInv, RequestOK, At
<1> QED BY <1>1, <1>2, <1>3, <1>4, <1>5 DEF IInv, Typed, TypeOK

-----------------------------------------------------------------------------
(* The theorems.                                                           *)

\* Whatever requests, failures, changes and other routes come in whatever order,
\* the snapshots stay as they were made, and what stands in the cache, at an await
\* or in the hands of a client is a part of one of them, of known age.
THEOREM Invariance == Spec => []IInv
<1>1. IInv /\ [Next]_vars => IInv'
  BY NextOK
<1> QED BY <1>1, InitOK, PTL DEF Spec

\* Every await of search and list_manga finds what it needs, and every cursor names a
\* snapshot that was made.
THEOREM TypeCorrectness == Spec => []TypeOK
BY Invariance, Types, PTL

\* Nobody is shown a title that MangaDex has withdrawn from readers like them for
\* longer than an entry lives in the cache and two requests last: the fingerprint of
\* the cursor (_cursor_page), the filters of the scan and TimeoutMiddleware together.
THEOREM PagesFit == Spec => []PagesFitTheReader
<1>1. IInv => PagesFitTheReader
  BY DEF IInv
<1> QED BY <1>1, Invariance, PTL

\* The pages that search and list_manga send along cursors are a walk along one list
\* that does not change, without gaps or repetitions, with a true "has_more".
THEOREM ListingImplemented == Spec => ImplementsListing
<1>1. IInv /\ [Next]_vars => [Walks!Next]_Walks!vars
  BY NextOK DEF ListingStep
<1> QED BY <1>1, Invariance, ListingBegins, PTL DEF Spec, ImplementsListing, Walks!Spec

-----------------------------------------------------------------------------
(* How long a cursor lasts.                                                *)

\* The keys that were used after key.
UsedAfter(c, key) == {x \in DOMAIN c.entries : <<key, x>> \in c.order}

\* What a cache holds under the key of a snapshot that was made `age' ticks ago and
\* was passed over `others' times since.
KeptAs(c, key, age, others) ==
    /\ age <= Ttl /\ key \in DOMAIN c.entries => c.entries[key].left = Ttl - age
    /\ age <= Ttl /\ others < MaxSize =>
         key \in DOMAIN c.entries /\ Cardinality(UsedAfter(c, key)) <= others

SnapshotsKept ==
    \A i \in 1..Len(made) : KeptAs(cache, SnapshotKey(i), made[i].age, made[i].others)

KInv == WellFormed(cache) /\ SnapshotsKept /\ CursorsLast

LEMMA UsedAfterFinite ==
    ASSUME NEW c, WellFormed(c), NEW key
    PROVE  /\ IsFiniteSet(UsedAfter(c, key)) /\ Cardinality(UsedAfter(c, key)) \in Nat
           /\ IsFiniteSet(DOMAIN c.entries)
<1>1. UsedAfter(c, key) \subseteq DOMAIN c.entries /\ IsFiniteSet(DOMAIN c.entries)
  BY DEF UsedAfter, WellFormed
<1> QED BY <1>1, FS_Subset, FS_CardinalityType

\* At most one key more is used after it than before.
LEMMA OneMoreUsed ==
    ASSUME NEW c, WellFormed(c), NEW d, WellFormed(d), NEW key, NEW k,
           UsedAfter(d, key) \subseteq UsedAfter(c, key) \cup {k}
    PROVE  Cardinality(UsedAfter(d, key)) <= Cardinality(UsedAfter(c, key)) + 1
<1> DEFINE more == UsedAfter(c, key) \cup {k}
<1>1. IsFiniteSet(UsedAfter(c, key)) /\ Cardinality(UsedAfter(c, key)) \in Nat
      /\ Cardinality(UsedAfter(d, key)) \in Nat
  BY UsedAfterFinite
<1>2. /\ IsFiniteSet(more)
      /\ Cardinality(more) = IF k \in UsedAfter(c, key) THEN Cardinality(UsedAfter(c, key))
                                                        ELSE Cardinality(UsedAfter(c, key)) + 1
  BY <1>1, FS_AddElement
<1>3. Cardinality(UsedAfter(d, key)) <= Cardinality(more) /\ Cardinality(more) \in Nat
  BY <1>2, FS_Subset, FS_CardinalityType
<1> HIDE DEF more
<1> QED BY <1>1, <1>2, <1>3

\* A snapshot stays in the cache when another key is used.
LEMMA GetKept ==
    ASSUME NEW c, WellFormed(c), NEW key, NEW age \in 0..Ttl+1, NEW others \in 0..MaxSize,
           KeptAs(c, key, age, others), NEW k, k # key, Fresh(c, k)
    PROVE  KeptAs(AfterGet(c, k), key, age, Least(others + 1, MaxSize))
<1> DEFINE d == AfterGet(c, k)
<1>1. /\ WellFormed(d) /\ d.entries = c.entries
      /\ \A x, y \in DOMAIN c.entries : <<x, y>> \in d.order <=> x # k /\ (y = k \/ <<x, y>> \in c.order)
  BY GetWellFormed, GetOfFresh DEF WellFormed
<1> HIDE DEF d
<1>2. SUFFICES ASSUME age <= Ttl, Least(others + 1, MaxSize) < MaxSize
               PROVE  key \in DOMAIN d.entries
                      /\ Cardinality(UsedAfter(d, key)) <= Least(others + 1, MaxSize)
  BY <1>1 DEF KeptAs, d
<1>3. Least(others + 1, MaxSize) = others + 1 /\ others < MaxSize
  BY <1>2, LongFacts DEF Least
<1>4. key \in DOMAIN c.entries /\ Cardinality(UsedAfter(c, key)) <= others
  BY <1>2, <1>3 DEF KeptAs
<1>5. UsedAfter(d, key) \subseteq UsedAfter(c, key) \cup {k}
  BY <1>1, <1>4 DEF UsedAfter
<1>6. Cardinality(UsedAfter(d, key)) <= Cardinality(UsedAfter(c, key)) + 1
  BY <1>1, <1>5, OneMoreUsed
<1>7. Cardinality(UsedAfter(d, key)) \in Nat /\ Cardinality(UsedAfter(c, key)) \in Nat
  BY <1>1, UsedAfterFinite
<1> QED BY <1>1, <1>3, <1>4, <1>6, <1>7

\* And when something is put into the cache: to be evicted it must have been used
\* before all that stay, and they fill the cache.
LEMMA SetKept ==
    ASSUME NEW c, WellFormed(c), NEW key, NEW age \in 0..Ttl+1, NEW others \in 0..MaxSize,
           KeptAs(c, key, age, others), NEW k, k # key, NEW v
    PROVE  KeptAs(AfterSet(c, k, v), key, age, Least(others + 1, MaxSize))
<1> DEFINE d == AfterSet(c, k, v)
<1>1. /\ WellFormed(d) /\ k \in DOMAIN d.entries
      /\ \A x \in DOMAIN d.entries \ {k} : x \in DOMAIN c.entries /\ d.entries[x] = c.entries[x]
  <2>1. WellFormed(d)
    BY SetWellFormed
  <2>2. k \in DOMAIN d.entries
    BY SetRemembers
  <2>3. \A x \in DOMAIN d.entries \ {k} : x \in DOMAIN c.entries /\ d.entries[x] = c.entries[x]
    BY SetKeepsOthers
  <2> HIDE DEF d
  <2> QED BY <2>1, <2>2, <2>3
<1>2. \A x, y \in DOMAIN d.entries : <<x, y>> \in d.order <=> x # k /\ (y = k \/ <<x, y>> \in c.order)
  BY SetOrder
<1>3. \/ \A x : Fresh(c, x) => x \in DOMAIN d.entries
      \/ /\ Cardinality(DOMAIN d.entries) = MaxSize
         /\ \A x : Fresh(c, x) /\ x \notin DOMAIN d.entries =>
              \A y \in DOMAIN d.entries \ {k} : <<x, y>> \in c.order
  BY SetRemembers
<1> HIDE DEF d
<1>4. age <= Ttl /\ key \in DOMAIN d.entries => d.entries[key].left = Ttl - age
  BY <1>1 DEF KeptAs
<1>5. SUFFICES ASSUME age <= Ttl, Least(others + 1, MaxSize) < MaxSize
               PROVE  key \in DOMAIN d.entries
                      /\ Cardinality(UsedAfter(d, key)) <= Least(others + 1, MaxSize)
  BY <1>4 DEF KeptAs, d
<1>6. Least(others + 1, MaxSize) = others + 1 /\ others + 1 < MaxSize
  BY <1>5, LongFacts DEF Least
<1>7. /\ key \in DOMAIN c.entries /\ c.entries[key].left = Ttl - age
      /\ Cardinality(UsedAfter(c, key)) <= others
  BY <1>5, <1>6, LongFacts DEF KeptAs
<1>8. Fresh(c, key)
  BY <1>5, <1>7, LongFacts DEF Fresh, Alive
<1>9. IsFiniteSet(UsedAfter(c, key)) /\ Cardinality(UsedAfter(c, key)) \in Nat
      /\ Cardinality(UsedAfter(d, key)) \in Nat /\ IsFiniteSet(DOMAIN d.entries)
  BY <1>1, UsedAfterFinite
<1>10. key \in DOMAIN d.entries
  <2>1. SUFFICES ASSUME key \notin DOMAIN d.entries
                 PROVE  FALSE
    OBVIOUS
  <2> DEFINE rest == DOMAIN d.entries \ {k}
  <2>2. Cardinality(DOMAIN d.entries) = MaxSize /\ \A y \in rest : <<key, y>> \in c.order
    BY <1>3, <1>8, <2>1
  <2>3. rest \subseteq UsedAfter(c, key)
    BY <1>1, <2>2 DEF UsedAfter
  <2>4. Cardinality(rest) = MaxSize - 1
    BY <1>1, <1>9, <2>2, FS_RemoveElement
  <2>5. Cardinality(rest) <= Cardinality(UsedAfter(c, key))
    BY <1>9, <2>3, FS_Subset
  <2> HIDE DEF rest
  <2> QED BY <1>6, <1>7, <1>9, <2>4, <2>5, LongFacts
<1>11. UsedAfter(d, key) \subseteq UsedAfter(c, key) \cup {k}
  BY <1>1, <1>2, <1>10 DEF UsedAfter
<1>12. Cardinality(UsedAfter(d, key)) <= Cardinality(UsedAfter(c, key)) + 1
  BY <1>1, <1>11, OneMoreUsed
<1> QED BY <1>6, <1>7, <1>9, <1>10, <1>12

\* Its own use makes it the last in order.
LEMMA OwnGetKept ==
    ASSUME NEW c, WellFormed(c), NEW key, NEW age, NEW others,
           KeptAs(c, key, age, others), Fresh(c, key)
    PROVE  KeptAs(AfterGet(c, key), key, age, 0)
<1> DEFINE d == AfterGet(c, key)
<1>1. /\ d.entries = c.entries
      /\ \A x, y \in DOMAIN c.entries : <<x, y>> \in d.order <=> x # key /\ (y = key \/ <<x, y>> \in c.order)
  BY GetOfFresh DEF WellFormed
<1>2. key \in DOMAIN c.entries
  BY DEF Fresh
<1> HIDE DEF d
<1>3. UsedAfter(d, key) = {}
  BY <1>1, <1>2 DEF UsedAfter
<1> QED BY <1>1, <1>2, <1>3, FS_EmptySet DEF KeptAs, d

LEMMA OwnSetKept ==
    ASSUME NEW c, WellFormed(c), NEW key, NEW v
    PROVE  KeptAs(AfterSet(c, key, v), key, 0, 0)
<1> DEFINE d == AfterSet(c, key, v)
<1>1. key \in DOMAIN d.entries /\ d.entries[key] = [left |-> Ttl, value |-> v]
  BY SetRemembers
<1>2. \A x, y \in DOMAIN d.entries : <<x, y>> \in d.order <=> x # key /\ (y = key \/ <<x, y>> \in c.order)
  BY SetOrder
<1> HIDE DEF d
<1>3. UsedAfter(d, key) = {}
  BY <1>1, <1>2 DEF UsedAfter
<1>4. d.entries[key].left = Ttl - 0
  BY <1>1, LongFacts
<1> QED BY <1>1, <1>3, <1>4, FS_EmptySet DEF KeptAs, d

\* A key that is not fresh is dropped, and it was none that is to be kept.
LEMMA StaleGetKept ==
    ASSUME NEW c, WellFormed(c), NEW key, NEW age \in 0..Ttl+1, NEW others \in 0..MaxSize,
           KeptAs(c, key, age, others), NEW k, ~Fresh(c, k)
    PROVE  KeptAs(AfterGet(c, k), key, age, others)
<1> DEFINE d == AfterGet(c, k)
<1>1. d = Keeping(c, DOMAIN c.entries \ {k})
  BY DEF AfterGet
<1>2. /\ DOMAIN d.entries = DOMAIN c.entries \ {k}
      /\ \A x \in DOMAIN d.entries : d.entries[x] = c.entries[x]
      /\ d.order \subseteq c.order
  BY <1>1 DEF Keeping
<1> HIDE DEF d
<1>3. age <= Ttl /\ key \in DOMAIN d.entries => d.entries[key].left = Ttl - age
  BY <1>2 DEF KeptAs
<1>4. SUFFICES ASSUME age <= Ttl, others < MaxSize
               PROVE  key \in DOMAIN d.entries /\ Cardinality(UsedAfter(d, key)) <= others
  BY <1>3 DEF KeptAs, d
<1>5. /\ key \in DOMAIN c.entries /\ c.entries[key].left = Ttl - age
      /\ Cardinality(UsedAfter(c, key)) <= others
  BY <1>4 DEF KeptAs
<1>6. Fresh(c, key)
  BY <1>4, <1>5, LongFacts DEF Fresh, Alive
<1>7. UsedAfter(d, key) \subseteq UsedAfter(c, key)
  BY <1>2 DEF UsedAfter
<1>8. IsFiniteSet(UsedAfter(c, key)) /\ Cardinality(UsedAfter(c, key)) \in Nat
  BY UsedAfterFinite
<1>9. Cardinality(UsedAfter(d, key)) <= Cardinality(UsedAfter(c, key))
      /\ Cardinality(UsedAfter(d, key)) \in Nat
  BY <1>7, <1>8, FS_Subset, FS_CardinalityType
<1> QED BY <1>2, <1>5, <1>6, <1>8, <1>9

\* A tick ages the snapshot and its entry alike.
LEMMA AgedKept ==
    ASSUME NEW c, WellFormed(c), NEW key, NEW age \in 0..Ttl+1, NEW others \in 0..MaxSize,
           KeptAs(c, key, age, others)
    PROVE  KeptAs(Aged(c), key, Least(age + 1, Ttl + 1), others)
<1> DEFINE d == Aged(c)
<1>1. /\ DOMAIN d.entries = DOMAIN c.entries /\ d.order = c.order
      /\ \A x \in DOMAIN c.entries :
           d.entries[x].left = IF c.entries[x].left >= 0 THEN c.entries[x].left - 1 ELSE -1
  BY DEF Aged
<1> HIDE DEF d
<1>2. UsedAfter(d, key) = UsedAfter(c, key)
  BY <1>1 DEF UsedAfter
<1>3. SUFFICES ASSUME Least(age + 1, Ttl + 1) <= Ttl
               PROVE  KeptAs(d, key, Least(age + 1, Ttl + 1), others)
  BY DEF KeptAs, d
<1>4. Least(age + 1, Ttl + 1) = age + 1 /\ age + 1 <= Ttl
  BY <1>3, LongFacts DEF Least
<1>5. age <= Ttl
  BY <1>4, LongFacts
<1>6. ASSUME key \in DOMAIN c.entries
      PROVE  d.entries[key].left = Ttl - (age + 1)
  <2>1. c.entries[key].left = Ttl - age
    BY <1>5, <1>6 DEF KeptAs
  <2> QED BY <1>1, <1>4, <1>6, <2>1, LongFacts
<1> QED BY <1>1, <1>2, <1>4, <1>5, <1>6 DEF KeptAs

\* What other uses of the cache mean for the snapshots.
LEMMA PassedCounts ==
    ASSUME MadeOK, NEW k, NEW i \in 1..Len(made)
    PROVE  /\ made[i].age \in 0..Ttl+1 /\ made[i].others \in 0..MaxSize
           /\ Passed(k)[i].age = made[i].age
           /\ Passed(k)[i].others = IF SnapshotKey(i) = k THEN 0
                                                         ELSE Least(made[i].others + 1, MaxSize)
<1>1. PICK m, x : m = made[i] /\ x = IF SnapshotKey(i) = k THEN 0
                                                            ELSE Least(m.others + 1, MaxSize)
  OBVIOUS
<1>2. m \in Snapshots /\ Passed(k)[i] = [m EXCEPT !.others = x]
  BY <1>1, MadeFacts DEF Passed
<1>3. [m EXCEPT !.others = x].age = m.age /\ [m EXCEPT !.others = x].others = x
      /\ m.age \in 0..Ttl+1 /\ m.others \in 0..MaxSize
  BY <1>2 DEF Snapshots
<1> QED BY <1>1, <1>2, <1>3

LEMMA KeysDiffer ==
    ASSUME NEW i, NEW j
    PROVE  SnapshotKey(i) # OtherKey /\ (SnapshotKey(i) = SnapshotKey(j) => i = j)
<1>1. Len(SnapshotKey(i)) = 2 /\ Len(OtherKey) = 1
  BY DEF SnapshotKey, OtherKey
<1>2. SnapshotKey(i)[2] = i /\ SnapshotKey(j)[2] = j
  BY DEF SnapshotKey
<1> QED BY <1>1, <1>2

\* get() of a live key, whether of a snapshot or not.
LEMMA GetPassed ==
    ASSUME MadeOK, WellFormed(cache), SnapshotsKept, NEW k, Fresh(cache, k),
           NEW i \in 1..Len(made)
    PROVE  KeptAs(AfterGet(cache, k), SnapshotKey(i), Passed(k)[i].age, Passed(k)[i].others)
<1>1. PICK key, age, others :
        key = SnapshotKey(i) /\ age = made[i].age /\ others = made[i].others
  OBVIOUS
<1>2. /\ age \in 0..Ttl+1 /\ others \in 0..MaxSize /\ Passed(k)[i].age = age
      /\ Passed(k)[i].others = IF key = k THEN 0 ELSE Least(others + 1, MaxSize)
  BY <1>1, PassedCounts
<1>3. KeptAs(cache, key, age, others)
  BY <1>1 DEF SnapshotsKept
<1>4. CASE key = k
  BY <1>1, <1>2, <1>3, <1>4, OwnGetKept
<1>5. CASE key # k
  BY <1>1, <1>2, <1>3, <1>5, GetKept
<1> QED BY <1>4, <1>5

\* set() of a key that no snapshot has.
LEMMA SetPassed ==
    ASSUME MadeOK, WellFormed(cache), SnapshotsKept, NEW k, NEW v,
           NEW i \in 1..Len(made), SnapshotKey(i) # k
    PROVE  KeptAs(AfterSet(cache, k, v), SnapshotKey(i), Passed(k)[i].age, Passed(k)[i].others)
<1>1. PICK key, age, others :
        key = SnapshotKey(i) /\ age = made[i].age /\ others = made[i].others
  OBVIOUS
<1>2. /\ age \in 0..Ttl+1 /\ others \in 0..MaxSize /\ Passed(k)[i].age = age
      /\ Passed(k)[i].others = Least(others + 1, MaxSize)
  BY <1>1, PassedCounts
<1>3. KeptAs(cache, key, age, others)
  BY <1>1 DEF SnapshotsKept
<1> QED BY <1>1, <1>2, <1>3, SetKept

\* Nobody is told that a snapshot is gone.
NotGone == reply' = Null \/ reply'.status # "gone"

LEMMA NothingPassed ==
    ASSUME KInv, UNCHANGED <<cache, made>>, NotGone \/ UNCHANGED reply
    PROVE  KInv'
<1>1. WellFormed(cache)'
  BY DEF KInv, WellFormed, InOrder
<1>2. SnapshotsKept'
  BY DEF KInv, SnapshotsKept, KeptAs, UsedAfter
<1>3. CursorsLast'
  BY DEF KInv, CursorsLast, NotGone
<1> QED BY <1>1, <1>2, <1>3 DEF KInv

LEMMA SnapshotKept ==
    ASSUME IInv, KInv, NEW c \in Clients, NEW titles, Snapshot(c, titles), NotGone
    PROVE  KInv'
<1>1. PICK id, k, v, s :
        /\ id = Len(made) + 1 /\ k = SnapshotKey(id)
        /\ v = [query |-> req[c].query, titles |-> titles]
        /\ s = [query |-> req[c].query, titles |-> titles, age |-> 0, others |-> 0]
  OBVIOUS
<1>2. made' = Append(Passed(k), s) /\ cache' = AfterSet(cache, k, v) /\ s.age = 0 /\ s.others = 0
  BY <1>1 DEF Snapshot
<1>3. MadeOK /\ WellFormed(cache) /\ SnapshotsKept
  BY DEF IInv, KInv
<1>4. Len(made) \in Nat /\ Passed(k) \in Seq(Snapshots) /\ Len(Passed(k)) = Len(made)
  BY <1>3, PassedOK, MadeFacts
<1>5. /\ Len(made') = id /\ made'[id] = s
      /\ \A i \in 1..Len(made) : made'[i] = Passed(k)[i]
  <2>1. PICK m, n : m = Passed(k) /\ n = Len(made)
    OBVIOUS
  <2>2. Len(Append(m, s)) = n + 1 /\ Append(m, s)[n + 1] = s
        /\ \A i \in 1..n : Append(m, s)[i] = m[i]
    BY <1>4, <2>1
  <2> QED BY <1>1, <1>2, <2>1, <2>2
<1>6. ASSUME NEW i \in 1..Len(made')
      PROVE  KeptAs(cache', SnapshotKey(i), made'[i].age, made'[i].others)
  <2>1. CASE i = id
    <3>1. KeptAs(AfterSet(cache, k, v), k, 0, 0)
      BY <1>3, OwnSetKept
    <3> QED BY <1>1, <1>2, <1>5, <2>1, <3>1
  <2>2. CASE i # id
    <3>1. i \in 1..Len(made) /\ SnapshotKey(i) # k
      BY <1>1, <1>4, <1>5, <2>2, KeysDiffer
    <3>2. KeptAs(AfterSet(cache, k, v), SnapshotKey(i), Passed(k)[i].age, Passed(k)[i].others)
      BY <1>3, <3>1, SetPassed
    <3> QED BY <1>2, <1>5, <3>1, <3>2
  <2> QED BY <2>1, <2>2
<1>7. SnapshotsKept'
  BY <1>6 DEF SnapshotsKept, KeptAs, UsedAfter
<1>8. WellFormed(cache)'
  <2>1. PICK d : d = AfterSet(cache, k, v)
    OBVIOUS
  <2>2. WellFormed(d) /\ d = cache'
    BY <1>2, <1>3, <2>1, SetWellFormed
  <2> QED BY <2>2 DEF WellFormed, InOrder
<1>9. CursorsLast'
  BY DEF CursorsLast, NotGone
<1> QED BY <1>7, <1>8, <1>9 DEF KInv

LEMMA OtherRouteKept ==
    ASSUME IInv, KInv, OtherRoute
    PROVE  KInv'
<1>1. PICK v : v = [query |-> Null, titles |-> <<>>]
  OBVIOUS
<1>2. made' = Passed(OtherKey) /\ cache' = AfterSet(cache, OtherKey, v) /\ reply' = Null
  BY <1>1 DEF OtherRoute
<1>3. MadeOK /\ WellFormed(cache) /\ SnapshotsKept
  BY DEF IInv, KInv
<1>4. Len(made') = Len(made)
  BY <1>2, <1>3, PassedOK
<1>5. ASSUME NEW i \in 1..Len(made')
      PROVE  KeptAs(cache', SnapshotKey(i), made'[i].age, made'[i].others)
  <2>1. i \in 1..Len(made) /\ SnapshotKey(i) # OtherKey
    BY <1>4, KeysDiffer
  <2>2. KeptAs(AfterSet(cache, OtherKey, v), SnapshotKey(i),
               Passed(OtherKey)[i].age, Passed(OtherKey)[i].others)
    BY <1>3, <2>1, SetPassed
  <2> QED BY <1>2, <2>2
<1>6. SnapshotsKept'
  BY <1>5 DEF SnapshotsKept, KeptAs, UsedAfter
<1>7. WellFormed(cache)'
  <2>1. PICK d : d = AfterSet(cache, OtherKey, v)
    OBVIOUS
  <2>2. WellFormed(d) /\ d = cache'
    BY <1>2, <1>3, <2>1, SetWellFormed
  <2> QED BY <2>2 DEF WellFormed, InOrder
<1>8. CursorsLast'
  BY <1>2 DEF CursorsLast
<1> QED BY <1>6, <1>7, <1>8 DEF KInv

LEMMA TickKept ==
    ASSUME IInv, KInv, Tick
    PROVE  KInv'
<1>1. /\ cache' = Aged(cache) /\ reply' = Null
      /\ made' = [i \in DOMAIN made |-> [made[i] EXCEPT !.age = Least(@ + 1, Ttl + 1)]]
  BY DEF Tick
<1>2. MadeOK /\ WellFormed(cache) /\ SnapshotsKept
  BY DEF IInv, KInv
<1>3. DOMAIN made = 1..Len(made) /\ Len(made) \in Nat
  BY <1>2, MadeFacts
<1>4. Len(made') = Len(made)
  BY <1>1, <1>3
<1>5. ASSUME NEW i \in 1..Len(made')
      PROVE  KeptAs(cache', SnapshotKey(i), made'[i].age, made'[i].others)
  <2>1. PICK m, x, key : m = made[i] /\ x = Least(m.age + 1, Ttl + 1) /\ key = SnapshotKey(i)
    OBVIOUS
  <2>2. m \in Snapshots /\ made'[i] = [m EXCEPT !.age = x]
    BY <1>1, <1>2, <1>3, <1>4, <2>1, MadeFacts
  <2>3. /\ [m EXCEPT !.age = x].age = x /\ [m EXCEPT !.age = x].others = m.others
        /\ m.age \in 0..Ttl+1 /\ m.others \in 0..MaxSize
    BY <2>2 DEF Snapshots
  <2>4. KeptAs(cache, key, m.age, m.others)
    BY <1>2, <1>4, <2>1 DEF SnapshotsKept
  <2>5. KeptAs(Aged(cache), key, x, m.others)
    BY <1>2, <2>1, <2>3, <2>4, AgedKept
  <2> QED BY <1>1, <2>1, <2>2, <2>3, <2>5
<1>6. SnapshotsKept'
  BY <1>5 DEF SnapshotsKept, KeptAs, UsedAfter
<1>7. WellFormed(cache)'
  <2>1. PICK d : d = Aged(cache)
    OBVIOUS
  <2>2. WellFormed(d) /\ d = cache'
    BY <1>1, <1>2, <2>1, AgedWellFormed
  <2> QED BY <2>2 DEF WellFormed, InOrder
<1>8. CursorsLast'
  BY <1>1 DEF CursorsLast
<1> QED BY <1>6, <1>7, <1>8 DEF KInv

\* A cursor is refused for its snapshot or for its filters.
LEMMA TurnKept ==
    ASSUME IInv, KInv, NEW c \in Clients, NEW r, Turn(c, r), r.cursor.id \in 1..Len(made)
    PROVE  KInv'
<1>1. PICK id, k : id = r.cursor.id /\ k = SnapshotKey(id)
  OBVIOUS
<1>2. MadeOK /\ WellFormed(cache) /\ SnapshotsKept /\ CacheOK(cache)
  BY DEF IInv, KInv
<1>3. /\ cache' = AfterGet(cache, k)
      /\ made' = IF Fresh(cache, k) THEN Passed(k) ELSE made
      /\ IF Fresh(cache, k) /\ Matches(Value(cache, k).query, r.query)
           THEN reply' = Null
           ELSE reply' = [status |-> "gone", to |-> r, page |-> Null]
  BY <1>1 DEF Turn, Await, Answer
<1>4. MadeOK' /\ MadeGrows
  BY <1>2, <1>3, SameMade, PassedMade
<1>5. Len(made') = Len(made)
  BY <1>2, <1>3, PassedOK
<1>6. ASSUME NEW i \in 1..Len(made')
      PROVE  KeptAs(cache', SnapshotKey(i), made'[i].age, made'[i].others)
  <2>1. CASE Fresh(cache, k)
    BY <1>2, <1>3, <1>5, <2>1, GetPassed
  <2>2. CASE ~Fresh(cache, k)
    <3>1. KeptAs(cache, SnapshotKey(i), made[i].age, made[i].others)
          /\ made[i].age \in 0..Ttl+1 /\ made[i].others \in 0..MaxSize
      BY <1>2, <1>5, PassedCounts DEF SnapshotsKept
    <3>2. KeptAs(AfterGet(cache, k), SnapshotKey(i), made[i].age, made[i].others)
      BY <1>2, <2>2, <3>1, StaleGetKept
    <3> QED BY <1>3, <2>2, <3>2
  <2> QED BY <2>1, <2>2
<1>7. SnapshotsKept'
  BY <1>6 DEF SnapshotsKept, KeptAs, UsedAfter
<1>8. WellFormed(cache)'
  <2>1. PICK d : d = AfterGet(cache, k)
    OBVIOUS
  <2>2. WellFormed(d) /\ d = cache'
    BY <1>2, <1>3, <2>1, GetWellFormed
  <2> QED BY <2>2 DEF WellFormed, InOrder
<1>9. CursorsLast'
  <2>1. CASE Fresh(cache, k) /\ Matches(Value(cache, k).query, r.query)
    BY <1>3, <2>1 DEF CursorsLast
  <2>2. CASE Fresh(cache, k) /\ ~Matches(Value(cache, k).query, r.query)
    <3>1. EntryOK(k, cache.entries[k])
      BY <1>2, <2>2 DEF Fresh, CacheOK
    <3>2. Value(cache, k).query = made[id].query
      BY <1>1, <3>1 DEF EntryOK, Value, SnapshotKey
    <3>3. made'[id].query # r.query
      BY <1>1, <1>4, <2>2, <3>2 DEF Matches, MadeGrows
    <3>4. reply'.to = r
      BY <1>3, <2>2
    <3> QED BY <1>1, <3>3, <3>4 DEF CursorsLast
  <2>3. CASE ~Fresh(cache, k)
    <3>1. PICK age, others : age = made[id].age /\ others = made[id].others
      OBVIOUS
    <3>2. KeptAs(cache, k, age, others) /\ age \in 0..Ttl+1 /\ others \in 0..MaxSize
      BY <1>1, <1>2, <3>1, PassedCounts DEF SnapshotsKept
    <3>3. age > Ttl \/ others >= MaxSize
      BY <2>3, <3>2, LongFacts DEF KeptAs, Fresh, Alive
    <3>4. reply'.to = r /\ made' = made
      BY <1>3, <2>3
    <3> QED BY <1>1, <3>1, <3>3, <3>4 DEF CursorsLast
  <2> QED BY <2>1, <2>2, <2>3
<1> QED BY <1>7, <1>8, <1>9 DEF KInv

LEMMA ReceiveKept ==
    ASSUME IInv, KInv, NEW c \in Clients, Receive(c)
    PROVE  KInv'
<1>1. CASE Await(c, "scanning", Null) /\ UNCHANGED <<cache, made>>
  BY <1>1, NothingPassed DEF Await, NotGone
<1>2. ASSUME NEW d \in Clients, walk[d].token # Null, NEW r, r.cursor = walk[d].token, Turn(c, r)
      PROVE  KInv'
  <2>1. PICK w : w = walk[d]
    OBVIOUS
  <2>2. WalkOK(w)
    BY <2>1 DEF IInv
  <2>3. w.token \in Tokens
    BY <1>2, <2>1, <2>2 DEF WalkOK, NoWalk, Part
  <2>4. r.cursor.id \in 1..Len(made)
    BY <1>2, <2>1, <2>3 DEF Tokens
  <2> QED BY <1>2, <2>4, TurnKept
<1>3. ASSUME NEW query \in Queries, NEW limit \in Limits, NEW d \in Clients,
             walk[d].token # Null,
             Turn(c, [query |-> query, limit |-> limit, offset |-> 0, cursor |-> walk[d].token])
      PROVE  KInv'
  <2>1. PICK r : r = [query |-> query, limit |-> limit, offset |-> 0, cursor |-> walk[d].token]
    OBVIOUS
  <2>2. r.cursor = walk[d].token /\ Turn(c, r)
    BY <1>3, <2>1
  <2> QED BY <1>2, <1>3, <2>2
<1> QED BY <1>1, <1>3 DEF Receive

\* Serving a page or waiting for its statistics refuses nobody.
LEMMA ServedNotGone ==
    ASSUME NEW c, NEW r, NEW page, Serve(c, r, page) \/ Rate(c, r, page)
    PROVE  NotGone
<1>1. CASE Serve(c, r, page)
  BY <1>1 DEF Serve, Answer, NotGone
<1>2. CASE Await(c, "rating", page)
  BY <1>2 DEF Await, NotGone
<1> QED BY <1>1, <1>2 DEF Rate

LEMMA NextKept ==
    ASSUME IInv, KInv, [Next]_vars
    PROVE  KInv'
<1>1. ASSUME NEW c \in Clients, NEW g \in Groups, Scan(c, g)
      PROVE  KInv'
  BY <1>1, NothingPassed DEF Scan, NotGone
<1>2. ASSUME NEW c \in Clients, Merge(c)
      PROVE  KInv'
  <2>1. PICK titles :
          \/ Await(c, "ranking", titles) /\ UNCHANGED <<cache, made>>
          \/ /\ Snapshot(c, titles)
             /\ \/ Serve(c, req[c], FirstPage(req[c], titles))
                \/ Rate(c, req[c], FirstPage(req[c], titles))
    BY <1>2 DEF Merge
  <2>2. CASE Await(c, "ranking", titles) /\ UNCHANGED <<cache, made>>
    BY <2>2, NothingPassed DEF Await, NotGone
  <2>3. CASE /\ Snapshot(c, titles)
             /\ \/ Serve(c, req[c], FirstPage(req[c], titles))
                \/ Rate(c, req[c], FirstPage(req[c], titles))
    BY <2>3, ServedNotGone, SnapshotKept
  <2> QED BY <2>1, <2>2, <2>3
<1>3. ASSUME NEW c \in Clients, Rank(c)
      PROVE  KInv'
  <2>1. PICK titles : Snapshot(c, titles) /\ Serve(c, req[c], FirstPage(req[c], titles))
    BY <1>3 DEF Rank
  <2> QED BY <2>1, ServedNotGone, SnapshotKept
<1>4. ASSUME NEW c \in Clients, Rated(c) \/ RequestTimeout(c)
      PROVE  KInv'
  <2>1. UNCHANGED <<cache, made>>
    BY <1>4 DEF Rated, RequestTimeout
  <2>2. NotGone
    BY <1>4 DEF Rated, RequestTimeout, Serve, Answer, NotGone
  <2> QED BY <2>1, <2>2, NothingPassed
<1>5. CASE Reclassify \/ UNCHANGED vars
  BY <1>5, NothingPassed DEF Reclassify, vars, NotGone
<1> QED BY <1>1, <1>2, <1>3, <1>4, <1>5, ReceiveKept, OtherRouteKept, TickKept DEF Next

LEMMA InitKept == Init => KInv
<1> SUFFICES ASSUME Init PROVE KInv
  OBVIOUS
<1>1. WellFormed(cache)
  BY EmptyWellFormed DEF Init
<1>2. SnapshotsKept /\ CursorsLast
  BY DEF Init, SnapshotsKept, CursorsLast
<1> QED BY <1>1, <1>2 DEF KInv

\* Whoever else uses the cache that all routes share (cache.py), a cursor is good for
\* the filters it was made for until its snapshot is older than the lifetime of an
\* entry, or maxsize other uses came between: _cursor_page answers 409 for no other reason.
THEOREM CursorsStay == Spec => []CursorsLast
<1>1. IInv /\ KInv /\ [Next]_vars => KInv'
  BY NextKept
<1>2. KInv => CursorsLast
  BY DEF KInv
<1> QED BY <1>1, <1>2, InitKept, Invariance, PTL DEF Spec

-----------------------------------------------------------------------------
(* What a scan finds.                                                      *)

\* The group has found what is listed up to its offset, as it is now, and it is done
\* only at the end of the list or at the end of what may be fetched.
Followed(group, listed) ==
    /\ group.offset <= Len(listed) /\ DOMAIN group.found = 1..group.offset
    /\ \A i \in 1..group.offset :
         group.found[i] = [title |-> listed[i], class |-> upstream[listed[i]]]
    /\ group.state = "done" => group.offset = Len(listed) \/ group.offset >= MaxOffset

\* A scan whose request arrived n ticks ago, if MangaDex has changed nothing since.
ScanComplete(s, query, n) ==
    (\A t \in Titles : since[t] > n) =>
      \A g \in DOMAIN s : s[g].state # "failed" =>
        \/ s[g].found = <<>> /\ s[g].offset = 0 /\ s[g].state = "open"
        \/ \E listed \in Listings(g, query) : Followed(s[g], listed)

LInv ==
    \A c \in Clients : pc[c] = "scanning" => ScanComplete(scan[c], req[c].query, spent[c])

\* There is one way to list the titles of a group: the place of a title in it is the
\* number of those that are in front of it in the catalogue, and its own.
LEMMA PlacesDiffer ==
    ASSUME NEW t \in Titles, NEW u \in Titles
    PROVE  Place(t) \in Nat /\ (Place(t) = Place(u) => t = u)
<1>1. DOMAIN Catalogue \subseteq Nat
  <2>1. Catalogue \in Seq(Titles)
    BY PagingAssumption DEF Titles
  <2> QED BY <2>1
<1>2. ASSUME NEW x \in Titles
      PROVE  Place(x) \in DOMAIN Catalogue /\ Catalogue[Place(x)] = x
  <2>1. \E i \in DOMAIN Catalogue : Catalogue[i] = x
    BY DEF Titles
  <2> QED BY <2>1 DEF Place
<1> QED BY <1>1, <1>2

\* What MangaDex lists for a group is all that it offers of it, in the catalogue's order.
LEMMA ListingFacts ==
    ASSUME NEW g, NEW query, NEW list \in Listings(g, query)
    PROVE  /\ list \in Seq(Offered(g, query)) /\ Len(list) = Cardinality(Offered(g, query))
           /\ Len(list) \in Nat /\ DOMAIN list = 1..Len(list)
           /\ list \in Bijection(1..Len(list), Offered(g, query))
           /\ \A i, j \in 1..Len(list) : i < j <=> Place(list[i]) < Place(list[j])
<1>1. PICK S : S = Offered(g, query)
  OBVIOUS
<1>2. S \in SUBSET Titles /\ list \in SetToSeqs(S)
      /\ \A i, j \in DOMAIN list : i < j => Place(list[i]) < Place(list[j])
  BY <1>1 DEF Listings, Offered
<1>3. IsFiniteSet(S) /\ Cardinality(S) \in Nat
  BY <1>2, TitlesFinite, FS_Subset, FS_CardinalityType
<1>4. PICK n \in Nat : n = Cardinality(S)
  BY <1>3
<1>5. list \in [1..n -> S] /\ \A i, j \in 1..n : i # j => list[i] # list[j]
  BY <1>2, <1>4 DEF SetToSeqs
<1>6. list \in Seq(S) /\ Len(list) = n /\ DOMAIN list = 1..n
  BY <1>5
<1>7. IsFiniteSet(1..n) /\ Cardinality(1..n) = n
  BY FS_Interval
<1>8. list \in Injection(1..n, S)
  BY <1>5 DEF Injection, IsInjective
<1>9. list \in Surjection(1..n, S)
  BY <1>3, <1>4, <1>7, <1>8, FS_Injection
<1>10. list \in Bijection(1..n, S)
  BY <1>8, <1>9 DEF Bijection
<1>11. ASSUME NEW i \in 1..n, NEW j \in 1..n
       PROVE  i < j <=> Place(list[i]) < Place(list[j])
  <2>1. /\ i < j => Place(list[i]) < Place(list[j])
        /\ j < i => Place(list[j]) < Place(list[i])
    BY <1>2, <1>6
  <2>2. Place(list[i]) \in Nat /\ Place(list[j]) \in Nat
    BY <1>2, <1>5, PlacesDiffer
  <2>3. i < j \/ j < i \/ i = j
    OBVIOUS
  <2> QED BY <2>1, <2>2, <2>3
<1> QED BY <1>1, <1>4, <1>6, <1>10, <1>11

LEMMA PlaceInListing ==
    ASSUME NEW g, NEW query, NEW list \in Listings(g, query), NEW i \in 1..Len(list)
    PROVE  i = Cardinality({t \in Offered(g, query) : Place(t) < Place(list[i])}) + 1
<1> DEFINE front == {t \in Offered(g, query) : Place(t) < Place(list[i])}
           f == [j \in 1..(i - 1) |-> list[j]]
<1>1. PICK S, n : S = Offered(g, query) /\ n = Len(list)
  OBVIOUS
<1>2. /\ list \in Bijection(1..n, S) /\ n \in Nat
      /\ \A k, j \in 1..n : k < j <=> Place(list[k]) < Place(list[j])
  BY <1>1, ListingFacts
<1>3. i \in 1..n /\ i - 1 \in Nat /\ 1..(i - 1) \subseteq 1..n
  BY <1>1, <1>2
<1>4. f \in [1..(i - 1) -> front]
  BY <1>1, <1>2, <1>3 DEF Bijection, Injection
<1>5. f \in Injection(1..(i - 1), front)
  BY <1>2, <1>3, <1>4 DEF Bijection, Injection, IsInjective
<1>6. ASSUME NEW t \in front PROVE \E j \in 1..(i - 1) : f[j] = t
  <2>1. PICK j \in 1..n : list[j] = t
    BY <1>1, <1>2 DEF Bijection, Surjection
  <2>2. j < i
    BY <1>2, <1>3, <2>1
  <2> QED BY <1>3, <2>1, <2>2
<1>7. f \in Bijection(1..(i - 1), front)
  <2> HIDE DEF front, f
  <2> QED BY <1>4, <1>5, <1>6 DEF Bijection, Surjection
<1> HIDE DEF front, f
<1>8. ExistsBijection(1..(i - 1), front)
  BY <1>7 DEF ExistsBijection
<1>9. Cardinality(front) = i - 1
  BY <1>3, <1>8, FS_CountingElements
<1> QED BY <1>1, <1>3, <1>9 DEF front

LEMMA OneListing ==
    ASSUME NEW g, NEW query, NEW a \in Listings(g, query), NEW b \in Listings(g, query)
    PROVE  a = b
<1>1. PICK S, n : S = Offered(g, query) /\ n = Cardinality(S)
  OBVIOUS
<1>2. /\ n \in Nat /\ Len(a) = n /\ Len(b) = n /\ a \in Seq(S) /\ b \in Seq(S)
      /\ a \in Bijection(1..n, S) /\ b \in Bijection(1..n, S)
  BY <1>1, ListingFacts
<1>3. ASSUME NEW i \in 1..n PROVE a[i] = b[i]
  <2>1. a[i] \in S
    BY <1>2
  <2>2. PICK j \in 1..n : b[j] = a[i]
    BY <1>2, <2>1 DEF Bijection, Surjection
  <2>3. /\ i = Cardinality({t \in Offered(g, query) : Place(t) < Place(a[i])}) + 1
        /\ j = Cardinality({t \in Offered(g, query) : Place(t) < Place(b[j])}) + 1
    BY <1>2, PlaceInListing
  <2> QED BY <2>2, <2>3
<1> QED BY <1>2, <1>3

\* The next page of what the group has followed so far.
LEMMA ExtendedFollows ==
    ASSUME IInv, NEW g, NEW query, NEW list \in Listings(g, query), NEW group \in Fetched,
           \/ group.found = <<>> /\ group.offset = 0
           \/ Followed(group, list),
           NEW new, new = Extended(group, list)
    PROVE  Followed(new, list)
<1> DEFINE end == Least(group.offset + PageSize, Len(list))
           raw == SubSeq(list, group.offset + 1, end)
           after == group.offset + Len(raw)
<1>1. PICK from, found : from \in Nat /\ from = group.offset /\ found = group.found /\ found \in Seq(Items)
  BY DEF Fetched
<1>2. /\ from <= Len(list) /\ DOMAIN found = 1..from
      /\ \A i \in 1..from : found[i] = [title |-> list[i], class |-> upstream[list[i]]]
  <2>1. Len(list) \in Nat
    BY ListingFacts
  <2>2. CASE group.found = <<>> /\ group.offset = 0
    BY <1>1, <2>1, <2>2
  <2>3. CASE Followed(group, list)
    BY <1>1, <2>3 DEF Followed
  <2> QED BY <2>2, <2>3
<1>3. list \in Seq(Offered(g, query)) /\ Len(list) \in Nat /\ PageSize \in Nat \ {0}
  BY ListingFacts, PagingAssumption
<1>4. /\ end \in Nat /\ from <= end /\ end <= Len(list)
      /\ (end = from => from = Len(list))
  BY <1>1, <1>2, <1>3 DEF Least
<1>5. new.found = found \o Mapped(raw) /\ new.offset = after
      /\ (new.state = "done" => raw = <<>> \/ after >= Len(list) \/ after >= MaxOffset)
  BY <1>1 DEF Extended
<1> HIDE DEF end
<1>6. /\ Len(raw) = end - from /\ raw \in Seq(Offered(g, query))
      /\ \A i \in 1..(end - from) : raw[i] = list[from + i]
  <2>1. \A i \in from + 1 .. end : list[i] \in Offered(g, query)
    BY <1>1, <1>3, <1>4
  <2>2. raw = SubSeq(list, from + 1, end) /\ from + 1 \in Int /\ end \in Int
    BY <1>1, <1>4
  <2>3. /\ raw \in Seq(Offered(g, query))
        /\ Len(raw) = IF from + 1 <= end THEN end - (from + 1) + 1 ELSE 0
        /\ \A i \in 1..(end - (from + 1) + 1) : raw[i] = list[(from + 1) + i - 1]
    <3> HIDE DEF raw
    <3> QED BY <2>1, <2>2, SubSeqProperties
  <2>4. \A i \in 1..(end - from) : (from + 1) + i - 1 = from + i
    BY <1>1, <1>4
  <2> HIDE DEF raw
  <2>5. end - (from + 1) + 1 = end - from /\ (from + 1 > end => end - from = 0)
    BY <1>1, <1>4
  <2>6. Len(raw) = end - from
    <3>1. from + 1 <= end \/ from + 1 > end
      BY <1>1, <1>4
    <3> QED BY <2>3, <2>5, <3>1
  <2> QED BY <2>3, <2>4, <2>5, <2>6
<1> HIDE DEF raw
<1>7. after = end
  BY <1>1, <1>4, <1>6
<1>8. /\ Mapped(raw) \in Seq(Items) /\ Len(Mapped(raw)) = end - from
      /\ \A i \in 1..(end - from) :
           Mapped(raw)[i] = [title |-> raw[i], class |-> upstream[raw[i]]]
  <2>1. Mapped(raw) \in Seq(Items)
    BY <1>6, MappedOK
  <2>2. DOMAIN raw = 1..(end - from) /\ end - from \in Nat
    BY <1>1, <1>4, <1>6
  <2> QED BY <2>1, <2>2 DEF Mapped
<1>9. /\ Len(found) = from
      /\ DOMAIN (found \o Mapped(raw)) = 1..end
      /\ \A i \in 1..end :
           (found \o Mapped(raw))[i] = IF i <= from THEN found[i] ELSE Mapped(raw)[i - from]
  <2>1. PICK m \in Seq(Items) : m = Mapped(raw)
    BY <1>8
  <2>2. Len(found) = from /\ Len(m) = end - from
    BY <1>1, <1>2, <1>8, <2>1
  <2>3. /\ found \o m \in Seq(Items) /\ Len(found \o m) = Len(found) + Len(m)
        /\ \A i \in 1..Len(found) + Len(m) :
             (found \o m)[i] = IF i <= Len(found) THEN found[i] ELSE m[i - Len(found)]
    BY <1>1, ConcatProperties
  <2>4. Len(found \o m) = end
    BY <1>1, <1>4, <2>2, <2>3
  <2> QED BY <2>1, <2>2, <2>3, <2>4
<1>10. ASSUME NEW i \in 1..end
       PROVE  (found \o Mapped(raw))[i] = [title |-> list[i], class |-> upstream[list[i]]]
  <2>1. CASE i <= from
    BY <1>1, <1>2, <1>9, <2>1
  <2>2. CASE i > from
    <3>1. i - from \in 1..(end - from) /\ from + (i - from) = i
      BY <1>1, <1>4, <2>2
    <3>2. PICK j : j = i - from /\ j \in 1..(end - from) /\ from + j = i
      BY <3>1
    <3>3. raw[j] = list[i]
      BY <1>6, <3>2
    <3>4. Mapped(raw)[j] = [title |-> list[i], class |-> upstream[list[i]]]
      BY <1>8, <3>2, <3>3
    <3>5. ~(i <= from)
      BY <1>1, <1>4, <2>2
    <3>6. (found \o Mapped(raw))[i] = Mapped(raw)[j]
      BY <1>9, <3>2, <3>5
    <3> QED BY <3>4, <3>6
  <2>3. i <= from \/ i > from
    BY <1>1, <1>4
  <2> QED BY <2>1, <2>2, <2>3
<1>11. new.state = "done" => end = Len(list) \/ end >= MaxOffset
  <2>1. raw = <<>> => from = end
    BY <1>1, <1>4, <1>6
  <2> QED BY <1>1, <1>3, <1>4, <1>5, <1>7, <2>1
<1> QED BY <1>4, <1>5, <1>7, <1>9, <1>10, <1>11 DEF Followed

LEMMA OfferedStays ==
    ASSUME UNCHANGED upstream, NEW g, NEW query
    PROVE  Offered(g, query)' = Offered(g, query) /\ Listings(g, query)' = Listings(g, query)
<1>1. Offered(g, query)' = Offered(g, query)
  BY DEF Offered
<1> QED BY <1>1 DEF Listings

\* It stays complete while MangaDex changes nothing, whatever time it takes.
LEMMA CompleteStays ==
    ASSUME NEW s, NEW query, NEW n, NEW m, ScanComplete(s, query, n), UNCHANGED upstream,
           (\A t \in Titles : since'[t] > m) => (\A t \in Titles : since[t] > n)
    PROVE  ScanComplete(s, query, m)'
<1>1. \A g : Listings(g, query)' = Listings(g, query)
  BY OfferedStays
<1> QED BY <1>1 DEF ScanComplete, Followed

\* A step of c's request, which stops scanning or scans completely.
LEMMA OthersComplete ==
    ASSUME IInv, LInv, SameWorld, NEW c \in Clients,
           \A x \in Clients \ {c} :
             pc'[x] = pc[x] /\ req'[x] = req[x] /\ scan'[x] = scan[x] /\ spent'[x] = spent[x],
           pc'[c] = "scanning" => ScanComplete(scan[c], req[c].query, spent[c])'
    PROVE  LInv'
<1>1. ASSUME NEW x \in Clients, x # c, pc'[x] = "scanning"
      PROVE  ScanComplete(scan[x], req[x].query, spent[x])'
  <2>1. PICK s, q, n : s = scan[x] /\ q = req[x].query /\ n = spent[x]
    OBVIOUS
  <2>2. s = scan'[x] /\ q = req'[x].query /\ n = spent'[x] /\ pc[x] = "scanning"
    BY <1>1, <2>1
  <2>3. ScanComplete(s, q, n)
    BY <2>1, <2>2 DEF LInv
  <2>4. ScanComplete(s, q, n)'
    BY <2>3, CompleteStays DEF SameWorld
  <2> QED BY <2>2, <2>4
<1> QED BY <1>1 DEF LInv

LEMMA AwaitComplete ==
    ASSUME IInv, LInv, SameWorld, NEW c \in Clients, NEW place, NEW data,
           Await(c, place, data), place # "scanning",
           \A x \in Clients \ {c} : req'[x] = req[x] /\ scan'[x] = scan[x]
    PROVE  LInv'
<1>1. pc' = [pc EXCEPT ![c] = place] /\ spent' = spent
  BY DEF Await
<1>2. pc'[c] # "scanning" /\ \A x \in Clients \ {c} : pc'[x] = pc[x] /\ spent'[x] = spent[x]
  BY <1>1 DEF IInv, Typed
<1> QED BY <1>2, OthersComplete

LEMMA AnswerComplete ==
    ASSUME IInv, LInv, SameWorld, NEW c \in Clients, NEW r, NEW status, NEW page,
           Answer(c, r, status, page)
    PROVE  LInv'
<1>1. /\ pc' = [pc EXCEPT ![c] = "idle"] /\ req' = [req EXCEPT ![c] = Null]
      /\ scan' = [scan EXCEPT ![c] = Null] /\ spent' = [spent EXCEPT ![c] = 0]
  BY DEF Answer
<1>2. pc'[c] = "idle"
  BY <1>1 DEF IInv, Typed
<1>3. \A x \in Clients \ {c} : /\ pc'[x] = pc[x] /\ req'[x] = req[x]
                               /\ scan'[x] = scan[x] /\ spent'[x] = spent[x]
  BY <1>1 DEF IInv, Typed
<1> QED BY <1>2, <1>3, OthersComplete

LEMMA RateComplete ==
    ASSUME IInv, LInv, SameWorld, NEW c \in Clients, NEW r, NEW page,
           Serve(c, r, page) \/ Rate(c, r, page)
    PROVE  LInv'
<1>1. CASE Serve(c, r, page)
  BY <1>1, AnswerComplete DEF Serve
<1>2. CASE Await(c, "rating", page) /\ Scanned(c)
  <2>1. req' = req /\ scan' = [scan EXCEPT ![c] = Null]
    BY <1>2 DEF Scanned
  <2>2. \A x \in Clients \ {c} : req'[x] = req[x] /\ scan'[x] = scan[x]
    BY <2>1 DEF IInv, Typed
  <2> QED BY <1>2, <2>2, AwaitComplete
<1> QED BY <1>1, <1>2 DEF Rate

LEMMA ReceiveComplete ==
    ASSUME IInv, LInv, NEW c \in Clients, Receive(c)
    PROVE  LInv'
<1>1. SameWorld
  BY DEF Receive, worldVars, SameWorld
<1>2. ASSUME NEW r, req' = [req EXCEPT ![c] = r], scan' = [scan EXCEPT ![c] = Unscanned(req'[c])],
             Await(c, "scanning", Null)
      PROVE  LInv'
  <2>1. PICK s, q, n : s = Unscanned(r) /\ q = r.query /\ n = spent[c]
    OBVIOUS
  <2>2. pc' = [pc EXCEPT ![c] = "scanning"] /\ spent' = spent
    BY <1>2 DEF Await
  <2>3. req'[c] = r /\ scan'[c] = s /\ spent'[c] = n
    BY <1>2, <2>1, <2>2 DEF IInv, Typed
  <2>4. \A x \in Clients \ {c} : /\ pc'[x] = pc[x] /\ req'[x] = req[x]
                                 /\ scan'[x] = scan[x] /\ spent'[x] = spent[x]
    BY <1>2, <2>2 DEF IInv, Typed
  <2>5. ScanComplete(s, q, n)'
    BY <2>1 DEF ScanComplete, Unscanned
  <2>6. ScanComplete(scan[c], req[c].query, spent[c])'
    BY <2>1, <2>3, <2>5
  <2> QED BY <1>1, <2>4, <2>6, OthersComplete
<1>3. ASSUME NEW r, Turn(c, r)
      PROVE  LInv'
  <2>1. CASE \E page : Await(c, "rating", page) /\ req' = [req EXCEPT ![c] = r] /\ scan' = scan
    <3>1. \A x \in Clients \ {c} : req'[x] = req[x] /\ scan'[x] = scan[x]
      BY <2>1 DEF IInv, Typed
    <3> QED BY <1>1, <2>1, <3>1, AwaitComplete
  <2>2. CASE Answer(c, r, "gone", Null)
    BY <1>1, <2>2, AnswerComplete
  <2> QED BY <1>3, <2>1, <2>2 DEF Turn
<1> QED BY <1>2, <1>3 DEF Receive

\* A group that follows what is listed goes on to do so, and one that fails need not.
LEMMA ScanStaysComplete ==
    ASSUME IInv, LInv, NEW c \in Clients, NEW g \in Groups, Scan(c, g)
    PROVE  LInv'
<1>1. PICK s, q, n, group : s = scan[c] /\ q = req[c].query /\ n = spent[c] /\ group = s[g]
  OBVIOUS
<1>2. /\ ScanOK(s, q, n) /\ ScanComplete(s, q, n) /\ g \in DOMAIN s /\ pc[c] = "scanning"
  BY <1>1, AtFacts DEF Scan, At, RequestOK, LInv
<1>3. group \in Fetched /\ group.state = "open"
  BY <1>1, <1>2 DEF ScanOK, Scan
<1>4. SameWorld /\ UNCHANGED <<pc, req, spent>>
  BY DEF Scan, worldVars, SameWorld
<1>5. PICK new :
        /\ scan' = [scan EXCEPT ![c][g] = new]
        /\ \/ \E listed \in Listings(g, q) : new = Extended(group, listed)
           \/ new.state = "failed"
  <2>1. CASE ScanFetch(c, g)
    <3>1. PICK listed \in Listings(g, q) : scan' = [scan EXCEPT ![c][g] = Extended(@, listed)]
      BY <1>1, <2>1 DEF ScanFetch
    <3>2. PICK new : new = Extended(group, listed)
      OBVIOUS
    <3>3. scan' = [scan EXCEPT ![c][g] = new]
      BY <1>1, <3>1, <3>2
    <3> QED BY <3>2, <3>3
  <2>2. CASE ScanFails(c, g)
    <3>1. PICK found :
            scan' = [scan EXCEPT ![c][g] = [found |-> found, offset |-> @.offset, state |-> "failed"]]
      BY <1>1, <2>2 DEF ScanFails
    <3>2. PICK new : new = [found |-> found, offset |-> group.offset, state |-> "failed"]
      OBVIOUS
    <3>3. scan' = [scan EXCEPT ![c][g] = new] /\ new.state = "failed"
      BY <1>1, <3>1, <3>2
    <3> QED BY <3>3
  <2> QED BY <2>1, <2>2 DEF Scan
<1>6. PICK t : t = [s EXCEPT ![g] = new]
  OBVIOUS
<1>7. t[g] = new /\ DOMAIN t = DOMAIN s /\ \A h \in DOMAIN s \ {g} : t[h] = s[h]
  BY <1>2, <1>6 DEF ScanOK
<1>8. ScanComplete(t, q, n)
  <2> SUFFICES ASSUME \A u \in Titles : since[u] > n,
                      NEW h \in DOMAIN t, t[h].state # "failed"
               PROVE  \/ t[h].found = <<>> /\ t[h].offset = 0 /\ t[h].state = "open"
                      \/ \E listed \in Listings(h, q) : Followed(t[h], listed)
    BY DEF ScanComplete
  <2>1. CASE h # g
    <3>1. t[h] = s[h] /\ h \in DOMAIN s
      BY <1>7, <2>1
    <3> QED BY <1>2, <3>1 DEF ScanComplete
  <2>2. CASE h = g
    <3>1. PICK listed \in Listings(g, q) : new = Extended(group, listed)
      BY <1>5, <1>7, <2>2
    <3>2. \/ group.found = <<>> /\ group.offset = 0
          \/ \E other \in Listings(g, q) : Followed(group, other)
      BY <1>1, <1>2, <1>3 DEF ScanComplete
    <3>3. \/ group.found = <<>> /\ group.offset = 0
          \/ Followed(group, listed)
      BY <3>2, OneListing
    <3>4. Followed(new, listed)
      BY <1>3, <3>1, <3>3, ExtendedFollows
    <3> QED BY <1>7, <2>2, <3>4
  <2> QED BY <2>1, <2>2
<1>9. /\ scan'[c] = t
      /\ \A x \in Clients \ {c} : /\ pc'[x] = pc[x] /\ req'[x] = req[x]
                                  /\ scan'[x] = scan[x] /\ spent'[x] = spent[x]
  BY <1>1, <1>4, <1>5, <1>6 DEF IInv, Typed
<1>10. ScanComplete(t, q, n)'
  BY <1>4, <1>8, CompleteStays DEF SameWorld
<1>11. ScanComplete(scan[c], req[c].query, spent[c])'
  BY <1>1, <1>4, <1>9, <1>10
<1> QED BY <1>4, <1>9, <1>11, OthersComplete

LEMMA WorldComplete ==
    ASSUME IInv, LInv, Reclassify \/ OtherRoute \/ Tick \/ UNCHANGED vars
    PROVE  LInv'
<1>1. UNCHANGED <<pc, req, scan>>
  BY DEF Reclassify, OtherRoute, Tick, vars
<1>2. SUFFICES ASSUME NEW c \in Clients, pc[c] = "scanning"
               PROVE  ScanComplete(scan[c], req[c].query, spent[c])'
  BY <1>1 DEF LInv
<1>3. PICK s, q, n, m : s = scan[c] /\ q = req[c].query /\ n = spent[c] /\ m = spent'[c]
  OBVIOUS
<1>4. ScanComplete(s, q, n) /\ n \in Nat
  BY <1>2, <1>3, AtFacts DEF LInv
<1>5. ScanComplete(s, q, m)'
  <2>1. CASE OtherRoute \/ UNCHANGED vars
    BY <1>3, <1>4, <2>1, CompleteStays DEF OtherRoute, worldVars, vars
  <2>2. CASE Tick
    <3>1. upstream' = upstream /\ m = n + 1 /\ \A t \in Titles : since'[t] = Later(since[t])
      BY <1>2, <1>3, <2>2 DEF Tick, At
    <3>2. \A t \in Titles : since[t] \in 0..Long
      BY DEF IInv, Typed
    <3>3. \A t \in Titles : since'[t] > m => since[t] > n
      BY <1>4, <3>1, <3>2, LongFacts DEF Later
    <3> QED BY <1>4, <3>1, <3>3, CompleteStays
  <2>3. CASE Reclassify
    <3>1. /\ upstream' \in Uploads \ {upstream} /\ m = n
          /\ \A t \in Titles : since'[t] = IF upstream'[t] = upstream[t] THEN since[t] ELSE 0
      BY <1>3, <2>3 DEF Reclassify
    <3>2. upstream \in [Titles -> AllClasses] /\ upstream' \in [Titles -> AllClasses]
      BY <3>1, UploadFacts DEF IInv, Typed
    <3>3. PICK t \in Titles : upstream'[t] # upstream[t]
      BY <3>1, <3>2
    <3>4. ~(since'[t] > m)
      BY <1>4, <3>1, <3>3
    <3> QED BY <3>4 DEF ScanComplete
  <2> QED BY <2>1, <2>2, <2>3
<1>6. s = scan'[c] /\ q = req'[c].query
  BY <1>1, <1>3
<1> QED BY <1>3, <1>5, <1>6

LEMMA NextComplete ==
    ASSUME IInv, LInv, [Next]_vars
    PROVE  LInv'
<1>1. ASSUME NEW c \in Clients, Merge(c)
      PROVE  LInv'
  <2>1. SameWorld
    BY <1>1 DEF Merge, worldVars, SameWorld
  <2>2. PICK titles, r :
          \/ Await(c, "ranking", titles) /\ Scanned(c)
          \/ Serve(c, r, FirstPage(r, titles)) \/ Rate(c, r, FirstPage(r, titles))
    BY <1>1 DEF Merge
  <2>3. CASE Await(c, "ranking", titles) /\ Scanned(c)
    <3>1. req' = req /\ scan' = [scan EXCEPT ![c] = Null]
      BY <2>3 DEF Scanned
    <3>2. \A x \in Clients \ {c} : req'[x] = req[x] /\ scan'[x] = scan[x]
      BY <3>1 DEF IInv, Typed
    <3> QED BY <2>1, <2>3, <3>2, AwaitComplete
  <2>4. CASE Serve(c, r, FirstPage(r, titles)) \/ Rate(c, r, FirstPage(r, titles))
    BY <2>1, <2>4, RateComplete
  <2> QED BY <2>2, <2>3, <2>4
<1>2. ASSUME NEW c \in Clients, Rank(c) \/ Rated(c)
      PROVE  LInv'
  <2>1. SameWorld /\ \E r, page : Serve(c, r, page)
    BY <1>2 DEF Rank, Rated, worldVars, SameWorld
  <2> QED BY <2>1, RateComplete
<1>3. ASSUME NEW c \in Clients, RequestTimeout(c)
      PROVE  LInv'
  BY <1>3, AnswerComplete DEF RequestTimeout, worldVars, SameWorld
<1> QED BY <1>1, <1>2, <1>3, ReceiveComplete, ScanStaysComplete, WorldComplete DEF Next

\* What was found of a group is among what was found together.
LEMMA FoundContains ==
    ASSUME NEW c \in Clients, NEW q \in Queries, NEW n, ScanOK(scan[c], q, n),
           NEW g \in DOMAIN scan[c], NEW i \in DOMAIN scan[c][g].found
    PROVE  \E k \in DOMAIN Found(c) : Found(c)[k] = scan[c][g].found[i]
<1>1. PICK s : s = scan[c]
  OBVIOUS
<1>2. DOMAIN s = {"named", "none"} \/ DOMAIN s = {"none"}
  <2>1. CASE q.groups = <<"named", "none">>
    <3>1. {q.groups[j] : j \in DOMAIN q.groups} = {"named", "none"}
      BY <2>1
    <3> QED BY <1>1, <3>1 DEF ScanOK
  <2>2. CASE q.groups = <<"none">>
    <3>1. {q.groups[j] : j \in DOMAIN q.groups} = {"none"}
      BY <2>2
    <3> QED BY <1>1, <3>1 DEF ScanOK
  <2> QED BY <2>1, <2>2, QueryFacts
<1>3. \A h \in DOMAIN s : s[h].found \in Seq(Items)
  BY <1>1 DEF ScanOK, Fetched
<1>4. CASE "named" \in DOMAIN s
  <2>1. PICK a, b : a = s["named"].found /\ b = s["none"].found
    OBVIOUS
  <2>2. Found(c) = a \o b /\ a \in Seq(Items) /\ b \in Seq(Items)
    BY <1>1, <1>2, <1>3, <1>4, <2>1 DEF Found
  <2>3. /\ a \o b \in Seq(Items) /\ Len(a \o b) = Len(a) + Len(b)
        /\ \A k \in 1..Len(a) + Len(b) : (a \o b)[k] = IF k <= Len(a) THEN a[k] ELSE b[k - Len(a)]
    BY <2>2, ConcatProperties
  <2>4. /\ Len(a) \in Nat /\ Len(b) \in Nat /\ DOMAIN a = 1..Len(a) /\ DOMAIN b = 1..Len(b)
        /\ DOMAIN (a \o b) = 1..Len(a) + Len(b)
    BY <2>2, <2>3
  <2>5. CASE g = "named"
    <3>1. i \in 1..Len(a) /\ scan[c][g].found[i] = a[i]
      BY <1>1, <2>1, <2>4, <2>5
    <3>2. i \in 1..Len(a) + Len(b) /\ (a \o b)[i] = a[i]
      BY <2>3, <2>4, <3>1
    <3> QED BY <2>2, <2>4, <3>1, <3>2
  <2>6. CASE g = "none"
    <3>1. i \in 1..Len(b) /\ scan[c][g].found[i] = b[i]
      BY <1>1, <2>1, <2>4, <2>6
    <3>2. PICK k : k = Len(a) + i
      OBVIOUS
    <3>3. k \in 1..Len(a) + Len(b) /\ ~(k <= Len(a)) /\ k - Len(a) = i
      BY <2>4, <3>1, <3>2
    <3>4. (a \o b)[k] = b[i]
      BY <2>3, <3>3
    <3> QED BY <2>2, <2>4, <3>1, <3>3, <3>4
  <2> QED BY <1>1, <1>2, <2>5, <2>6
<1>5. CASE "named" \notin DOMAIN s
  <2>1. g = "none" /\ Found(c) = s["none"].found
    BY <1>1, <1>2, <1>5 DEF Found
  <2> QED BY <1>1, <2>1
<1> QED BY <1>4, <1>5

\* A title that MangaDex offers is among what its group found, and wanted.
LEMMA OfferedFound ==
    ASSUME IInv, LInv, NEW c \in Clients, NEW q, q = req[c].query, pc[c] = "scanning",
           NEW g \in DOMAIN scan[c], scan[c][g].state = "done",
           Cardinality(Offered(g, q)) <= MaxOffset, \A u \in Titles : since[u] > spent[c],
           NEW t \in Offered(g, q), Permitted(upstream[t], q)
    PROVE  \E k \in Wanted(Found(c), q) : Found(c)[k].title = t
<1>1. PICK s, group, n : s = scan[c] /\ group = s[g] /\ n = spent[c]
  OBVIOUS
<1>2. ScanOK(s, q, n) /\ ScanComplete(s, q, n) /\ q \in Queries
  BY <1>1, AtFacts DEF RequestOK, LInv, Requested
<1>3. PICK list \in Listings(g, q) : Followed(group, list)
  BY <1>1, <1>2 DEF ScanComplete
<1>4. group \in Fetched /\ group.state = "done"
  BY <1>1, <1>2 DEF ScanOK
<1>5. /\ list \in Bijection(1..Len(list), Offered(g, q)) /\ Len(list) \in Nat
      /\ Len(list) <= MaxOffset
  BY ListingFacts
<1>6. group.offset = Len(list)
  <2>1. group.offset \in Nat /\ MaxOffset \in Nat
    BY <1>4, PagingAssumption DEF Fetched
  <2> QED BY <1>3, <1>4, <1>5, <2>1 DEF Followed
<1>7. PICK i \in 1..Len(list) : list[i] = t
  BY <1>5 DEF Bijection, Surjection
<1>8. i \in DOMAIN group.found /\ group.found[i] = [title |-> t, class |-> upstream[t]]
  BY <1>3, <1>6, <1>7 DEF Followed
<1>9. PICK k \in DOMAIN Found(c) : Found(c)[k] = [title |-> t, class |-> upstream[t]]
  BY <1>1, <1>2, <1>8, FoundContains
<1>10. Found(c)[k].title = t /\ Found(c)[k].class = upstream[t]
  BY <1>9
<1>11. MatchesDemographic(upstream[t], q.groups)
  <2>1. CASE g = "named"
    <3>1. g \in {q.groups[j] : j \in DOMAIN q.groups}
      BY <1>1, <1>2 DEF ScanOK
    <3> QED BY <2>1, <3>1 DEF MatchesDemographic
  <2>2. CASE g # "named"
    BY <2>2 DEF Offered, MatchesDemographic
  <2> QED BY <2>1, <2>2
<1>12. k \in Wanted(Found(c), q)
  BY <1>9, <1>10, <1>11 DEF Permitted, Wanted
<1> QED BY <1>10, <1>12

\* What a merge puts together has every wanted title in it.
LEMMA UnionHasAll ==
    ASSUME NEW items \in Seq(Items), NEW q, NEW titles \in UnionsOf(items, q),
           NEW k \in Wanted(items, q)
    PROVE  \E j \in DOMAIN titles : titles[j] = items[k].title
<1> DEFINE S == {items[i].title : i \in Wanted(items, q)}
<1>1. titles \in SetToSeqs(S) /\ items[k].title \in S
  BY DEF UnionsOf
<1>2. S \in SUBSET Titles
  <2>1. ASSUME NEW i \in Wanted(items, q) PROVE items[i].title \in Titles
    <3>1. items[i] \in Items
      BY <2>1 DEF Wanted
    <3> QED BY <3>1 DEF Items
  <2> QED BY <2>1
<1> HIDE DEF S
<1>3. PICK t \in S : t = items[k].title
  BY <1>1
<1>4. PICK n : n = Cardinality(S)
  OBVIOUS
<1>5. IsFiniteSet(S) /\ n \in Nat
  BY <1>2, <1>4, TitlesFinite, FS_Subset, FS_CardinalityType
<1>6. titles \in Injection(1..n, S)
  BY <1>1, <1>4 DEF SetToSeqs, Injection, IsInjective
<1>7. IsFiniteSet(1..n) /\ Cardinality(1..n) = n
  BY <1>5, FS_Interval
<1>8. titles \in Surjection(1..n, S)
  BY <1>4, <1>5, <1>6, <1>7, FS_Injection
<1>9. DOMAIN titles = 1..n
  BY <1>8 DEF Surjection
<1> QED BY <1>3, <1>8, <1>9 DEF Surjection

LEMMA MergeListsAll ==
    ASSUME IInv, LInv, NEW c \in Clients, Merge(c)
    PROVE  ListsAll(c)
<1>1. PICK q, n : q = req[c].query /\ n = spent[c]
  OBVIOUS
<1>2. ScanOK(scan[c], q, n) /\ q \in Queries /\ pc[c] = "scanning"
  BY <1>1, AtFacts DEF Merge, At, RequestOK, Requested
<1>3. Found(c) \in Seq(Items)
  BY <1>2, FoundTogether
<1>4. PICK titles \in UnionsOf(Found(c), q) :
        \/ Await(c, "ranking", titles)
        \/ /\ Snapshot(c, titles)
           /\ \E r, page : Serve(c, r, page) \/ Rate(c, r, page)
  BY <1>1 DEF Merge
<1> DEFINE merged == IF pc'[c] = "ranking" THEN held'[c] ELSE made'[Len(made')].titles
<1>5. merged = titles
  <2>1. CASE Await(c, "ranking", titles)
    BY <2>1 DEF Await, IInv, Typed
  <2>2. ASSUME Snapshot(c, titles), NEW r, NEW page, Serve(c, r, page) \/ Rate(c, r, page)
        PROVE  merged = titles
    <3>1. pc'[c] # "ranking"
      <4>1. pc' = [pc EXCEPT ![c] = "idle"] \/ pc' = [pc EXCEPT ![c] = "rating"]
        BY <2>2 DEF Serve, Rate, Await, Answer
      <4> QED BY <4>1 DEF IInv, Typed
    <3>2. PICK k, new, m : /\ k = SnapshotKey(Len(made) + 1) /\ m = Passed(k)
                           /\ new = [query |-> q, titles |-> titles, age |-> 0, others |-> 0]
      OBVIOUS
    <3>3. made' = Append(m, new) /\ new.titles = titles
      BY <1>1, <2>2, <3>2 DEF Snapshot
    <3>4. m \in Seq(Snapshots)
      BY <3>2, PassedOK DEF IInv
    <3>5. Append(m, new)[Len(Append(m, new))] = new
      BY <3>4
    <3> QED BY <3>1, <3>3, <3>5
  <2> QED BY <1>4, <2>1, <2>2
<1> HIDE DEF merged
<1>6. SUFFICES ASSUME NEW g \in DOMAIN scan[c], scan[c][g].state = "done",
                      Cardinality(Offered(g, q)) <= MaxOffset,
                      \A u \in Titles : since[u] > spent[c],
                      NEW t \in Offered(g, q), Permitted(upstream[t], q)
               PROVE  \E j \in DOMAIN merged : merged[j] = t
  BY <1>1 DEF ListsAll, merged
<1>7. PICK k \in Wanted(Found(c), q) : Found(c)[k].title = t
  BY <1>1, <1>2, <1>6, OfferedFound
<1>8. PICK j \in DOMAIN titles : titles[j] = Found(c)[k].title
  BY <1>3, UnionHasAll
<1> QED BY <1>5, <1>7, <1>8

\* Whatever happens to the other group, the union that _scan_union exposes has every
\* title in it that MangaDex offers for a group whose scan came to its end, provided it
\* changed nothing meanwhile and the group fits into max_offset.
THEOREM NothingLost == Spec => NothingIsLost
<1>1. IInv /\ LInv /\ [Next]_vars => LInv'
  BY NextComplete
<1>2. Init => LInv
  BY DEF Init, LInv
<1>3. IInv /\ LInv /\ [Next]_vars => [\A c \in Clients : Merge(c) => ListsAll(c)]_vars
  BY MergeListsAll
<1> QED BY <1>1, <1>2, <1>3, Invariance, PTL DEF Spec, NothingIsLost
=============================================================================
