---------------------------- MODULE ReadingProofs ----------------------------
(***************************************************************************)
(* The age gate of Reading holds for any titles, readers, requests and     *)
(* changes, for any lifetime and size of the cache.  The invariant dates   *)
(* what cache and requests hold: it was true of MangaDex a number of ticks *)
(* ago that the entry's or the request's own age bounds.                   *)
(***************************************************************************)
EXTENDS Reading, SimpleCacheProofs

-----------------------------------------------------------------------------
(* The invariant.                                                          *)

\* c is the class of t, or was it when t last changed at most n ticks ago.
ReadWithin(t, c, n) == c = upstream[t] \/ since[t] <= n

\* The same for a class that may come from Jikan in part.
KnownWithin(t, c, n) == c \in Enriched(upstream[t]) \/ since[t] <= n

EntryFits(k, e) ==
    /\ e = [left |-> e.left, value |-> e.value] /\ e.left \in -1..Ttl
    /\ k[1] = "title" /\ Alive(e) =>
         k[2] \in Titles /\ KnownWithin(k[2], e.value.class, Ttl + Patience - e.left)
    /\ k[1] \in {"list", "latest"} /\ Alive(e) =>
         \A t \in e.value.titles : /\ t \in Titles
                                   /\ Listable(upstream[t], k[2]) \/ since[t] <= Ttl + Patience - e.left
    /\ k[1] = "tags" /\ Alive(e) /\ e.value.tags = "fallback" => tagsDown <= Ttl - e.left

CacheFits(c) == \A k \in DOMAIN c.entries : EntryFits(k, c.entries[k])

Gated(r) == r.title \in Titles /\ r.kind \in {"detail", "chapters", "pages"}

Listing(r) == r.kind \in {"list", "latest"}

Granted(r, n) == Visible(r.kind, r.title, r.age) \/ since[r.title] <= Ttl + Patience + n

Refused(r, n) == ~Readable(upstream[r.title], r.age) \/ since[r.title] <= Ttl + Patience + n

\* What a request that arrived n ticks ago may hold while it stands at `place'.
Holds(place, r, data, n) ==
    /\ place \in {"fetchTitle", "enrich", "refetch", "reenrich", "fetchOwner", "fetchContent"}
         => Gated(r)
    /\ place \in {"fetchList", "statistics", "fetchChapters", "fetchTitles"} => Listing(r)
    /\ place = "fetchTags" => r.kind = "tags"
    /\ place = "enrich" => ReadWithin(r.title, data, n)
    /\ place = "statistics" =>
         \A t \in DOMAIN data : t \in Titles /\ ReadWithin(t, data[t], n)
    /\ place = "fetchContent" => Granted(r, n) /\ r.kind # "detail"
    /\ place = "refetch" => data \in Reasons /\ (data = "denied" => Refused(r, n))
    /\ place = "reenrich" =>
         /\ data.reason \in Reasons /\ (data.reason = "denied" => Refused(r, n))
         /\ ReadWithin(r.title, data.class, n)

Typed ==
    /\ upstream \in [Titles -> Classes]
    /\ since \in [Titles -> 0..Long]
    /\ tagsDown \in 0..Long
    /\ pc \in [Slots -> Places]
    /\ req = [s \in Slots |-> req[s]]
    /\ held = [s \in Slots |-> held[s]]
    /\ spent \in [Slots -> 0..Patience]

RequestsFit == \A s \in Slots : Holds(pc[s], req[s], held[s], spent[s])

RepliesFit == RestrictionsTakeEffect /\ RefusalsHaveReason /\ FallbackFades

IInv == Typed /\ CacheFits(cache) /\ RequestsFit /\ RepliesFit

\* What no step of a request changes, except for a tags call that fails.
SameWorld == UNCHANGED <<upstream, since, tagsDown>>

-----------------------------------------------------------------------------
(* The cache.                                                              *)

LEMMA LongFacts == /\ Long \in Nat /\ Ttl \in Nat /\ Patience \in Nat
                   /\ Long = Ttl + Patience + Patience + 1
  BY CacheAssumption, ReadingAssumption, NullAssumption DEF Long

LEMMA GetFits ==
    ASSUME NEW c, NEW k, CacheFits(c)
    PROVE  CacheFits(AfterGet(c, k))
  BY GetKeeps DEF CacheFits

LEMMA SetFits ==
    ASSUME NEW c, NEW k, NEW v, CacheFits(c), EntryFits(k, [left |-> Ttl, value |-> v])
    PROVE  CacheFits(AfterSet(c, k, v))
  BY SetKeeps DEF CacheFits

-----------------------------------------------------------------------------
(* Steps of a request, apart from what it decides.                         *)

USE CacheAssumption, ReadingAssumption, NullAssumption

LEMMA WaitingFits ==
    ASSUME IInv, NEW s \in Slots, NEW r, NEW place \in Places, NEW data, NEW c,
           CacheFits(c), Await(s, r, place, data, c), SameWorld,
           Holds(place, r, data, spent[s])
    PROVE  IInv'
<1> USE DEF IInv, SameWorld
<1>1. Typed'
  BY DEF Await, Typed
<1>2. CacheFits(cache)'
  BY DEF Await, CacheFits, EntryFits, KnownWithin, Enriched, Listable, CanAccessContent,
         CanAccessDemographic, AgeLimit, Alive
<1>3. ASSUME NEW x \in Slots PROVE Holds(pc[x], req[x], held[x], spent[x])'
  <2>1. Holds(pc'[x], req'[x], held'[x], spent[x])
    BY DEF Await, Typed, RequestsFit
  <2>2. /\ upstream' = upstream /\ since' = since /\ tagsDown' = tagsDown
        /\ spent' = spent
    BY DEF Await
  <2> QED
    BY <2>1, <2>2 DEF Holds, Gated, Listing, ReadWithin, Granted, Refused,
       Visible, Readable, Listable, Enriched
<1>4. RepliesFit'
  BY DEF Await, RepliesFit, RestrictionsTakeEffect, RefusalsHaveReason, FallbackFades
<1> QED BY <1>1, <1>2, <1>3, <1>4 DEF RequestsFit

\* The reply that a step sends.
Justified(r, status, what) ==
    /\ status = "served" /\ r.kind # "tags" =>
         \A t \in what : Visible(r.kind, t, r.age) \/ Stale(t)
    /\ status = "denied" => ~Readable(upstream[r.title], r.age) \/ Stale(r.title)
    /\ status \in Reasons /\ what = {"forbidden"} =>
         ~Listable(upstream[r.title], r.age) \/ Stale(r.title)
    /\ status = "served" /\ r.kind = "tags" /\ what = {"fallback"} => tagsDown <= Ttl

LEMMA AnsweringFits ==
    ASSUME IInv, NEW s \in Slots, NEW r, NEW status, NEW what, NEW c,
           CacheFits(c), Answer(s, r, status, what, c), SameWorld,
           Justified(r, status, what)
    PROVE  IInv'
<1> USE DEF IInv, SameWorld
<1>1. Typed'
  <2>1. "idle" \in Places /\ 0 \in 0..Patience
    BY DEF Places
  <2>2. pc' \in [Slots -> Places] /\ spent' \in [Slots -> 0..Patience]
    BY <2>1 DEF Answer, Typed
  <2> QED BY <2>2 DEF Answer, Typed
<1>2. CacheFits(cache)'
  BY DEF Answer, CacheFits, EntryFits, KnownWithin, Enriched, Listable, CanAccessContent,
         CanAccessDemographic, AgeLimit, Alive
<1>3. ASSUME NEW x \in Slots PROVE Holds(pc[x], req[x], held[x], spent[x])'
  BY DEF Answer, Typed, RequestsFit, Holds, Gated, Listing, ReadWithin, Granted, Refused,
         Visible, Readable, Listable, Enriched
<1>4. RepliesFit'
  BY DEF Answer, Justified, RepliesFit, RestrictionsTakeEffect, RefusalsHaveReason,
         FallbackFades, Stale, Visible, Readable, Listable, Enriched, Reasons
<1> QED BY <1>1, <1>2, <1>3, <1>4 DEF RequestsFit

-----------------------------------------------------------------------------
(* Access to a title.                                                      *)

\* What Jikan adds never takes a title away from a reader.
LEMMA EnrichedReadable ==
    ASSUME NEW c \in Classes, NEW class \in Enriched(c), NEW age, Readable(c, age)
    PROVE  Readable(class, age)
<1>1. class.rating = c.rating /\ (c.known => class.known)
  BY DEF Enriched, Classes
<1> QED BY <1>1 DEF Readable, Listable, CanAccessContent, CanAccessDemographic

\* Nor does it make the second look-up call a title age-restricted.
LEMMA VerdictJustified ==
    ASSUME IInv, NEW r, Gated(r), NEW class, KnownWithin(r.title, class, Ttl + Patience)
    PROVE  Verdict(r, class) = {"forbidden"} => ~Listable(upstream[r.title], r.age) \/ Stale(r.title)
<1>1. CASE since[r.title] <= Ttl + Patience
  BY <1>1, LongFacts DEF IInv, Typed, Gated, Stale
<1>2. CASE class \in Enriched(upstream[r.title])
  <2>1. upstream[r.title] \in Classes
    BY DEF IInv, Typed, Gated
  <2>2. class.rating = upstream[r.title].rating /\ (upstream[r.title].known => class.known)
    BY <1>2, <2>1 DEF Enriched, Classes
  <2>3. Listable(upstream[r.title], r.age) => Listable(class, r.age)
    BY <2>2 DEF Listable, CanAccessContent, CanAccessDemographic
  <2>4. {"forbidden"} # {"not found"}
    OBVIOUS
  <2> QED BY <2>3, <2>4 DEF Verdict, Listable
<1> QED BY <1>1, <1>2 DEF KnownWithin

LEMMA GrantFits ==
    ASSUME IInv, NEW s \in Slots, NEW r, NEW c, CacheFits(c), Grant(s, r, c), SameWorld,
           Gated(r), Granted(r, 0)
    PROVE  IInv'
<1> DEFINE k == ContentKey(r)
<1>1. CacheFits(AfterGet(c, k))
  BY GetFits
<1>2. Granted(r, spent[s]) /\ Justified(r, "served", {r.title})
  BY LongFacts DEF IInv, Typed, Granted, Gated, Justified, Stale, Visible, Reasons
<1>3. CASE Serve(s, r, {r.title}, c)
  BY <1>2, <1>3, AnsweringFits DEF Serve
<1>4. CASE Serve(s, r, {r.title}, AfterGet(c, k))
  BY <1>1, <1>2, <1>4, AnsweringFits DEF Serve
<1>5. CASE r.kind # "detail" /\ Await(s, r, "fetchContent", Null, AfterGet(c, k))
  <2>1. Holds("fetchContent", r, Null, spent[s])
    BY <1>2, <1>5 DEF Holds
  <2> QED BY <1>1, <1>5, <2>1, WaitingFits DEF Places, FetchPlaces
<1> QED BY <1>3, <1>4, <1>5 DEF Grant

\* What is found in the cache was read that recently.
LEMMA CachedClassKnown ==
    ASSUME IInv, NEW r, Gated(r), NEW language, NEW c, CacheFits(c),
           Fresh(c, TitleKey(r.title, language))
    PROVE  KnownWithin(r.title, Value(c, TitleKey(r.title, language)).class, Ttl + Patience)
<1> DEFINE k == TitleKey(r.title, language)
<1>1. EntryFits(k, c.entries[k]) /\ Alive(c.entries[k])
  BY DEF Fresh, CacheFits
<1>2. k[1] = "title" /\ k[2] = r.title
  BY DEF TitleKey
<1>3. KnownWithin(r.title, Value(c, k).class, Ttl + Patience - c.entries[k].left)
  <2> HIDE DEF k
  <2> QED BY <1>1, <1>2 DEF EntryFits, Value
<1>4. c.entries[k].left \in Nat
  BY <1>1, LongFacts DEF EntryFits, Alive
<1>5. since[r.title] \in Nat
  BY LongFacts DEF IInv, Typed, Gated
<1> HIDE DEF k
<1>6. KnownWithin(r.title, Value(c, k).class, Ttl + Patience)
  BY <1>3, <1>4, <1>5, LongFacts DEF KnownWithin
<1> QED BY <1>6 DEF k

LEMMA RecheckFits ==
    ASSUME IInv, NEW s \in Slots, NEW r, NEW reason \in Reasons, NEW c, CacheFits(c),
           Recheck(s, r, reason, c), SameWorld, Gated(r),
           reason = "denied" => Refused(r, 0)
    PROVE  IInv'
<1> DEFINE k == TitleKey(r.title, NoLanguage)
<1>1. CacheFits(AfterGet(c, k))
  BY GetFits
<1>2. /\ reason = "denied" => Refused(r, spent[s])
      /\ reason = "denied" => ~Readable(upstream[r.title], r.age) \/ Stale(r.title)
  BY LongFacts DEF IInv, Typed, Refused, Gated, Stale
<1>3. CASE Fresh(c, k) /\ Answer(s, r, reason, Verdict(r, Value(c, k).class), AfterGet(c, k))
  <2>1. KnownWithin(r.title, Value(c, k).class, Ttl + Patience)
    BY <1>3, CachedClassKnown
  <2>2. Justified(r, reason, Verdict(r, Value(c, k).class))
    BY <1>2, <2>1, VerdictJustified DEF Justified, Reasons
  <2> QED BY <1>1, <1>3, <2>2, AnsweringFits
<1>4. CASE Await(s, r, "refetch", reason, AfterGet(c, k))
  <2>1. Holds("refetch", r, reason, spent[s])
    BY <1>2 DEF Holds
  <2> QED BY <1>1, <1>4, <2>1, WaitingFits DEF Places, FetchPlaces
<1> QED BY <1>3, <1>4 DEF Recheck

LEMMA DecideFits ==
    ASSUME IInv, NEW s \in Slots, NEW r, NEW class, NEW c, CacheFits(c),
           Decide(s, r, class, c), SameWorld, Gated(r),
           KnownWithin(r.title, class, Ttl + Patience)
    PROVE  IInv'
<1>1. CASE Readable(class, r.age) /\ Grant(s, r, c)
  <2>1. Granted(r, 0)
    BY <1>1, LongFacts DEF KnownWithin, Granted, Visible, Gated
  <2> QED BY <1>1, <2>1, GrantFits
<1>2. CASE ~Readable(class, r.age) /\ Recheck(s, r, "denied", c)
  <2>1. Refused(r, 0)
    <3>1. upstream[r.title] \in Classes
      BY DEF IInv, Typed, Gated
    <3> QED BY <1>2, <3>1, EnrichedReadable, LongFacts DEF KnownWithin, Refused
  <2> QED BY <1>2, <2>1, RecheckFits DEF Reasons
<1> QED BY <1>1, <1>2 DEF Decide

LEMMA AccessFits ==
    ASSUME IInv, NEW s \in Slots, NEW r, NEW c, CacheFits(c), Access(s, r, c), SameWorld,
           Gated(r)
    PROVE  IInv'
<1> DEFINE k == TitleKey(r.title, r.language)
<1>1. CacheFits(AfterGet(c, k))
  BY GetFits
<1>2. CASE Fresh(c, k) /\ Decide(s, r, Value(c, k).class, AfterGet(c, k))
  <2>1. KnownWithin(r.title, Value(c, k).class, Ttl + Patience)
    BY <1>2, CachedClassKnown
  <2> QED BY <1>1, <1>2, <2>1, DecideFits
<1>3. CASE Await(s, r, "fetchTitle", Null, AfterGet(c, k))
  <2>1. Holds("fetchTitle", r, Null, spent[s])
    BY DEF Holds
  <2> QED BY <1>1, <1>3, <2>1, WaitingFits DEF Places, FetchPlaces
<1> QED BY <1>2, <1>3 DEF Access

-----------------------------------------------------------------------------
(* One lemma for each action.                                              *)

LEMMA AtFacts ==
    ASSUME IInv, NEW s \in Slots
    PROVE  /\ Holds(pc[s], req[s], held[s], spent[s])
           /\ CacheFits(cache)
           /\ spent[s] \in 0..Patience
  BY DEF IInv, RequestsFit, Typed

LEMMA FetchTitleFits ==
    ASSUME IInv, NEW s \in Slots, FetchTitle(s)
    PROVE  IInv'
<1>1. Gated(req[s]) /\ CacheFits(cache) /\ SameWorld
  BY AtFacts DEF FetchTitle, At, Holds, worldVars, SameWorld
<1>2. CASE Await(s, req[s], "enrich", upstream[req[s].title], cache)
  <2>1. Holds("enrich", req[s], upstream[req[s].title], spent[s])
    BY <1>1 DEF Holds, ReadWithin
  <2> QED BY <1>1, <1>2, <2>1, WaitingFits DEF Places
<1>3. CASE Recheck(s, req[s], "absent", cache)
  BY <1>1, <1>3, RecheckFits DEF Reasons
<1> QED BY <1>2, <1>3 DEF FetchTitle

\* A class read while the request lives is young enough to be cached.
LEMMA EnrichedEntryFits ==
    ASSUME IInv, NEW s \in Slots, NEW t \in Titles, NEW language, NEW c, NEW class \in Enriched(c),
           ReadWithin(t, c, spent[s])
    PROVE  /\ KnownWithin(t, class, Ttl + Patience)
           /\ EntryFits(TitleKey(t, language), [left |-> Ttl, value |-> [class |-> class]])
<1>1. KnownWithin(t, class, Patience)
  BY LongFacts DEF ReadWithin, KnownWithin, IInv, Typed
<1>2. KnownWithin(t, class, Ttl + Patience)
  BY <1>1, LongFacts DEF KnownWithin, IInv, Typed
<1>3. Ttl \in -1..Ttl /\ Ttl + Patience - Ttl = Patience
  BY LongFacts
<1> QED BY <1>1, <1>2, <1>3 DEF EntryFits, TitleKey

LEMMA EnrichFits ==
    ASSUME IInv, NEW s \in Slots, Enrich(s)
    PROVE  IInv'
<1>1. /\ Gated(req[s]) /\ CacheFits(cache) /\ SameWorld
      /\ ReadWithin(req[s].title, held[s], spent[s])
  BY AtFacts DEF Enrich, At, Holds, worldVars, SameWorld
<1> DEFINE k == TitleKey(req[s].title, req[s].language)
<1>2. PICK class \in Enriched(held[s]) :
        Decide(s, req[s], class, AfterSet(cache, k, [class |-> class]))
  BY DEF Enrich
<1>3. /\ KnownWithin(req[s].title, class, Ttl + Patience)
      /\ EntryFits(k, [left |-> Ttl, value |-> [class |-> class]])
  BY <1>1, EnrichedEntryFits DEF Gated
<1>4. CacheFits(AfterSet(cache, k, [class |-> class]))
  BY <1>1, <1>3, SetFits
<1> QED BY <1>1, <1>2, <1>3, <1>4, DecideFits

LEMMA RefetchFits ==
    ASSUME IInv, NEW s \in Slots, Refetch(s)
    PROVE  IInv'
<1> DEFINE r == req[s]
           data == [reason |-> held[s], class |-> upstream[r.title]]
<1>1. /\ Gated(r) /\ CacheFits(cache) /\ SameWorld
      /\ held[s] \in Reasons /\ (held[s] = "denied" => Refused(r, spent[s]))
  BY AtFacts DEF Refetch, At, Holds, worldVars, SameWorld
<1>2. CASE Await(s, r, "reenrich", data, cache)
  <2>1. Holds("reenrich", r, data, spent[s])
    BY <1>1 DEF Holds, ReadWithin
  <2> QED BY <1>1, <1>2, <2>1, WaitingFits DEF Places
<1>3. CASE Answer(s, r, held[s], {"not found"}, cache)
  <2>1. {"not found"} # {"forbidden"}
    OBVIOUS
  <2>2. held[s] = "denied" => ~Readable(upstream[r.title], r.age) \/ Stale(r.title)
    BY <1>1, AtFacts, LongFacts DEF Refused, Stale, Gated, IInv, Typed
  <2>3. Justified(r, held[s], {"not found"})
    BY <1>1, <2>1, <2>2 DEF Justified, Reasons
  <2> QED BY <1>1, <1>3, <2>3, AnsweringFits
<1> QED BY <1>2, <1>3 DEF Refetch

LEMMA ReenrichFits ==
    ASSUME IInv, NEW s \in Slots, Reenrich(s)
    PROVE  IInv'
<1> DEFINE r == req[s]
           k == TitleKey(r.title, NoLanguage)
<1>1. /\ Gated(r) /\ CacheFits(cache) /\ SameWorld
      /\ held[s].reason \in Reasons /\ (held[s].reason = "denied" => Refused(r, spent[s]))
      /\ ReadWithin(r.title, held[s].class, spent[s])
  BY AtFacts DEF Reenrich, At, Holds, worldVars, SameWorld
<1>2. PICK class \in Enriched(held[s].class) :
        Answer(s, r, held[s].reason, Verdict(r, class), AfterSet(cache, k, [class |-> class]))
  BY DEF Reenrich
<1>3. /\ KnownWithin(r.title, class, Ttl + Patience)
      /\ EntryFits(k, [left |-> Ttl, value |-> [class |-> class]])
  BY <1>1, EnrichedEntryFits DEF Gated
<1>4. CacheFits(AfterSet(cache, k, [class |-> class]))
  BY <1>1, <1>3, SetFits
<1>5. Justified(r, held[s].reason, Verdict(r, class))
  <2>1. held[s].reason = "denied" => ~Readable(upstream[r.title], r.age) \/ Stale(r.title)
    BY <1>1, AtFacts, LongFacts DEF Refused, Stale, Gated, IInv, Typed
  <2> QED BY <1>1, <1>3, <2>1, VerdictJustified DEF Justified, Reasons
<1> QED BY <1>1, <1>2, <1>4, <1>5, AnsweringFits

\* Entries that hold no class and no list date nothing.
LEMMA PlainEntryFits ==
    ASSUME NEW k, NEW v, k[1] \in {"owner", "chapters", "pages"}
    PROVE  EntryFits(k, [left |-> Ttl, value |-> v])
<1>1. Ttl \in -1..Ttl
  BY LongFacts
<1> QED BY <1>1 DEF EntryFits

LEMMA FetchOwnerFits ==
    ASSUME IInv, NEW s \in Slots, FetchOwner(s)
    PROVE  IInv'
<1> DEFINE r == req[s]
           k == OwnerKey(r.title)
<1>1. Gated(r) /\ CacheFits(cache) /\ SameWorld
  BY AtFacts DEF FetchOwner, At, Holds, worldVars, SameWorld
<1>2. CacheFits(AfterSet(cache, k, [title |-> r.title]))
  <2>1. k[1] \in {"owner", "chapters", "pages"}
    BY DEF OwnerKey
  <2> HIDE DEF k
  <2>2. EntryFits(k, [left |-> Ttl, value |-> [title |-> r.title]])
    BY <2>1, PlainEntryFits
  <2> QED BY <1>1, <2>2, SetFits
<1>3. CASE Access(s, r, AfterSet(cache, k, [title |-> r.title]))
  BY <1>1, <1>2, <1>3, AccessFits
<1>4. CASE Answer(s, r, "absent", {"not found"}, cache)
  <2>1. Justified(r, "absent", {"not found"})
    BY DEF Justified
  <2> QED BY <1>1, <1>4, <2>1, AnsweringFits
<1> QED BY <1>3, <1>4 DEF FetchOwner

LEMMA FetchContentFits ==
    ASSUME IInv, NEW s \in Slots, FetchContent(s)
    PROVE  IInv'
<1> DEFINE r == req[s]
           k == ContentKey(r)
           c == AfterSet(cache, k, [title |-> r.title])
<1>1. /\ Gated(r) /\ r.kind # "detail" /\ Granted(r, spent[s])
      /\ CacheFits(cache) /\ SameWorld
  BY AtFacts DEF FetchContent, At, Holds, worldVars, SameWorld
<1>2. Justified(r, "served", {r.title})
  BY <1>1, AtFacts, LongFacts DEF Justified, Granted, Stale, Gated, IInv, Typed, Reasons
<1>3. CASE Serve(s, r, {r.title}, cache)
  BY <1>1, <1>2, <1>3, AnsweringFits DEF Serve
<1>4. CASE Serve(s, r, {r.title}, c)
  <2>1. CacheFits(c)
    <3>1. k[1] \in {"owner", "chapters", "pages"}
      BY <1>1 DEF ContentKey, Gated
    <3> HIDE DEF k
    <3>2. EntryFits(k, [left |-> Ttl, value |-> [title |-> r.title]])
      BY <3>1, PlainEntryFits
    <3> QED BY <1>1, <3>2, SetFits
  <2> QED BY <1>1, <1>2, <1>4, <2>1, AnsweringFits DEF Serve
<1> QED BY <1>3, <1>4 DEF FetchContent

LEMMA FetchListFits ==
    ASSUME IInv, NEW s \in Slots, FetchList(s)
    PROVE  IInv'
<1> DEFINE data(page) == [t \in page |-> upstream[t]]
<1>1. Listing(req[s]) /\ CacheFits(cache) /\ SameWorld
  BY AtFacts DEF FetchList, At, Holds, worldVars, SameWorld
<1>2. PICK page \in SUBSET Titles : Await(s, req[s], "statistics", data(page), cache)
  BY DEF FetchList
<1>3. Holds("statistics", req[s], data(page), spent[s])
  BY <1>1 DEF Holds, ReadWithin
<1> QED BY <1>1, <1>2, <1>3, WaitingFits DEF Places

\* The titles of a page may be served and cached for the reader's age.
LEMMA ShownFits ==
    ASSUME IInv, NEW s \in Slots, NEW r, Listing(r), NEW page,
           \A t \in DOMAIN page : t \in Titles /\ ReadWithin(t, page[t], spent[s])
    PROVE  LET shown == Allowed(page, r.age)
           IN  /\ Justified(r, "served", shown)
               /\ CacheFits(AfterSet(cache, ListKey(r), [titles |-> shown]))
<1> DEFINE shown == Allowed(page, r.age)
           k == ListKey(r)
           e == [left |-> Ttl, value |-> [titles |-> shown]]
<1>1. \A t \in shown : /\ t \in Titles
                       /\ Listable(upstream[t], r.age) \/ since[t] <= Patience
  <2>1. \A t \in shown : t \in DOMAIN page /\ Listable(page[t], r.age)
    BY DEF Allowed
  <2>2. \A t \in Titles : since[t] <= spent[s] => since[t] <= Patience
    BY LongFacts DEF IInv, Typed
  <2> QED BY <2>1, <2>2 DEF ReadWithin
<1>2. Justified(r, "served", shown)
  <2>1. \A t \in Titles : since[t] <= Patience => Stale(t)
    BY LongFacts DEF IInv, Typed, Stale
  <2> QED BY <1>1, <2>1 DEF Justified, Visible, Listing, Reasons
<1>3. EntryFits(k, e)
  <2>1. k[1] = r.kind /\ k[2] = r.age
    BY DEF ListKey
  <2>2. /\ e = [left |-> e.left, value |-> e.value]
        /\ e.left = Ttl /\ e.value.titles = shown
        /\ Ttl \in -1..Ttl /\ Ttl + Patience - Ttl = Patience
    BY LongFacts
  <2> HIDE DEF k, e, shown
  <2> QED BY <1>1, <2>1, <2>2 DEF EntryFits, Listing
<1>4. CacheFits(AfterSet(cache, k, [titles |-> shown]))
  BY <1>3, AtFacts, SetFits
<1> QED BY <1>2, <1>4

LEMMA StatisticsFits ==
    ASSUME IInv, NEW s \in Slots, Statistics(s)
    PROVE  IInv'
<1> DEFINE shown == Allowed(held[s], req[s].age)
<1>1. /\ Listing(req[s]) /\ SameWorld
      /\ \A t \in DOMAIN held[s] : t \in Titles /\ ReadWithin(t, held[s][t], spent[s])
  BY AtFacts DEF Statistics, At, Holds, worldVars, SameWorld
<1>2. /\ Justified(req[s], "served", shown)
      /\ CacheFits(AfterSet(cache, ListKey(req[s]), [titles |-> shown]))
  BY <1>1, ShownFits
<1>3. Serve(s, req[s], shown, AfterSet(cache, ListKey(req[s]), [titles |-> shown]))
  BY DEF Statistics
<1> QED BY <1>1, <1>2, <1>3, AnsweringFits DEF Serve

LEMMA FetchChaptersFits ==
    ASSUME IInv, NEW s \in Slots, FetchChapters(s)
    PROVE  IInv'
<1>1. Listing(req[s]) /\ CacheFits(cache) /\ SameWorld
  BY AtFacts DEF FetchChapters, At, Holds, worldVars, SameWorld
<1>2. Holds("fetchTitles", req[s], Null, spent[s])
  BY <1>1 DEF Holds
<1> QED BY <1>1, <1>2, WaitingFits DEF FetchChapters, Places, FetchPlaces

LEMMA FetchTitlesFits ==
    ASSUME IInv, NEW s \in Slots, FetchTitles(s)
    PROVE  IInv'
<1> DEFINE data(page) == [t \in page |-> upstream[t]]
           shown(page) == Allowed(data(page), req[s].age)
<1>1. Listing(req[s]) /\ SameWorld
  BY AtFacts DEF FetchTitles, At, Holds, worldVars, SameWorld
<1>2. PICK page \in SUBSET Titles :
        Serve(s, req[s], shown(page), AfterSet(cache, ListKey(req[s]), [titles |-> shown(page)]))
  BY DEF FetchTitles
<1>3. \A t \in DOMAIN data(page) : t \in Titles /\ ReadWithin(t, data(page)[t], spent[s])
  BY DEF ReadWithin
<1>4. /\ Justified(req[s], "served", shown(page))
      /\ CacheFits(AfterSet(cache, ListKey(req[s]), [titles |-> shown(page)]))
  <2> HIDE DEF data
  <2> QED BY <1>1, <1>3, ShownFits
<1> QED BY <1>1, <1>2, <1>4, AnsweringFits DEF Serve

LEMMA FetchTagsFits ==
    ASSUME IInv, NEW s \in Slots, FetchTags(s)
    PROVE  IInv'
<1> DEFINE c(tags) == AfterSet(cache, TagsKey, [tags |-> tags])
           e(tags) == [left |-> Ttl, value |-> [tags |-> tags]]
<1>1. req[s].kind = "tags" /\ CacheFits(cache)
  BY AtFacts DEF FetchTags, At, Holds
<1>2. CASE Serve(s, req[s], {"full"}, c("full")) /\ UNCHANGED tagsDown
  <2>1. EntryFits(TagsKey, e("full"))
    BY LongFacts DEF EntryFits, TagsKey
  <2>2. CacheFits(c("full"))
    BY <1>1, <2>1, SetFits
  <2>3. Justified(req[s], "served", {"full"})
    BY <1>1 DEF Justified
  <2>4. SameWorld
    BY <1>2 DEF FetchTags, worldVars, SameWorld
  <2> QED BY <1>2, <2>2, <2>3, <2>4, AnsweringFits DEF Serve
<1>3. CASE Serve(s, req[s], {"fallback"}, c("fallback")) /\ tagsDown' = 0
  <2> USE <1>3 DEF Serve, Answer
  <2>1. upstream' = upstream /\ since' = since
    BY DEF FetchTags, worldVars
  <2>2. Typed'
    <3>1. "idle" \in Places /\ 0 \in 0..Patience /\ 0 \in 0..Long
      BY LongFacts DEF Places
    <3>2. pc' \in [Slots -> Places] /\ spent' \in [Slots -> 0..Patience]
      BY <3>1 DEF IInv, Typed
    <3> QED BY <2>1, <3>1, <3>2 DEF IInv, Typed
  <2>3. ASSUME NEW k, NEW x, EntryFits(k, x)
        PROVE  EntryFits(k, x)'
    <3>1. x.left \in -1..Ttl /\ 0 <= Ttl - x.left
      BY <2>3, LongFacts DEF EntryFits
    <3> QED BY <2>1, <2>3, <3>1 DEF EntryFits, KnownWithin
  <2>4. ASSUME NEW k \in DOMAIN cache'.entries
        PROVE  EntryFits(k, cache.entries[k])'
    <3> DEFINE x == cache'.entries[k]
    <3>1. EntryFits(TagsKey, e("fallback"))'
      BY LongFacts DEF EntryFits, TagsKey
    <3>2. \/ k = TagsKey /\ x = e("fallback")
          \/ k \in DOMAIN cache.entries /\ x = cache.entries[k]
      BY <2>4, SetKeeps
    <3>3. PICK y : y = x /\ EntryFits(k, y)'
      <4>1. CASE k = TagsKey /\ x = e("fallback")
        <5> HIDE DEF e
        <5> QED BY <3>1, <4>1 DEF EntryFits, KnownWithin
      <4>2. CASE k \in DOMAIN cache.entries /\ x = cache.entries[k]
        <5>1. PICK y : y = cache.entries[k] /\ EntryFits(k, y)
          BY <1>1, <4>2 DEF CacheFits
        <5> QED BY <2>3, <4>2, <5>1
      <4> QED BY <3>2, <4>1, <4>2
    <3> QED BY <3>3 DEF EntryFits, KnownWithin
  <2>5. CacheFits(cache)'
    BY <2>4 DEF CacheFits
  <2>6. ASSUME NEW x \in Slots PROVE Holds(pc[x], req[x], held[x], spent[x])'
    BY <2>1 DEF IInv, Typed, RequestsFit, Holds, Gated, Listing, ReadWithin, Granted, Refused,
           Visible, Readable, Listable, Enriched
  <2>7. RepliesFit'
    BY <1>1, LongFacts DEF RepliesFit, RestrictionsTakeEffect, RefusalsHaveReason, FallbackFades
  <2> QED BY <2>2, <2>5, <2>6, <2>7 DEF IInv, RequestsFit
<1> QED BY <1>2, <1>3 DEF FetchTags

\* A list that is found in the cache was filtered for the same age.
LEMMA CachedListJustified ==
    ASSUME IInv, NEW r, Listing(r), Fresh(cache, ListKey(r))
    PROVE  Justified(r, "served", Value(cache, ListKey(r)).titles)
<1> DEFINE k == ListKey(r)
           e == cache.entries[k]
<1>1. EntryFits(k, e) /\ Alive(e)
  BY DEF IInv, CacheFits, Fresh
<1>2. k[1] = r.kind /\ k[2] = r.age
  BY DEF ListKey
<1>3. \A t \in e.value.titles :
        t \in Titles /\ (Listable(upstream[t], r.age) \/ since[t] <= Ttl + Patience - e.left)
  <2> HIDE DEF k, e
  <2> QED BY <1>1, <1>2 DEF EntryFits, Listing
<1>4. e.left \in Nat
  BY <1>1, LongFacts DEF EntryFits, Alive
<1>5. \A t \in Titles : since[t] <= Ttl + Patience - e.left => Stale(t)
  <2> HIDE DEF e
  <2> QED BY <1>4, LongFacts DEF IInv, Typed, Stale
<1> QED BY <1>3, <1>5 DEF Justified, Visible, Listing, Value, Reasons

LEMMA CachedTagsJustified ==
    ASSUME IInv, NEW r, r.kind = "tags", Fresh(cache, TagsKey)
    PROVE  Justified(r, "served", {Value(cache, TagsKey).tags})
<1> DEFINE e == cache.entries[TagsKey]
<1>1. EntryFits(TagsKey, e) /\ Alive(e)
  BY DEF IInv, CacheFits, Fresh
<1>2. e.left \in Nat
  BY <1>1, LongFacts DEF EntryFits, Alive
<1>3. e.value.tags = "fallback" => tagsDown <= Ttl - e.left
  BY <1>1 DEF EntryFits, TagsKey
<1>4. e.value.tags = "fallback" => tagsDown <= Ttl
  <2> HIDE DEF e
  <2> QED BY <1>2, <1>3, LongFacts DEF IInv, Typed
<1> QED BY <1>4 DEF Justified, Value, Reasons

LEMMA ReceiveFits ==
    ASSUME IInv, NEW s \in Slots, Receive(s)
    PROVE  IInv'
<1>1. SameWorld /\ CacheFits(cache)
  BY AtFacts DEF Receive, worldVars, SameWorld
<1>2. PICK r \in Requested :
         \/ r.kind \in {"detail", "chapters"} /\ Access(s, r, cache)
         \/ r.kind = "pages" /\ Access(s, r, AfterGet(cache, OwnerKey(r.title)))
         \/ r.kind = "pages" /\ Await(s, r, "fetchOwner", Null, AfterGet(cache, OwnerKey(r.title)))
         \/ /\ Listing(r) /\ Fresh(cache, ListKey(r))
            /\ Serve(s, r, Value(cache, ListKey(r)).titles, AfterGet(cache, ListKey(r)))
         \/ /\ Listing(r)
            /\ Await(s, r, IF r.kind = "list" THEN "fetchList" ELSE "fetchChapters",
                     Null, AfterGet(cache, ListKey(r)))
         \/ /\ r.kind = "tags" /\ Fresh(cache, TagsKey)
            /\ Serve(s, r, {Value(cache, TagsKey).tags}, AfterGet(cache, TagsKey))
         \/ r.kind = "tags" /\ Await(s, r, "fetchTags", Null, AfterGet(cache, TagsKey))
  BY DEF Receive, Listing
<1>3. r.kind \in {"detail", "chapters", "pages"} => Gated(r)
  BY DEF Requested, Gated
<1>4. \A k : CacheFits(AfterGet(cache, k))
  BY <1>1, GetFits
<1>5. CASE r.kind \in {"detail", "chapters"} /\ Access(s, r, cache)
  BY <1>1, <1>3, <1>5, AccessFits
<1>6. CASE r.kind = "pages" /\ Access(s, r, AfterGet(cache, OwnerKey(r.title)))
  BY <1>1, <1>3, <1>4, <1>6, AccessFits
<1>7. CASE r.kind = "pages" /\ Await(s, r, "fetchOwner", Null, AfterGet(cache, OwnerKey(r.title)))
  <2>1. Holds("fetchOwner", r, Null, spent[s])
    BY <1>3, <1>7 DEF Holds
  <2> QED BY <1>1, <1>4, <1>7, <2>1, WaitingFits DEF Places, FetchPlaces
<1>8. CASE /\ Listing(r) /\ Fresh(cache, ListKey(r))
           /\ Serve(s, r, Value(cache, ListKey(r)).titles, AfterGet(cache, ListKey(r)))
  BY <1>1, <1>4, <1>8, CachedListJustified, AnsweringFits DEF Serve
<1>9. CASE /\ Listing(r)
           /\ Await(s, r, IF r.kind = "list" THEN "fetchList" ELSE "fetchChapters",
                    Null, AfterGet(cache, ListKey(r)))
  <2>1. Holds("fetchList", r, Null, spent[s]) /\ Holds("fetchChapters", r, Null, spent[s])
    BY <1>9 DEF Holds
  <2>2. CASE r.kind = "list"
    BY <1>1, <1>4, <1>9, <2>1, <2>2, WaitingFits DEF Places, FetchPlaces
  <2>3. CASE r.kind # "list"
    BY <1>1, <1>4, <1>9, <2>1, <2>3, WaitingFits DEF Places, FetchPlaces
  <2> QED BY <2>2, <2>3
<1>10. CASE /\ r.kind = "tags" /\ Fresh(cache, TagsKey)
            /\ Serve(s, r, {Value(cache, TagsKey).tags}, AfterGet(cache, TagsKey))
  BY <1>1, <1>4, <1>10, CachedTagsJustified, AnsweringFits DEF Serve
<1>11. CASE r.kind = "tags" /\ Await(s, r, "fetchTags", Null, AfterGet(cache, TagsKey))
  <2>1. Holds("fetchTags", r, Null, spent[s])
    BY <1>11 DEF Holds
  <2> QED BY <1>1, <1>4, <1>11, <2>1, WaitingFits DEF Places
<1> QED BY <1>2, <1>5, <1>6, <1>7, <1>8, <1>9, <1>10, <1>11

LEMMA EndFits ==
    ASSUME IInv, NEW s \in Slots, CallFails(s) \/ RequestTimeout(s)
    PROVE  IInv'
<1>1. SameWorld /\ CacheFits(cache)
  BY AtFacts DEF CallFails, RequestTimeout, worldVars, SameWorld
<1>2. Justified(req[s], "failed", {}) /\ Justified(req[s], "timeout", {})
  BY DEF Justified
<1>3. \/ Answer(s, req[s], "failed", {}, cache)
      \/ Answer(s, req[s], "timeout", {}, cache)
  BY DEF CallFails, RequestTimeout
<1> QED BY <1>1, <1>2, <1>3, AnsweringFits

\* A tick ages what is held and what is remembered alike.
LEMMA TickFits ==
    ASSUME IInv, Tick
    PROVE  IInv'
<1> USE LongFacts DEF Tick
<1>1. /\ \A n \in 0..Long : Later(n) \in 0..Long /\ Later(n) <= n + 1
      /\ since' = [t \in Titles |-> Later(since[t])]
      /\ \A t \in Titles : since[t] \in 0..Long
  BY DEF Later, IInv, Typed
<1>2. ASSUME NEW t \in Titles, NEW n \in Int, since[t] <= n
      PROVE  since'[t] <= n + 1
  BY <1>1, <1>2
<1>3. Typed'
  <2>1. spent' \in [Slots -> 0..Patience]
    BY DEF IInv, Typed, At
  <2>2. since' \in [Titles -> 0..Long] /\ tagsDown' \in 0..Long
    BY <1>1 DEF IInv, Typed
  <2> QED BY <2>1, <2>2 DEF IInv, Typed
<1>4. ASSUME NEW k \in DOMAIN cache'.entries
      PROVE  EntryFits(k, cache.entries[k])'
  <2> DEFINE old == cache.entries[k]
             new == cache'.entries[k]
  <2>1. k \in DOMAIN cache.entries /\ EntryFits(k, old)
    BY <1>4 DEF IInv, CacheFits, Aged
  <2>2. new = [old EXCEPT !.left = IF @ >= 0 THEN @ - 1 ELSE -1]
    BY <1>4 DEF Aged
  <2>3. PICK e, f : e = old /\ f = new
    OBVIOUS
  <2>4. CASE ~Alive(f)
    <3>1. e.left \in -1..Ttl
      BY <2>1, <2>3 DEF EntryFits
    <3>2. e = [left |-> e.left, value |-> e.value]
      BY <2>1, <2>3 DEF EntryFits
    <3>3. f = [left |-> f.left, value |-> f.value] /\ f.left \in -1..Ttl
      BY <2>2, <2>3, <3>1, <3>2
    <3>4. EntryFits(k, f)'
      BY <2>4, <3>3 DEF EntryFits
    <3> QED BY <2>3, <3>4 DEF EntryFits, KnownWithin
  <2>5. CASE Alive(f)
    <3>1. e.left \in -1..Ttl /\ EntryFits(k, e)
      BY <2>1, <2>3 DEF EntryFits
    <3>2. f = [e EXCEPT !.left = IF @ >= 0 THEN @ - 1 ELSE -1]
      BY <2>2, <2>3
    <3>3. e = [left |-> e.left, value |-> e.value]
      BY <3>1 DEF EntryFits
    <3>4. f.left \in 0..Ttl /\ f.left = e.left - 1 /\ Alive(e) /\ f.value = e.value
      BY <2>5, <3>1, <3>2, <3>3 DEF Alive
    <3>5. EntryFits(k, f)'
      <4> DEFINE n == Ttl + Patience - e.left
      <4>1. n \in Int /\ Ttl + Patience - f.left = n + 1
        BY <3>1, <3>4
      <4>2. k[1] = "title" => k[2] \in Titles /\ KnownWithin(k[2], f.value.class, n + 1)'
        <5>1. k[1] = "title" => k[2] \in Titles /\ KnownWithin(k[2], e.value.class, n)
          BY <3>1, <3>4 DEF EntryFits
        <5> HIDE DEF n
        <5> QED BY <1>2, <3>4, <4>1, <5>1 DEF KnownWithin
      <4>3. k[1] \in {"list", "latest"} =>
              \A t \in f.value.titles : /\ t \in Titles
                                        /\ Listable(upstream[t], k[2])' \/ since'[t] <= n + 1
        <5>1. k[1] \in {"list", "latest"} =>
                \A t \in e.value.titles : /\ t \in Titles
                                          /\ Listable(upstream[t], k[2]) \/ since[t] <= n
          BY <3>1, <3>4 DEF EntryFits
        <5> HIDE DEF n
        <5> QED BY <1>2, <3>4, <4>1, <5>1
      <4>4. k[1] = "tags" /\ f.value.tags = "fallback" => tagsDown' <= Ttl - f.left
        <5>1. k[1] = "tags" /\ e.value.tags = "fallback" => tagsDown <= Ttl - e.left
          BY <3>1, <3>4 DEF EntryFits
        <5>2. tagsDown' <= tagsDown + 1
          BY <1>1 DEF IInv, Typed
        <5>3. tagsDown \in Int /\ tagsDown' \in Int
          BY <1>3 DEF IInv, Typed
        <5> QED BY <3>1, <3>4, <5>1, <5>2, <5>3
      <4>5. f = [left |-> f.left, value |-> f.value] /\ f.left \in -1..Ttl
        BY <3>2, <3>3, <3>4
      <4> HIDE DEF n
      <4> QED BY <4>1, <4>2, <4>3, <4>4, <4>5 DEF EntryFits, KnownWithin
    <3> QED BY <2>3, <3>5 DEF EntryFits, KnownWithin
  <2> QED BY <2>4, <2>5
<1>5. ASSUME NEW s \in Slots
      PROVE  Holds(pc[s], req[s], held[s], spent[s])'
  <2>1. Holds(pc[s], req[s], held[s], spent[s])
    BY AtFacts
  <2>2. pc' = pc /\ req' = req /\ held' = held /\ upstream' = upstream
    OBVIOUS
  <2>3. CASE pc[s] = "idle"
    BY <2>2, <2>3 DEF Holds
  <2>4. CASE pc[s] # "idle"
    <3>1. spent'[s] = spent[s] + 1 /\ spent[s] \in Nat
      BY <2>4 DEF At, IInv, Typed
    <3>2. PICK r, data, n : r = req[s] /\ data = held[s] /\ n = spent[s]
      OBVIOUS
    <3>3. \A c : \A t \in Titles : ReadWithin(t, c, n) => ReadWithin(t, c, n + 1)'
      BY <1>2, <2>2, <3>1, <3>2 DEF ReadWithin
    <3>4. Gated(r) /\ Granted(r, n) => Granted(r, n + 1)'
      BY <1>2, <2>2, <3>1, <3>2 DEF Gated, Granted, Visible
    <3>5. Gated(r) /\ Refused(r, n) => Refused(r, n + 1)'
      BY <1>2, <2>2, <3>1, <3>2 DEF Gated, Refused
    <3>6. Holds(pc[s], r, data, n + 1)'
      BY <2>1, <2>2, <3>2, <3>3, <3>4, <3>5 DEF Holds, Gated, Listing, ReadWithin, Granted, Refused
    <3> QED BY <2>2, <3>1, <3>2, <3>6 DEF Holds, Gated, Listing, ReadWithin, Granted, Refused
  <2> QED BY <2>3, <2>4
<1>6. RepliesFit'
  BY DEF RepliesFit, RestrictionsTakeEffect, RefusalsHaveReason, FallbackFades
<1> QED BY <1>3, <1>4, <1>5, <1>6 DEF IInv, CacheFits, RequestsFit

\* Whatever is held of a title that changes now was true of it until now.
LEMMA ReclassifyFits ==
    ASSUME IInv, NEW t \in Titles, Reclassify(t)
    PROVE  IInv'
<1> USE LongFacts DEF Reclassify
<1>1. PICK class \in Classes : upstream' = [upstream EXCEPT ![t] = class]
  OBVIOUS
<1>2. /\ since'[t] = 0
      /\ \A u \in Titles \ {t} : upstream'[u] = upstream[u] /\ since'[u] = since[u]
  BY <1>1 DEF IInv, Typed
<1>3. Typed'
  <2>1. upstream' \in [Titles -> Classes] /\ since' \in [Titles -> 0..Long]
    BY <1>1 DEF IInv, Typed
  <2> QED BY <2>1 DEF IInv, Typed
<1>4. ASSUME NEW k \in DOMAIN cache'.entries
      PROVE  EntryFits(k, cache.entries[k])'
  <2>1. EntryFits(k, cache.entries[k]) /\ cache' = cache
    BY <1>4 DEF IInv, CacheFits
  <2>2. PICK e : e = cache.entries[k]
    OBVIOUS
  <2>3. e.left \in -1..Ttl
    BY <2>1, <2>2 DEF EntryFits
  <2>4. EntryFits(k, e)'
    <3> DEFINE n == Ttl + Patience - e.left
    <3>1. n \in Nat
      BY <2>3
    <3>2. \A c : \A u \in Titles : KnownWithin(u, c, n) => KnownWithin(u, c, n)'
      <4> HIDE DEF n
      <4> QED BY <1>2, <3>1 DEF KnownWithin
    <3>3. \A age : \A u \in Titles :
            Listable(upstream[u], age) \/ since[u] <= n => (Listable(upstream[u], age) \/ since[u] <= n)'
      <4> HIDE DEF n
      <4> QED BY <1>2, <3>1
    <3> QED BY <2>1, <2>2, <3>2, <3>3 DEF EntryFits, KnownWithin
  <2> QED BY <2>1, <2>2, <2>4 DEF EntryFits, KnownWithin
<1>5. ASSUME NEW s \in Slots
      PROVE  Holds(pc[s], req[s], held[s], spent[s])'
  <2>1. Holds(pc[s], req[s], held[s], spent[s])
    BY AtFacts
  <2>2. pc' = pc /\ req' = req /\ held' = held /\ spent' = spent
    OBVIOUS
  <2>3. PICK r, data, n : r = req[s] /\ data = held[s] /\ n = spent[s] /\ n \in Nat
    BY DEF IInv, Typed
  <2>4. \A c : \A u \in Titles : ReadWithin(u, c, n) => ReadWithin(u, c, n)'
    BY <1>2, <2>3 DEF ReadWithin
  <2>5. Gated(r) /\ Granted(r, n) => Granted(r, n)'
    BY <1>2, <2>3 DEF Gated, Granted, Visible
  <2>6. Gated(r) /\ Refused(r, n) => Refused(r, n)'
    BY <1>2, <2>3 DEF Gated, Refused
  <2>7. Holds(pc[s], r, data, n)'
    BY <2>1, <2>2, <2>3, <2>4, <2>5, <2>6 DEF Holds, Gated, Listing, ReadWithin, Granted, Refused
  <2> QED BY <2>2, <2>3, <2>7 DEF Holds, Gated, Listing, ReadWithin, Granted, Refused
<1>6. RepliesFit'
  BY DEF RepliesFit, RestrictionsTakeEffect, RefusalsHaveReason, FallbackFades
<1> QED BY <1>3, <1>4, <1>5, <1>6 DEF IInv, CacheFits, RequestsFit

-----------------------------------------------------------------------------
(* The theorems.                                                           *)

LEMMA InitInv == Init => IInv
<1> SUFFICES ASSUME Init PROVE IInv
  OBVIOUS
<1> USE LongFacts DEF Init
<1>1. Typed
  <2>1. Long \in 0..Long /\ "idle" \in Places
    BY DEF Places
  <2> QED BY <2>1 DEF Typed
<1>2. CacheFits(cache)
  BY DEF CacheFits, EmptyCache
<1>3. RequestsFit
  BY DEF RequestsFit, Holds
<1>4. RepliesFit
  BY DEF RepliesFit, RestrictionsTakeEffect, RefusalsHaveReason, FallbackFades
<1> QED BY <1>1, <1>2, <1>3, <1>4 DEF IInv

LEMMA StutterFits == IInv /\ UNCHANGED vars => IInv'
<1> SUFFICES ASSUME IInv, UNCHANGED vars PROVE IInv'
  OBVIOUS
<1> USE DEF vars, IInv
<1>1. Typed'
  BY DEF Typed
<1>2. CacheFits(cache)'
  BY DEF CacheFits, EntryFits, KnownWithin
<1>3. RequestsFit'
  BY DEF RequestsFit, Holds, Gated, Listing, ReadWithin, Granted, Refused, Visible
<1>4. RepliesFit'
  BY DEF RepliesFit, RestrictionsTakeEffect, RefusalsHaveReason, FallbackFades, Stale, Visible
<1> QED BY <1>1, <1>2, <1>3, <1>4

LEMMA NextInv == IInv /\ [Next]_vars => IInv'
<1> SUFFICES ASSUME IInv, [Next]_vars PROVE IInv'
  OBVIOUS
<1>1. ASSUME NEW s \in Slots, \/ FetchTitle(s) \/ Enrich(s) \/ Refetch(s) \/ Reenrich(s)
                              \/ FetchOwner(s) \/ FetchContent(s)
      PROVE  IInv'
  BY <1>1, FetchTitleFits, EnrichFits, RefetchFits, ReenrichFits, FetchOwnerFits, FetchContentFits
<1>2. ASSUME NEW s \in Slots, \/ FetchList(s) \/ Statistics(s) \/ FetchChapters(s)
                              \/ FetchTitles(s) \/ FetchTags(s)
      PROVE  IInv'
  BY <1>2, FetchListFits, StatisticsFits, FetchChaptersFits, FetchTitlesFits, FetchTagsFits
<1>3. ASSUME NEW s \in Slots, Receive(s) \/ CallFails(s) \/ RequestTimeout(s)
      PROVE  IInv'
  BY <1>3, ReceiveFits, EndFits
<1>4. ASSUME NEW t \in Titles, Reclassify(t) PROVE IInv'
  BY <1>4, ReclassifyFits
<1>5. CASE Tick
  BY <1>5, TickFits
<1>6. CASE UNCHANGED vars
  BY <1>6, StutterFits
<1> QED BY <1>1, <1>2, <1>3, <1>4, <1>5, <1>6 DEF Next

\* What cache and requests hold was true of MangaDex as recently as their own age says.
THEOREM Invariance == Spec => []IInv
  BY InitInv, NextInv, PTL DEF Spec

\* A restriction of MangaDex binds every reader after Ttl and two request times
\* (get_by_id gates every read, lists are cached by age).
THEOREM Restrictions == Spec => []RestrictionsTakeEffect
<1>1. IInv => RestrictionsTakeEffect
  BY DEF IInv, RepliesFit
<1> QED BY <1>1, Invariance, PTL

\* A title is refused, and a refusal called age-restricted, only for a class that the
\* title has, or had as recently (get_by_id caches what it read before the gate; the
\* route's second look-up reads it again).
THEOREM Refusals == Spec => []RefusalsHaveReason
<1>1. IInv => RefusalsHaveReason
  BY DEF IInv, RepliesFit
<1> QED BY <1>1, Invariance, PTL

\* The built-in tags are served only for Ttl after a call that failed (get_tags).
THEOREM Fallback == Spec => []FallbackFades
<1>1. IInv => FallbackFades
  BY DEF IInv, RepliesFit
<1> QED BY <1>1, Invariance, PTL

-----------------------------------------------------------------------------
(* What readers know of the cache: the entries that are still fresh.       *)

\* A reader cannot tell the one from the other.
SameFresh(c, d) ==
    /\ \A x : Fresh(d, x) <=> Fresh(c, x)
    /\ \A x : Fresh(c, x) => d.entries[x] = c.entries[x]

\* What becomes of the cache in a step of a request: it is read, after at most one
\* value was put into it.
Reached(d) ==
    /\ WellFormed(d)
    /\ \/ SameFresh(cache, d)
       \/ \E k \in CacheKeys, v \in CacheValues : SameFresh(AfterSet(cache, k, v), d)

LEMMA GetSameFresh ==
    ASSUME NEW c, NEW k
    PROVE  SameFresh(c, AfterGet(c, k))
<1>1. ASSUME NEW x, Fresh(c, x)
      PROVE  Fresh(AfterGet(c, k), x) /\ AfterGet(c, k).entries[x] = c.entries[x]
  BY <1>1, GetKeepsFresh
<1>2. ASSUME NEW x, Fresh(AfterGet(c, k), x)
      PROVE  Fresh(c, x)
  BY <1>2, GetKeeps DEF Fresh
<1> QED BY <1>1, <1>2 DEF SameFresh

LEMMA GetReached ==
    ASSUME NEW c, Reached(c), NEW k
    PROVE  Reached(AfterGet(c, k))
<1>1. SameFresh(c, AfterGet(c, k)) /\ WellFormed(AfterGet(c, k))
  BY GetSameFresh, GetWellFormed DEF Reached
<1>2. \A b : SameFresh(b, c) => SameFresh(b, AfterGet(c, k))
  BY <1>1 DEF SameFresh
<1> QED BY <1>1, <1>2 DEF Reached

LEMMA SetReached ==
    ASSUME WellFormed(cache), NEW k \in CacheKeys, NEW v \in CacheValues
    PROVE  Reached(AfterSet(cache, k, v))
  BY SetWellFormed DEF Reached, SameFresh

LEMMA HereReached ==
    ASSUME WellFormed(cache)
    PROVE  Reached(cache)
  BY DEF Reached, SameFresh

-----------------------------------------------------------------------------
(* The types, and what a request does to the cache.                        *)

\* At its await a request asks for something, and has fetched classes.
Standing(place, r, data) ==
    /\ place # "idle" => r \in Requested
    /\ place = "enrich" => data \in Classes
    /\ place = "reenrich" => data.class \in Classes

TInv == TypeOK /\ \A s \in Slots : Standing(pc[s], req[s], held[s])

\* A step of the request of slot s.
Proceeds(s) ==
    \E d : /\ Reached(d)
           /\ \/ \E r \in Requested, place \in Places :
                   \E data : Standing(place, r, data) /\ Await(s, r, place, data, d)
              \/ \E r, status, what : Answer(s, r, status, what, d)

LEMMA AwaitProceeds ==
    ASSUME NEW s, NEW r \in Requested, NEW place \in Places, NEW data, NEW d, Reached(d),
           Standing(place, r, data), Await(s, r, place, data, d)
    PROVE  Proceeds(s)
  BY DEF Proceeds

LEMMA AnswerProceeds ==
    ASSUME NEW s, NEW r, NEW status, NEW what, NEW d, Reached(d), Answer(s, r, status, what, d)
    PROVE  Proceeds(s)
  BY DEF Proceeds

LEMMA GrantProceeds ==
    ASSUME NEW s, NEW r \in Requested, NEW c, Reached(c), Grant(s, r, c)
    PROVE  Proceeds(s)
<1> DEFINE k == ContentKey(r)
<1>1. Reached(AfterGet(c, k))
  BY GetReached
<1>2. Standing("fetchContent", r, Null) /\ "fetchContent" \in Places
  BY DEF Standing, Places, FetchPlaces
<1> QED BY <1>1, <1>2, AwaitProceeds, AnswerProceeds DEF Grant, Serve

LEMMA RecheckProceeds ==
    ASSUME NEW s, NEW r \in Requested, NEW reason, NEW c, Reached(c), Recheck(s, r, reason, c)
    PROVE  Proceeds(s)
<1> DEFINE k == TitleKey(r.title, NoLanguage)
<1>1. Reached(AfterGet(c, k))
  BY GetReached
<1>2. Standing("refetch", r, reason) /\ "refetch" \in Places
  BY DEF Standing, Places, FetchPlaces
<1> QED BY <1>1, <1>2, AwaitProceeds, AnswerProceeds DEF Recheck

LEMMA DecideProceeds ==
    ASSUME NEW s, NEW r \in Requested, NEW class, NEW c, Reached(c), Decide(s, r, class, c)
    PROVE  Proceeds(s)
  BY GrantProceeds, RecheckProceeds DEF Decide

LEMMA AccessProceeds ==
    ASSUME NEW s, NEW r \in Requested, NEW c, Reached(c), Access(s, r, c)
    PROVE  Proceeds(s)
<1> DEFINE k == TitleKey(r.title, r.language)
<1>1. Reached(AfterGet(c, k))
  BY GetReached
<1>2. Standing("fetchTitle", r, Null) /\ "fetchTitle" \in Places
  BY DEF Standing, Places, FetchPlaces
<1> QED BY <1>1, <1>2, AwaitProceeds, DecideProceeds DEF Access

LEMMA KindFacts ==
    ASSUME NEW r \in Requested
    PROVE  /\ Gated(r) => OwnerKey(r.title) \in CacheKeys
           /\ Gated(r) => r.language \in Languages
           /\ Gated(r) => \A l \in Languages : TitleKey(r.title, l) \in CacheKeys
           /\ Gated(r) /\ r.kind # "detail" => ContentKey(r) \in CacheKeys
           /\ Listing(r) => ListKey(r) \in CacheKeys
<1>1. Gated(r) => r.title \in Titles /\ r.language \in Languages
  BY DEF Requested, Gated
<1>2. Listing(r) => r.age \in Ages /\ r.kind \in {"list", "latest"}
  BY DEF Requested, Listing
<1>3. Gated(r) => OwnerKey(r.title) \in CacheKeys
  BY <1>1 DEF CacheKeys
<1>4. Gated(r) => \A l \in Languages : TitleKey(r.title, l) \in CacheKeys
  BY <1>1 DEF CacheKeys
<1>5. Gated(r) /\ r.kind # "detail" => ContentKey(r) \in CacheKeys
  BY <1>1 DEF CacheKeys, ContentKey, Gated
<1>6. Listing(r) => ListKey(r) \in CacheKeys
  <2> SUFFICES ASSUME Listing(r)
               PROVE  ListKey(r) \in CacheKeys
    OBVIOUS
  <2>1. ListKey(r) \in {<<k, a, Null>> : k \in {"list", "latest"}, a \in Ages}
    <3>1. PICK k \in {"list", "latest"}, a \in Ages : k = r.kind /\ a = r.age
      BY <1>2
    <3> QED BY <3>1 DEF ListKey
  <2> QED BY <2>1 DEF CacheKeys
<1> QED BY <1>1, <1>3, <1>4, <1>5, <1>6

LEMMA ClassFacts ==
    ASSUME NEW c \in Classes, NEW class \in Enriched(c)
    PROVE  class \in Classes /\ [class |-> class] \in CacheValues
  BY DEF Classes, Enriched, CacheValues

LEMMA HereFacts ==
    ASSUME IInv, TInv, NEW s \in Slots, pc[s] # "idle"
    PROVE  /\ req[s] \in Requested /\ WellFormed(cache) /\ Reached(cache)
           /\ Standing(pc[s], req[s], held[s])
           /\ Holds(pc[s], req[s], held[s], spent[s])
           /\ upstream \in [Titles -> Classes]
<1>1. Standing(pc[s], req[s], held[s]) /\ WellFormed(cache)
  BY DEF TInv, TypeOK
<1> QED BY <1>1, AtFacts, HereReached DEF Standing, IInv, Typed

-----------------------------------------------------------------------------
(* One lemma for each action of a request.                                 *)

LEMMA FetchTitleProceeds ==
    ASSUME IInv, TInv, NEW s \in Slots, FetchTitle(s)
    PROVE  Proceeds(s)
<1>1. /\ req[s] \in Requested /\ Gated(req[s]) /\ Reached(cache)
      /\ upstream \in [Titles -> Classes]
  BY HereFacts DEF FetchTitle, At, Holds
<1>2. Standing("enrich", req[s], upstream[req[s].title]) /\ "enrich" \in Places
  BY <1>1 DEF Standing, Gated, Places
<1> QED BY <1>1, <1>2, AwaitProceeds, RecheckProceeds DEF FetchTitle

LEMMA EnrichProceeds ==
    ASSUME IInv, TInv, NEW s \in Slots, Enrich(s)
    PROVE  Proceeds(s)
<1>1. /\ req[s] \in Requested /\ Gated(req[s]) /\ WellFormed(cache) /\ held[s] \in Classes
  BY HereFacts DEF Enrich, At, Holds, Standing
<1> DEFINE k == TitleKey(req[s].title, req[s].language)
<1>2. PICK class \in Enriched(held[s]) :
        Decide(s, req[s], class, AfterSet(cache, k, [class |-> class]))
  BY DEF Enrich
<1>3. k \in CacheKeys /\ [class |-> class] \in CacheValues
  BY <1>1, KindFacts, ClassFacts
<1>4. Reached(AfterSet(cache, k, [class |-> class]))
  BY <1>1, <1>3, SetReached
<1> QED BY <1>1, <1>2, <1>4, DecideProceeds

LEMMA RefetchProceeds ==
    ASSUME IInv, TInv, NEW s \in Slots, Refetch(s)
    PROVE  Proceeds(s)
<1> DEFINE data == [reason |-> held[s], class |-> upstream[req[s].title]]
<1>1. /\ req[s] \in Requested /\ Gated(req[s]) /\ Reached(cache)
      /\ upstream \in [Titles -> Classes]
  BY HereFacts DEF Refetch, At, Holds
<1>2. Standing("reenrich", req[s], data) /\ "reenrich" \in Places
  BY <1>1 DEF Standing, Gated, Places
<1> QED BY <1>1, <1>2, AwaitProceeds, AnswerProceeds DEF Refetch

LEMMA ReenrichProceeds ==
    ASSUME IInv, TInv, NEW s \in Slots, Reenrich(s)
    PROVE  Proceeds(s)
<1>1. /\ req[s] \in Requested /\ Gated(req[s]) /\ WellFormed(cache) /\ held[s].class \in Classes
  BY HereFacts DEF Reenrich, At, Holds, Standing
<1> DEFINE k == TitleKey(req[s].title, NoLanguage)
<1>2. PICK class \in Enriched(held[s].class) :
        Answer(s, req[s], held[s].reason, Verdict(req[s], class),
               AfterSet(cache, k, [class |-> class]))
  BY DEF Reenrich
<1>3. k \in CacheKeys /\ [class |-> class] \in CacheValues
  BY <1>1, KindFacts, ClassFacts
<1> QED BY <1>1, <1>2, <1>3, SetReached, AnswerProceeds

LEMMA FetchOwnerProceeds ==
    ASSUME IInv, TInv, NEW s \in Slots, FetchOwner(s)
    PROVE  Proceeds(s)
<1>1. /\ req[s] \in Requested /\ Gated(req[s]) /\ WellFormed(cache) /\ Reached(cache)
  BY HereFacts DEF FetchOwner, At, Holds
<1>2. OwnerKey(req[s].title) \in CacheKeys /\ [title |-> req[s].title] \in CacheValues
  BY <1>1, KindFacts DEF Gated, CacheValues
<1>3. Reached(AfterSet(cache, OwnerKey(req[s].title), [title |-> req[s].title]))
  BY <1>1, <1>2, SetReached
<1> QED BY <1>1, <1>3, AccessProceeds, AnswerProceeds DEF FetchOwner

LEMMA FetchContentProceeds ==
    ASSUME IInv, TInv, NEW s \in Slots, FetchContent(s)
    PROVE  Proceeds(s)
<1>1. /\ req[s] \in Requested /\ Gated(req[s]) /\ WellFormed(cache) /\ Reached(cache)
      /\ req[s].kind # "detail"
  BY HereFacts DEF FetchContent, At, Holds
<1>2. ContentKey(req[s]) \in CacheKeys /\ [title |-> req[s].title] \in CacheValues
  BY <1>1, KindFacts DEF Gated, CacheValues
<1>3. Reached(AfterSet(cache, ContentKey(req[s]), [title |-> req[s].title]))
  BY <1>1, <1>2, SetReached
<1> QED BY <1>1, <1>3, AnswerProceeds DEF FetchContent, Serve

LEMMA FetchListProceeds ==
    ASSUME IInv, TInv, NEW s \in Slots, FetchList(s) \/ FetchChapters(s)
    PROVE  Proceeds(s)
<1>1. req[s] \in Requested /\ Reached(cache)
  BY HereFacts DEF FetchList, FetchChapters, At
<1>2. "statistics" \in Places /\ "fetchTitles" \in Places
  BY DEF Places, FetchPlaces
<1>3. \A data : Standing("statistics", req[s], data) /\ Standing("fetchTitles", req[s], data)
  BY <1>1 DEF Standing
<1> QED BY <1>1, <1>2, <1>3, AwaitProceeds DEF FetchList, FetchChapters

LEMMA ShownProceeds ==
    ASSUME WellFormed(cache), NEW s, NEW r \in Requested, Listing(r),
           NEW shown \in SUBSET Titles,
           Serve(s, r, shown, AfterSet(cache, ListKey(r), [titles |-> shown]))
    PROVE  Proceeds(s)
<1>1. ListKey(r) \in CacheKeys
  BY KindFacts
<1>2. [titles |-> shown] \in CacheValues
  BY DEF CacheValues
<1> QED BY <1>1, <1>2, SetReached, AnswerProceeds DEF Serve

LEMMA StatisticsProceeds ==
    ASSUME IInv, TInv, NEW s \in Slots, Statistics(s)
    PROVE  Proceeds(s)
<1>1. /\ req[s] \in Requested /\ Listing(req[s]) /\ WellFormed(cache)
      /\ DOMAIN held[s] \subseteq Titles
  BY HereFacts DEF Statistics, At, Holds
<1>2. Allowed(held[s], req[s].age) \in SUBSET Titles
  BY <1>1 DEF Allowed
<1> QED BY <1>1, <1>2, ShownProceeds DEF Statistics

LEMMA FetchTitlesProceeds ==
    ASSUME IInv, TInv, NEW s \in Slots, FetchTitles(s)
    PROVE  Proceeds(s)
<1>1. req[s] \in Requested /\ Listing(req[s]) /\ WellFormed(cache)
  BY HereFacts DEF FetchTitles, At, Holds
<1>2. PICK page \in SUBSET Titles :
        LET shown == Allowed([t \in page |-> upstream[t]], req[s].age)
        IN  Serve(s, req[s], shown, AfterSet(cache, ListKey(req[s]), [titles |-> shown]))
  BY DEF FetchTitles
<1>3. Allowed([t \in page |-> upstream[t]], req[s].age) \in SUBSET Titles
  BY DEF Allowed
<1> QED BY <1>1, <1>2, <1>3, ShownProceeds

LEMMA FetchTagsProceeds ==
    ASSUME IInv, TInv, NEW s \in Slots, FetchTags(s)
    PROVE  Proceeds(s)
<1>1. WellFormed(cache)
  BY HereFacts DEF FetchTags, At
<1>2. /\ TagsKey \in CacheKeys
      /\ [tags |-> "full"] \in CacheValues /\ [tags |-> "fallback"] \in CacheValues
  BY DEF CacheKeys, CacheValues
<1>3. /\ Reached(AfterSet(cache, TagsKey, [tags |-> "full"]))
      /\ Reached(AfterSet(cache, TagsKey, [tags |-> "fallback"]))
  BY <1>1, <1>2, SetReached
<1> QED BY <1>3, AnswerProceeds DEF FetchTags, Serve

LEMMA ReceiveProceeds ==
    ASSUME TInv, NEW s \in Slots, Receive(s)
    PROVE  Proceeds(s)
<1>1. Reached(cache) /\ \A k : Reached(AfterGet(cache, k))
  BY HereReached, GetReached DEF TInv, TypeOK
<1>2. PICK r \in Requested :
         \/ Access(s, r, cache)
         \/ Access(s, r, AfterGet(cache, OwnerKey(r.title)))
         \/ Await(s, r, "fetchOwner", Null, AfterGet(cache, OwnerKey(r.title)))
         \/ Serve(s, r, Value(cache, ListKey(r)).titles, AfterGet(cache, ListKey(r)))
         \/ Await(s, r, IF r.kind = "list" THEN "fetchList" ELSE "fetchChapters",
                  Null, AfterGet(cache, ListKey(r)))
         \/ Serve(s, r, {Value(cache, TagsKey).tags}, AfterGet(cache, TagsKey))
         \/ Await(s, r, "fetchTags", Null, AfterGet(cache, TagsKey))
  BY DEF Receive
<1>3. \A place \in {"fetchOwner", "fetchList", "fetchChapters", "fetchTags"} :
        place \in Places /\ Standing(place, r, Null)
  BY DEF Places, FetchPlaces, Standing
<1>4. CASE Access(s, r, cache) \/ Access(s, r, AfterGet(cache, OwnerKey(r.title)))
  BY <1>1, <1>4, AccessProceeds
<1>5. CASE \/ Await(s, r, "fetchOwner", Null, AfterGet(cache, OwnerKey(r.title)))
           \/ Await(s, r, "fetchTags", Null, AfterGet(cache, TagsKey))
  BY <1>1, <1>3, <1>5, AwaitProceeds
<1>6. CASE Await(s, r, IF r.kind = "list" THEN "fetchList" ELSE "fetchChapters",
                 Null, AfterGet(cache, ListKey(r)))
  <2>1. PICK place \in {"fetchList", "fetchChapters"} :
          Await(s, r, place, Null, AfterGet(cache, ListKey(r)))
    BY <1>6
  <2> QED BY <1>1, <1>3, <2>1, AwaitProceeds
<1>7. CASE \/ Serve(s, r, Value(cache, ListKey(r)).titles, AfterGet(cache, ListKey(r)))
           \/ Serve(s, r, {Value(cache, TagsKey).tags}, AfterGet(cache, TagsKey))
  BY <1>1, <1>7, AnswerProceeds DEF Serve
<1> QED BY <1>2, <1>4, <1>5, <1>6, <1>7

LEMMA EndProceeds ==
    ASSUME IInv, TInv, NEW s \in Slots, CallFails(s) \/ RequestTimeout(s)
    PROVE  Proceeds(s)
<1>1. Reached(cache)
  BY HereReached DEF TInv, TypeOK
<1> QED BY <1>1, AnswerProceeds DEF CallFails, RequestTimeout

RequestStep(s) ==
    \/ Receive(s)
    \/ FetchTitle(s) \/ Enrich(s) \/ Refetch(s) \/ Reenrich(s)
    \/ FetchOwner(s) \/ FetchContent(s)
    \/ FetchList(s) \/ Statistics(s) \/ FetchChapters(s) \/ FetchTitles(s)
    \/ FetchTags(s)
    \/ CallFails(s) \/ RequestTimeout(s)

LEMMA RequestStepProceeds ==
    ASSUME IInv, TInv, NEW s \in Slots, RequestStep(s)
    PROVE  Proceeds(s)
<1>1. CASE FetchTitle(s) \/ Enrich(s) \/ Refetch(s) \/ Reenrich(s) \/ FetchOwner(s) \/ FetchContent(s)
  BY <1>1, FetchTitleProceeds, EnrichProceeds, RefetchProceeds, ReenrichProceeds,
     FetchOwnerProceeds, FetchContentProceeds
<1>2. CASE FetchList(s) \/ Statistics(s) \/ FetchChapters(s) \/ FetchTitles(s) \/ FetchTags(s)
  BY <1>2, FetchListProceeds, StatisticsProceeds, FetchTitlesProceeds, FetchTagsProceeds
<1>3. CASE Receive(s) \/ CallFails(s) \/ RequestTimeout(s)
  BY <1>3, ReceiveProceeds, EndProceeds
<1> QED BY <1>1, <1>2, <1>3 DEF RequestStep

LEMMA RequestStepCounts ==
    ASSUME TInv, NEW s \in Slots, RequestStep(s)
    PROVE  arrived' \in 0..MaxRequests /\ changes' = changes
<1>1. arrived \in 0..MaxRequests
  BY DEF TInv, TypeOK
<1>2. CASE Receive(s)
  BY <1>1, <1>2 DEF Receive, worldVars
<1>3. CASE ~Receive(s)
  BY <1>1, <1>3 DEF RequestStep, FetchTitle, Enrich, Refetch, Reenrich, FetchOwner, FetchContent,
     FetchList, Statistics, FetchChapters, FetchTitles, FetchTags, CallFails, RequestTimeout, worldVars
<1> QED BY <1>2, <1>3

-----------------------------------------------------------------------------
(* The types.                                                              *)

\* What IInv says of the types, without what the requests hold and ask for.
LEMMA TypesFollow ==
    ASSUME IInv, TInv, IInv', WellFormed(cache)',
           arrived' \in 0..MaxRequests, changes' \in 0..MaxChanges,
           \A s \in Slots : /\ req'[s] \in Requested \cup {Null}
                            /\ Standing(pc'[s], req'[s], held'[s])
    PROVE  TInv'
<1>1. Typed'
  BY DEF IInv
<1> QED BY <1>1 DEF Typed, TInv, TypeOK

LEMMA ProceedsTyped ==
    ASSUME IInv, TInv, IInv', NEW s \in Slots, Proceeds(s),
           arrived' \in 0..MaxRequests, changes' = changes
    PROVE  TInv'
<1>1. PICK d : /\ Reached(d)
               /\ \/ \E r \in Requested, place \in Places :
                       \E data : Standing(place, r, data) /\ Await(s, r, place, data, d)
                  \/ \E r, status, what : Answer(s, r, status, what, d)
  BY DEF Proceeds
<1>2. cache' = d
  BY <1>1 DEF Await, Answer
<1>3. WellFormed(cache)'
  BY <1>1, <1>2 DEF Reached
<1>4. /\ \A x \in Slots \ {s} : /\ pc'[x] = pc[x] /\ req'[x] = req[x] /\ held'[x] = held[x]
      /\ \/ req'[s] \in Requested /\ Standing(pc'[s], req'[s], held'[s])
         \/ req'[s] = Null /\ pc'[s] = "idle"
  <2>1. Typed
    BY DEF IInv
  <2>2. CASE \E r \in Requested, place \in Places :
               \E data : Standing(place, r, data) /\ Await(s, r, place, data, d)
    <3>1. PICK r \in Requested, place \in Places :
            \E data : Standing(place, r, data) /\ Await(s, r, place, data, d)
      BY <2>2
    <3>2. PICK data : Standing(place, r, data) /\ Await(s, r, place, data, d)
      BY <3>1
    <3>3. pc'[s] = place /\ req'[s] = r /\ held'[s] = data
      BY <2>1, <3>2 DEF Await, Typed
    <3>4. \A x \in Slots \ {s} : pc'[x] = pc[x] /\ req'[x] = req[x] /\ held'[x] = held[x]
      BY <2>1, <3>2 DEF Await, Typed
    <3> QED BY <3>2, <3>3, <3>4
  <2>3. CASE \E r, status, what : Answer(s, r, status, what, d)
    BY <2>1, <2>3 DEF Answer, Typed
  <2> QED BY <1>1, <2>2, <2>3
<1>5. ASSUME NEW x \in Slots
      PROVE  req'[x] \in Requested \cup {Null} /\ Standing(pc'[x], req'[x], held'[x])
  <2>1. CASE x = s
    BY <1>4, <2>1 DEF Standing
  <2>2. CASE x # s
    <3>1. req[x] \in Requested \cup {Null} /\ Standing(pc[x], req[x], held[x])
      BY DEF TInv, TypeOK
    <3> QED BY <1>4, <2>2, <3>1
  <2> QED BY <2>1, <2>2
<1>6. changes' \in 0..MaxChanges
  BY DEF TInv, TypeOK
<1> QED BY <1>3, <1>5, <1>6, TypesFollow

LEMMA WorldTyped ==
    ASSUME IInv, TInv, IInv', Tick \/ (\E t \in Titles : Reclassify(t)) \/ UNCHANGED vars
    PROVE  TInv'
<1>1. UNCHANGED <<pc, req, held, arrived>>
  BY DEF Tick, Reclassify, vars
<1>2. WellFormed(cache)'
  <2>1. WellFormed(cache)
    BY DEF TInv, TypeOK
  <2>2. cache' = Aged(cache) \/ cache' = cache
    BY DEF Tick, Reclassify, vars
  <2> QED BY <2>1, <2>2, AgedWellFormed
<1>3. arrived' \in 0..MaxRequests /\ changes' \in 0..MaxChanges
  <2>1. arrived \in 0..MaxRequests /\ changes \in 0..MaxChanges
    BY DEF TInv, TypeOK
  <2>2. changes' = changes \/ (changes < MaxChanges /\ changes' = changes + 1)
    BY DEF Tick, Reclassify, vars
  <2> QED BY <1>1, <2>1, <2>2
<1>4. \A s \in Slots : /\ req'[s] \in Requested \cup {Null}
                       /\ Standing(pc'[s], req'[s], held'[s])
  BY <1>1 DEF TInv, TypeOK
<1> QED BY <1>2, <1>3, <1>4, TypesFollow

LEMMA NextSplit ==
    ASSUME [Next]_vars
    PROVE  \/ \E s \in Slots : RequestStep(s)
           \/ Tick \/ (\E t \in Titles : Reclassify(t)) \/ UNCHANGED vars
  BY DEF Next, RequestStep

LEMMA NextTyped == IInv /\ TInv /\ IInv' /\ [Next]_vars => TInv'
<1> SUFFICES ASSUME IInv, TInv, IInv', [Next]_vars PROVE TInv'
  OBVIOUS
<1>1. ASSUME NEW s \in Slots, RequestStep(s) PROVE TInv'
  BY <1>1, RequestStepProceeds, RequestStepCounts, ProceedsTyped
<1> QED BY <1>1, NextSplit, WorldTyped

LEMMA InitTyped == Init => TInv
<1> SUFFICES ASSUME Init PROVE TInv
  OBVIOUS
<1>1. Typed
  BY InitInv DEF IInv
<1>2. WellFormed(cache)
  BY EmptyWellFormed DEF Init
<1>3. arrived \in 0..MaxRequests /\ changes \in 0..MaxChanges
  BY DEF Init
<1>4. \A s \in Slots : /\ req[s] \in Requested \cup {Null}
                       /\ Standing(pc[s], req[s], held[s])
  BY DEF Init, Standing
<1> QED BY <1>1, <1>2, <1>3, <1>4 DEF Typed, TInv, TypeOK

\* At every await a request has what the next step uses, and the cache that all of
\* them share is within its size and in order (SimpleCache.set evicts enough).
THEOREM TypeInvariance == Spec => []TInv
<1>1. Spec => [](IInv /\ TInv)
  <2>1. Init => IInv /\ TInv
    BY InitInv, InitTyped
  <2>2. IInv /\ TInv /\ [Next]_vars => (IInv /\ TInv)'
    BY NextInv, NextTyped
  <2> QED BY <2>1, <2>2, PTL DEF Spec
<1> QED BY <1>1, PTL

THEOREM TypeCorrect == Spec => []TypeOK
<1>1. TInv => TypeOK
  BY DEF TInv
<1> QED BY <1>1, TypeInvariance, PTL

-----------------------------------------------------------------------------
(* The cache is a Memory.                                                  *)

\* What of a cache is fresh.
FreshOf(c) == [k \in {x \in DOMAIN c.entries : Fresh(c, x)} |-> c.entries[k]]

LEMMA FreshFacts ==
    ASSUME NEW c
    PROVE  /\ \A x : x \in DOMAIN FreshOf(c) <=> Fresh(c, x)
           /\ \A x : Fresh(c, x) => FreshOf(c)[x] = c.entries[x]
  BY DEF FreshOf, Fresh

\* Who only reads leaves the memory alone.
LEMMA SameFreshSame ==
    ASSUME NEW c, NEW d, SameFresh(c, d)
    PROVE  FreshOf(d) = FreshOf(c)
<1>1. {x \in DOMAIN d.entries : Fresh(d, x)} = {x \in DOMAIN c.entries : Fresh(c, x)}
  BY DEF SameFresh, Fresh
<1>2. \A x \in {y \in DOMAIN c.entries : Fresh(c, y)} : d.entries[x] = c.entries[x]
  BY DEF SameFresh
<1> QED BY <1>1, <1>2 DEF FreshOf

\* Memory!Remember, of what is fresh before and after set().
LEMMA SetRemembered ==
    ASSUME NEW c, WellFormed(c), NEW k, NEW v \in CacheValues
    PROVE  LET m == FreshOf(c)
               n == FreshOf(AfterSet(c, k, v))
           IN  /\ k \in DOMAIN n
               /\ n[k].left = Ttl /\ n[k].value \in CacheValues
               /\ DOMAIN n \subseteq DOMAIN m \cup {k}
               /\ \A x \in DOMAIN n \ {k} : n[x] = m[x]
               /\ Cardinality(DOMAIN n) <= MaxSize
               /\ DOMAIN m \subseteq DOMAIN n \/ Cardinality(DOMAIN n) = MaxSize
<1> DEFINE d == AfterSet(c, k, v)
           m == FreshOf(c)
           n == FreshOf(d)
<1>1. /\ WellFormed(d)
      /\ k \in DOMAIN d.entries /\ d.entries[k] = [left |-> Ttl, value |-> v]
  <2>1. WellFormed(d)
    BY SetWellFormed
  <2>2. k \in DOMAIN d.entries /\ d.entries[k] = [left |-> Ttl, value |-> v]
    BY SetRemembers
  <2> HIDE DEF d
  <2> QED BY <2>1, <2>2
<1>2. \A x \in DOMAIN d.entries \ {k} : x \in DOMAIN c.entries /\ d.entries[x] = c.entries[x]
  BY SetKeepsOthers
<1>3. \/ \A x : Fresh(c, x) => x \in DOMAIN d.entries
      \/ /\ Cardinality(DOMAIN d.entries) = MaxSize
         /\ \A x \in DOMAIN d.entries : Fresh(d, x)
  BY SetRemembers
<1> HIDE DEF d
<1>4. /\ \A x : x \in DOMAIN m <=> Fresh(c, x)
      /\ \A x : Fresh(c, x) => m[x] = c.entries[x]
  BY FreshFacts
<1>5. /\ \A x : x \in DOMAIN n <=> Fresh(d, x)
      /\ \A x : Fresh(d, x) => n[x] = d.entries[x]
  BY FreshFacts
<1> HIDE DEF m, n
<1>6. k \in DOMAIN n /\ n[k] = [left |-> Ttl, value |-> v]
  <2>1. Fresh(d, k)
    BY <1>1 DEF Fresh, Alive
  <2> QED BY <1>1, <1>5, <2>1
<1>7. \A x \in DOMAIN n \ {k} : Fresh(c, x) /\ n[x] = m[x]
  BY <1>2, <1>4, <1>5 DEF Fresh
<1>8. Cardinality(DOMAIN n) <= MaxSize
  <2>1. DOMAIN n \subseteq DOMAIN d.entries /\ IsFiniteSet(DOMAIN d.entries)
        /\ Cardinality(DOMAIN d.entries) <= MaxSize
    BY <1>1, <1>5 DEF Fresh, WellFormed
  <2>2. /\ Cardinality(DOMAIN n) <= Cardinality(DOMAIN d.entries)
        /\ Cardinality(DOMAIN n) \in Nat /\ Cardinality(DOMAIN d.entries) \in Nat
    BY <2>1, FS_Subset, FS_CardinalityType
  <2> QED BY <2>1, <2>2
<1>9. DOMAIN m \subseteq DOMAIN n \/ Cardinality(DOMAIN n) = MaxSize
  <2>1. CASE \A x : Fresh(c, x) => x \in DOMAIN d.entries
    <3>1. ASSUME NEW x, Fresh(c, x) PROVE Fresh(d, x)
      <4>1. CASE x = k
        BY <1>5, <1>6, <4>1
      <4>2. CASE x # k
        BY <1>2, <2>1, <3>1, <4>2 DEF Fresh
      <4> QED BY <4>1, <4>2
    <3> QED BY <1>4, <1>5, <3>1
  <2>2. CASE /\ Cardinality(DOMAIN d.entries) = MaxSize
             /\ \A x \in DOMAIN d.entries : Fresh(d, x)
    <3>1. DOMAIN n = DOMAIN d.entries
      BY <1>5, <2>2 DEF Fresh
    <3> QED BY <2>2, <3>1
  <2> QED BY <1>3, <2>1, <2>2
<1>10. n[k].left = Ttl /\ n[k].value \in CacheValues
  BY <1>6
<1>11. DOMAIN n \subseteq DOMAIN m \cup {k}
  BY <1>4, <1>7
<1> QED BY <1>6, <1>7, <1>8, <1>9, <1>10, <1>11 DEF m, n, d

\* Memory counts as this module does.
LEMMA SameCardinality == \A S : CacheMemory!Cardinality(S) = Cardinality(S)
  BY DEF CacheMemory!Cardinality, Cardinality

LEMMA RememberedFresh == Remembered = FreshOf(cache) /\ Remembered' = FreshOf(cache')
  BY DEF Remembered, FreshOf

LEMMA ProceedsRefines ==
    ASSUME WellFormed(cache), NEW s, Proceeds(s)
    PROVE  [CacheMemory!Next]_Remembered
<1>1. PICK d : Reached(d) /\ cache' = d
  BY DEF Proceeds, Await, Answer
<1>2. CASE SameFresh(cache, d)
  <2>1. Remembered' = Remembered
    BY <1>1, <1>2, SameFreshSame, RememberedFresh
  <2> QED BY <2>1
<1>3. CASE \E k \in CacheKeys, v \in CacheValues : SameFresh(AfterSet(cache, k, v), d)
  <2>1. PICK k \in CacheKeys, v \in CacheValues : SameFresh(AfterSet(cache, k, v), d)
    BY <1>3
  <2>2. Remembered' = FreshOf(AfterSet(cache, k, v)) /\ Remembered = FreshOf(cache)
    BY <1>1, <2>1, SameFreshSame, RememberedFresh
  <2>3. /\ k \in DOMAIN Remembered'
        /\ Remembered'[k].left = Ttl /\ Remembered'[k].value \in CacheValues
        /\ DOMAIN Remembered' \subseteq DOMAIN Remembered \cup {k}
        /\ \A x \in DOMAIN Remembered' \ {k} : Remembered'[x] = Remembered[x]
        /\ Cardinality(DOMAIN Remembered') <= MaxSize
        /\ DOMAIN Remembered \subseteq DOMAIN Remembered' \/ Cardinality(DOMAIN Remembered') = MaxSize
    <3>1. PICK m, n : /\ m = FreshOf(cache) /\ n = FreshOf(AfterSet(cache, k, v))
                      /\ k \in DOMAIN n
                      /\ n[k].left = Ttl /\ n[k].value \in CacheValues
                      /\ DOMAIN n \subseteq DOMAIN m \cup {k}
                      /\ \A x \in DOMAIN n \ {k} : n[x] = m[x]
                      /\ Cardinality(DOMAIN n) <= MaxSize
                      /\ DOMAIN m \subseteq DOMAIN n \/ Cardinality(DOMAIN n) = MaxSize
      BY SetRemembered
    <3>2. Remembered = m /\ Remembered' = n
      BY <2>2, <3>1
    <3> QED BY <3>1, <3>2
  <2>4. CacheMemory!Remember(k)
    BY <2>3, SameCardinality DEF CacheMemory!Remember, CacheMemory!Known
  <2> QED BY <2>4 DEF CacheMemory!Next
<1> QED BY <1>1, <1>2, <1>3 DEF Reached

LEMMA AgedRefines ==
    ASSUME WellFormed(cache), cache' = Aged(cache)
    PROVE  CacheMemory!Elapse
<1> DEFINE m == FreshOf(cache)
           d == Aged(cache)
           n == FreshOf(d)
           left == {x \in DOMAIN m : m[x].left > 0}
<1>1. /\ DOMAIN d.entries = DOMAIN cache.entries
      /\ \A x \in DOMAIN cache.entries :
           /\ d.entries[x] = [cache.entries[x] EXCEPT !.left = IF @ >= 0 THEN @ - 1 ELSE -1]
           /\ d.entries[x].left = IF cache.entries[x].left >= 0 THEN cache.entries[x].left - 1
                                                                ELSE -1
  BY DEF Aged
<1>2. /\ \A x : x \in DOMAIN m <=> Fresh(cache, x)
      /\ \A x : Fresh(cache, x) => m[x] = cache.entries[x]
  BY FreshFacts
<1>3. /\ \A x : x \in DOMAIN n <=> Fresh(d, x)
      /\ \A x : Fresh(d, x) => n[x] = d.entries[x]
  BY FreshFacts
<1>4. n = [x \in DOMAIN n |-> n[x]]
  BY DEF FreshOf
<1> HIDE DEF d, m, n
<1>5. ASSUME NEW x
      PROVE  /\ x \in DOMAIN n <=> x \in left
             /\ x \in left => n[x] = [m[x] EXCEPT !.left = @ - 1]
  <2>1. CASE x \notin DOMAIN cache.entries
    BY <1>1, <1>2, <1>3, <2>1 DEF Fresh
  <2>2. CASE x \in DOMAIN cache.entries
    <3> DEFINE e == cache.entries[x]
    <3>1. e.left \in -1..Ttl
      BY <2>2 DEF WellFormed
    <3>2. d.entries[x].left = IF e.left >= 0 THEN e.left - 1 ELSE -1
      BY <1>1, <2>2
    <3>3. Fresh(d, x) <=> e.left > 0
      BY <1>1, <2>2, <3>1, <3>2 DEF Fresh, Alive
    <3>4. Fresh(cache, x) <=> e.left >= 0
      BY <2>2 DEF Fresh, Alive
    <3>5. e.left > 0 => m[x] = e
      BY <1>2, <3>1, <3>4
    <3>6. e.left > 0 => d.entries[x] = [e EXCEPT !.left = @ - 1]
      BY <1>1, <2>2, <3>1
    <3> HIDE DEF e
    <3>7. x \in left <=> e.left > 0
      <4>1. CASE e.left > 0
        BY <1>2, <3>1, <3>4, <3>5, <4>1
      <4>2. CASE ~(e.left > 0)
        <5>1. ASSUME Fresh(cache, x) PROVE m[x] = e
          BY <1>2, <5>1 DEF e
        <5> QED BY <1>2, <4>2, <5>1
      <4> QED BY <4>1, <4>2
    <3> QED BY <1>3, <3>3, <3>5, <3>6, <3>7
  <2> QED BY <2>1, <2>2
<1>6. n = [x \in left |-> [m[x] EXCEPT !.left = @ - 1]]
  <2>1. DOMAIN n = left
    BY <1>5
  <2> QED BY <1>4, <1>5, <2>1
<1>7. Remembered = m /\ Remembered' = n
  BY RememberedFresh DEF m, n, d
<1> QED BY <1>6, <1>7 DEF CacheMemory!Elapse, CacheMemory!Known

LEMMA MemoryStep ==
    ASSUME IInv, TInv, [Next]_vars
    PROVE  [CacheMemory!Next]_Remembered
<1>1. WellFormed(cache)
  BY DEF TInv, TypeOK
<1>2. ASSUME NEW s \in Slots, RequestStep(s)
      PROVE  [CacheMemory!Next]_Remembered
  BY <1>1, <1>2, RequestStepProceeds, ProceedsRefines
<1>3. CASE Tick
  BY <1>1, <1>3, AgedRefines DEF Tick, CacheMemory!Next
<1>4. CASE (\E t \in Titles : Reclassify(t)) \/ UNCHANGED vars
  <2>1. cache' = cache
    BY <1>4 DEF Reclassify, vars
  <2> QED BY <2>1 DEF Remembered
<1> QED BY <1>2, <1>3, <1>4, NextSplit

LEMMA MemoryBegins == Init => CacheMemory!Init
<1> SUFFICES ASSUME Init PROVE Remembered = <<>>
  BY DEF CacheMemory!Init
<1>1. DOMAIN cache.entries = {}
  BY DEF Init, EmptyCache
<1> QED BY <1>1 DEF Remembered

\* Whatever requests of every kind do with the one cache, at whatever awaits they are
\* overtaken, it remembers what was put into it last for Ttl and no longer, and
\* forgets earlier only when it is full of live entries (SimpleCache).
THEOREM MemoryImplemented == Spec => ImplementsMemory
<1>1. Spec => [](IInv /\ TInv)
  BY Invariance, TypeInvariance, PTL
<1>2. IInv /\ TInv /\ [Next]_vars => [CacheMemory!Next]_Remembered
  BY MemoryStep
<1> QED BY <1>1, <1>2, MemoryBegins, PTL DEF Spec, ImplementsMemory, CacheMemory!Spec
=============================================================================
