------------------------------- MODULE Reading -------------------------------
(***************************************************************************)
(* The catalogue as readers see it: MangaService.get_by_id behind the      *)
(* detail, chapter and page routes, the filtered lists, the home feed and  *)
(* the tags, all over one SimpleCache that readers of every age share.     *)
(*                                                                         *)
(* A request runs from one await to the next in one step; what it finds in *)
(* the cache it uses without giving way.  MangaDex reclassifies titles     *)
(* whenever it likes and any call may fail.  Time passes in ticks, and     *)
(* TimeoutMiddleware lets no request live longer than Patience ticks.      *)
(***************************************************************************)
EXTENDS SimpleCache, AgeGate

CONSTANTS
    Slots,      \* concurrent requests
    Titles,     \* manga ids
    Languages,  \* values of GET /manga/{id}?language=, NoLanguage among them
    NoLanguage,
    Ages,       \* ages of readers, Null for a guest or an unknown birth date
    Ratings,    \* content ratings that MangaDex assigns
    Jikan,      \* settings.enable_jikan_enrichment
    Patience,   \* settings.request_timeout_seconds, in ticks
    Kinds,      \* the kinds of request that arrive
    MaxRequests,\* bound on the requests of a behaviour
    MaxChanges  \* bound on MangaDex's changes

AllKinds   == {"detail", "chapters", "pages", "list", "latest", "tags"}

ASSUME ReadingAssumption ==
    /\ NoLanguage \in Languages
    /\ Ages \subseteq Nat \cup {Null}
    /\ Ratings \subseteq AllRatings \cup {Null}
    /\ Kinds \subseteq AllKinds
    /\ Jikan \in BOOLEAN
    /\ Patience \in Nat /\ MaxRequests \in Nat /\ MaxChanges \in Nat

\* What decides who may see a title: its rating ("odd" stands for one that the
\* code does not know) and whether it has a publication demographic.
Classes == [rating : Ratings, known : BOOLEAN]

VARIABLES
    cache,      \* the shared SimpleCache
    upstream,   \* MangaDex: the class of every title
    since,      \* ticks since MangaDex last changed it, at most Long
    tagsDown,   \* ticks since a tags call last failed, at most Long
    pc,         \* the await at which each request is
    req,        \* what it asks for and the age of the reader, Null when idle
    held,       \* what it has fetched so far
    spent,      \* ticks since it arrived
    arrived,    \* the number of requests so far
    changes,    \* the number of changes so far
    reply       \* the answer that the last step sent, Null if none

vars == <<cache, upstream, since, tagsDown, pc, req, held, spent, arrived, changes, reply>>

worldVars == <<upstream, since, changes>>

\* From here on "long ago".
Long == Ttl + Patience + Patience + 1

Later(n) == IF n < Long THEN n + 1 ELSE Long

Init ==
    /\ cache = EmptyCache
    /\ upstream \in [Titles -> Classes]
    /\ since = [t \in Titles |-> Long]
    /\ tagsDown = Long
    /\ pc = [s \in Slots |-> "idle"]
    /\ req = [s \in Slots |-> Null]
    /\ held = [s \in Slots |-> Null]
    /\ spent = [s \in Slots |-> 0]
    /\ arrived = 0
    /\ changes = 0
    /\ reply = Null

-----------------------------------------------------------------------------
(* The age gate of a single title.                                         *)

\* get_by_id: a title by its id; guests only get what is rated safe.
Readable(class, age) ==
    /\ age = Null => class.rating = "safe"
    /\ Listable(class, age)

\* Mutant: Jikan overwrites the rating, too.
Enriched_Rating(class) ==
    {class} \cup (IF Jikan THEN {[class EXCEPT !.rating = x] : x \in Ratings} ELSE {})

\* Jikan may know the demographic that MangaDex does not; it never touches the rating.
Enriched(class) ==
    {class} \cup (IF Jikan THEN {[class EXCEPT !.known = TRUE]} ELSE {})

-----------------------------------------------------------------------------
(* Requests.                                                               *)

TitleKey(t, language) == <<"title", t, language>>
OwnerKey(t)    == <<"owner", t, Null>>
ContentKey(r)  == <<r.kind, r.title, Null>>
ListKey(r)     == <<r.kind, r.age, Null>>
TagsKey        == <<"tags", Null, Null>>

At(s, place) == pc[s] = place

\* The request r of slot s awaits its next call, holding `data'.
Await(s, r, place, data, c) ==
    /\ pc' = [pc EXCEPT ![s] = place]
    /\ req' = [req EXCEPT ![s] = r]
    /\ held' = [held EXCEPT ![s] = data]
    /\ cache' = c
    /\ reply' = Null
    /\ UNCHANGED spent

\* The request ends with an answer of this status: "served", "denied" by the age
\* gate, "absent", "failed" or "timeout".  `what' is what a reader is served, or
\* what the second look-up made of a refusal: 403 "forbidden" or 404 "not found".
Answer(s, r, status, what, c) ==
    /\ pc' = [pc EXCEPT ![s] = "idle"]
    /\ req' = [req EXCEPT ![s] = Null]
    /\ held' = [held EXCEPT ![s] = Null]
    /\ spent' = [spent EXCEPT ![s] = 0]
    /\ reply' = [status |-> status, to |-> r, what |-> what]
    /\ cache' = c

Serve(s, r, what, c) == Answer(s, r, "served", what, c)

Requested ==
    [kind : Kinds \cap {"detail"}, title : Titles, language : Languages, age : Ages]
    \cup [kind : Kinds \cap {"chapters", "pages"}, title : Titles,
          language : {NoLanguage}, age : Ages]
    \cup [kind : Kinds \cap {"list", "latest"}, age : Ages]
    \cup [kind : Kinds \cap {"tags"}]

-----------------------------------------------------------------------------
(* Access to a title: get_by_id and what the routes do with its answer.    *)

\* The reader may see the title: it is the answer, or its chapters or pages are
\* looked up next.
Grant(s, r, c) ==
    LET k == ContentKey(r)
    IN  \/ r.kind = "detail" /\ Serve(s, r, {r.title}, c)
        \/ r.kind # "detail" /\ Fresh(c, k) /\ Serve(s, r, {r.title}, AfterGet(c, k))
        \/ r.kind # "detail" /\ ~Fresh(c, k) /\ Await(s, r, "fetchContent", Null, AfterGet(c, k))

\* The detail route answers 403 only for the rating, the others for a missing
\* demographic, too.
Verdict(r, class) ==
    IF \/ ~CanAccessContent(class, r.age)
       \/ r.kind # "detail" /\ ~CanAccessDemographic(class, r.age)
    THEN {"forbidden"} ELSE {"not found"}

\* get_by_id gave None because of `reason': the route reads the title once more,
\* without the gate, to choose between 403 and 404.
Recheck(s, r, reason, c) ==
    LET k == TitleKey(r.title, NoLanguage)
    IN  \/ Fresh(c, k) /\ Answer(s, r, reason, Verdict(r, Value(c, k).class), AfterGet(c, k))
        \/ ~Fresh(c, k) /\ Await(s, r, "refetch", reason, AfterGet(c, k))

\* The gate is applied on every read, also of what others put into the cache.
Decide(s, r, class, c) ==
    \/ Readable(class, r.age) /\ Grant(s, r, c)
    \/ ~Readable(class, r.age) /\ Recheck(s, r, "denied", c)

\* Mutant: who finds the title in the cache is not asked for an age.
Access_CachedUngated(s, r, c) ==
    LET k == TitleKey(r.title, r.language)
    IN  \/ Fresh(c, k) /\ Grant(s, r, AfterGet(c, k))
        \/ ~Fresh(c, k) /\ Await(s, r, "fetchTitle", Null, AfterGet(c, k))

\* get_by_id up to its first await.
Access(s, r, c) ==
    LET k == TitleKey(r.title, r.language)
    IN  \/ Fresh(c, k) /\ Decide(s, r, Value(c, k).class, AfterGet(c, k))
        \/ ~Fresh(c, k) /\ Await(s, r, "fetchTitle", Null, AfterGet(c, k))

\* get_manga: it has the title, or it has no data for it.
FetchTitle(s) ==
    /\ At(s, "fetchTitle")
    /\ \/ Await(s, req[s], "enrich", upstream[req[s].title], cache)
       \/ Recheck(s, req[s], "absent", cache)
    /\ UNCHANGED <<worldVars, tagsDown, arrived>>

\* Statistics and Jikan, whose failures are swallowed; what they give is cached
\* before the gate.
Enrich(s) ==
    /\ At(s, "enrich")
    /\ \E class \in Enriched(held[s]) :
         Decide(s, req[s], class, AfterSet(cache, TitleKey(req[s].title, req[s].language),
                                   [class |-> class]))
    /\ UNCHANGED <<worldVars, tagsDown, arrived>>

\* The second get_by_id misses the cache and asks MangaDex again.
Refetch(s) ==
    /\ At(s, "refetch")
    /\ \/ Await(s, req[s], "reenrich", [reason |-> held[s], class |-> upstream[req[s].title]], cache)
       \/ Answer(s, req[s], held[s], {"not found"}, cache)
    /\ UNCHANGED <<worldVars, tagsDown, arrived>>

Reenrich(s) ==
    /\ At(s, "reenrich")
    /\ \E class \in Enriched(held[s].class) :
         Answer(s, req[s], held[s].reason, Verdict(req[s], class),
                AfterSet(cache, TitleKey(req[s].title, NoLanguage), [class |-> class]))
    /\ UNCHANGED <<worldVars, tagsDown, arrived>>

\* get_manga_id_for_chapter: the title of the chapter, or 404.
FetchOwner(s) ==
    /\ At(s, "fetchOwner")
    /\ \/ Access(s, req[s], AfterSet(cache, OwnerKey(req[s].title), [title |-> req[s].title]))
       \/ Answer(s, req[s], "absent", {"not found"}, cache)
    /\ UNCHANGED <<worldVars, tagsDown, arrived>>

\* get_chapters or get_pages; pages that MangaDex does not host are not cached.
FetchContent(s) ==
    /\ At(s, "fetchContent")
    /\ \/ Serve(s, req[s], {req[s].title}, AfterSet(cache, ContentKey(req[s]), [title |-> req[s].title]))
       \/ req[s].kind = "pages" /\ Serve(s, req[s], {req[s].title}, cache)
    /\ UNCHANGED <<worldVars, tagsDown, arrived>>

-----------------------------------------------------------------------------
(* Lists, the home feed and the tags.                                      *)

\* search, list_manga: a page of titles as they are now.
FetchList(s) ==
    /\ At(s, "fetchList")
    /\ \E page \in SUBSET Titles :
         Await(s, req[s], "statistics", [t \in page |-> upstream[t]], cache)
    /\ UNCHANGED <<worldVars, tagsDown, arrived>>

Allowed(page, age) == {t \in DOMAIN page : Listable(page[t], age)}

\* The page is filtered for the reader's age and cached under it.
Statistics(s) ==
    /\ At(s, "statistics")
    /\ LET shown == Allowed(held[s], req[s].age)
       IN  Serve(s, req[s], shown, AfterSet(cache, ListKey(req[s]), [titles |-> shown]))
    /\ UNCHANGED <<worldVars, tagsDown, arrived>>

\* get_latest_home_chapters: the chapters first, then the titles they belong to.
FetchChapters(s) ==
    /\ At(s, "fetchChapters")
    /\ Await(s, req[s], "fetchTitles", Null, cache)
    /\ UNCHANGED <<worldVars, tagsDown, arrived>>

FetchTitles(s) ==
    /\ At(s, "fetchTitles")
    /\ \E page \in SUBSET Titles :
         LET shown == Allowed([t \in page |-> upstream[t]], req[s].age)
         IN  Serve(s, req[s], shown, AfterSet(cache, ListKey(req[s]), [titles |-> shown]))
    /\ UNCHANGED <<worldVars, tagsDown, arrived>>

\* get_tags: the tags of MangaDex or, after a failure, the built-in ones.
FetchTags(s) ==
    /\ At(s, "fetchTags")
    /\ \/ /\ Serve(s, req[s], {"full"}, AfterSet(cache, TagsKey, [tags |-> "full"]))
          /\ UNCHANGED tagsDown
       \/ /\ Serve(s, req[s], {"fallback"}, AfterSet(cache, TagsKey, [tags |-> "fallback"]))
          /\ tagsDown' = 0
    /\ UNCHANGED <<worldVars, arrived>>

\* A request arrives and runs up to its first call, or is answered from the cache.
Receive(s) ==
    /\ At(s, "idle")
    /\ arrived < MaxRequests
    /\ arrived' = arrived + 1
    /\ \E r \in Requested :
         \/ r.kind \in {"detail", "chapters"} /\ Access(s, r, cache)
         \/ /\ r.kind = "pages" /\ Fresh(cache, OwnerKey(r.title))
            /\ Access(s, r, AfterGet(cache, OwnerKey(r.title)))
         \/ /\ r.kind = "pages" /\ ~Fresh(cache, OwnerKey(r.title))
            /\ Await(s, r, "fetchOwner", Null, AfterGet(cache, OwnerKey(r.title)))
         \/ /\ r.kind \in {"list", "latest"} /\ Fresh(cache, ListKey(r))
            /\ Serve(s, r, Value(cache, ListKey(r)).titles, AfterGet(cache, ListKey(r)))
         \/ /\ r.kind \in {"list", "latest"} /\ ~Fresh(cache, ListKey(r))
            /\ Await(s, r, IF r.kind = "list" THEN "fetchList" ELSE "fetchChapters",
                     Null, AfterGet(cache, ListKey(r)))
         \/ /\ r.kind = "tags" /\ Fresh(cache, TagsKey)
            /\ Serve(s, r, {Value(cache, TagsKey).tags}, AfterGet(cache, TagsKey))
         \/ /\ r.kind = "tags" /\ ~Fresh(cache, TagsKey)
            /\ Await(s, r, "fetchTags", Null, AfterGet(cache, TagsKey))
    /\ UNCHANGED <<worldVars, tagsDown>>

-----------------------------------------------------------------------------
(* The world.                                                              *)

FetchPlaces == {"fetchTitle", "refetch", "fetchOwner", "fetchContent", "fetchList",
                "fetchChapters", "fetchTitles"}

\* After its retries a call ends in an exception, which core/exceptions.py answers.
CallFails(s) ==
    /\ pc[s] \in FetchPlaces
    /\ Answer(s, req[s], "failed", {}, cache)
    /\ UNCHANGED <<worldVars, tagsDown, arrived>>

\* TimeoutMiddleware cancels the request at its await: 504.
RequestTimeout(s) ==
    /\ ~At(s, "idle")
    /\ spent[s] = Patience
    /\ Answer(s, req[s], "timeout", {}, cache)
    /\ UNCHANGED <<worldVars, tagsDown, arrived>>

\* Nobody waits longer than the middleware allows.
Tick ==
    /\ \A s \in Slots : At(s, "idle") \/ spent[s] < Patience
    /\ cache' = Aged(cache)
    /\ since' = [t \in Titles |-> Later(since[t])]
    /\ tagsDown' = Later(tagsDown)
    /\ spent' = [s \in Slots |-> IF At(s, "idle") THEN 0 ELSE spent[s] + 1]
    /\ reply' = Null
    /\ UNCHANGED <<upstream, changes, pc, req, held, arrived>>

\* MangaDex changes the class of a title.
Reclassify(t) ==
    /\ changes < MaxChanges
    /\ changes' = changes + 1
    /\ \E class \in Classes \ {upstream[t]} : upstream' = [upstream EXCEPT ![t] = class]
    /\ since' = [since EXCEPT ![t] = 0]
    /\ reply' = Null
    /\ UNCHANGED <<cache, tagsDown, pc, req, held, spent, arrived>>

Next ==
    \/ \E s \in Slots :
         \/ Receive(s)
         \/ FetchTitle(s) \/ Enrich(s) \/ Refetch(s) \/ Reenrich(s)
         \/ FetchOwner(s) \/ FetchContent(s)
         \/ FetchList(s) \/ Statistics(s) \/ FetchChapters(s) \/ FetchTitles(s)
         \/ FetchTags(s)
         \/ CallFails(s) \/ RequestTimeout(s)
    \/ \E t \in Titles : Reclassify(t)
    \/ Tick

Spec == Init /\ [][Next]_vars

-----------------------------------------------------------------------------
(* Properties.                                                             *)

Reasons == {"denied", "absent"}

Places == {"idle", "enrich", "reenrich", "statistics", "fetchTags"} \cup FetchPlaces

\* Requests stand at an await, nobody waits too long, and the cache holds at most
\* MaxSize entries, in the order in which they were used.
TypeOK ==
    /\ upstream \in [Titles -> Classes]
    /\ since \in [Titles -> 0..Long]
    /\ tagsDown \in 0..Long
    /\ pc \in [Slots -> Places]
    /\ \A s \in Slots : req[s] \in Requested \cup {Null}
    /\ spent \in [Slots -> 0..Patience]
    /\ arrived \in 0..MaxRequests /\ changes \in 0..MaxChanges
    /\ WellFormed(cache)

\* The longest that something read from MangaDex can go on having an effect: a
\* request holds it for Patience before it is cached, the cache for Ttl, and a
\* request that found it there for Patience again.
Stale(t) == since[t] <= Ttl + 2 * Patience

\* May MangaDex's present class of t let a reader of this age have it in this way?
Visible(kind, t, age) ==
    IF kind \in {"list", "latest"}
      THEN Listable(upstream[t], age)
      ELSE \E class \in Enriched(upstream[t]) : Readable(class, age)

\* Once MangaDex restricts a title, readers who are too young for it are served
\* neither it nor its chapters, pages or list entry for longer than Ttl plus two
\* request times, whoever else read it and in whatever order the calls overlap
\* (get_by_id: "a prior skip_age_filter call cannot poison the shared cache").
RestrictionsTakeEffect ==
    reply # Null /\ reply.status = "served" /\ reply.to.kind # "tags" =>
      \A t \in reply.what : Visible(reply.to.kind, t, reply.to.age) \/ Stale(t)

\* And the other way round: nobody is refused a title for its class because of
\* what others were refused, or longer than that after MangaDex opened it.  The
\* second look-up, which may see another class than the first, calls nothing
\* age-restricted that a list would show (get_manga, _require_manga_access).
RefusalsHaveReason ==
    reply # Null /\ reply.status \in Reasons =>
      LET t == reply.to.title
      IN  /\ reply.status = "denied" => ~Readable(upstream[t], reply.to.age) \/ Stale(t)
          /\ reply.what = {"forbidden"} => ~Listable(upstream[t], reply.to.age) \/ Stale(t)

\* The built-in tags stand in for MangaDex's only for Ttl after a failed call
\* (get_tags: "poisons the shared cache ... for the full cache TTL").
FallbackFades ==
    reply # Null /\ reply.status = "served" =>
      (reply.to.kind = "tags" /\ reply.what = {"fallback"} => tagsDown <= Ttl)

(***************************************************************************)
(* The cache, as its readers see it, is a Memory.                          *)
(***************************************************************************)
CacheKeys ==
    {TitleKey(t, l) : t \in Titles, l \in Languages}
    \cup {OwnerKey(t) : t \in Titles}
    \cup {<<k, t, Null>> : k \in {"chapters", "pages"}, t \in Titles}
    \cup {<<k, a, Null>> : k \in {"list", "latest"}, a \in Ages}
    \cup {TagsKey}

CacheValues == [class : Classes] \cup [title : Titles] \cup [titles : SUBSET Titles]
               \cup [tags : {"full", "fallback"}]

Remembered == [k \in {x \in DOMAIN cache.entries : Fresh(cache, x)} |-> cache.entries[k]]

CacheMemory == INSTANCE Memory WITH Keys <- CacheKeys, Values <- CacheValues,
                                    memory <- Remembered

\* Whatever the services do with it, SimpleCache implements Memory: no entry
\* outlives its time, none is lost while there is room or an expired one to drop
\* (the docstrings of SimpleCache and of its set()).
ImplementsMemory == CacheMemory!Spec
=============================================================================
