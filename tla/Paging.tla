------------------------------- MODULE Paging --------------------------------
(***************************************************************************)
(* The union scans of MangaService.search and list_manga: both demographic *)
(* groups are fetched at once, page by page, and merged; the merged list   *)
(* is kept as a snapshot in the SimpleCache that every route writes to,    *)
(* and signed cursors lead along it.                                       *)
(*                                                                         *)
(* Every client has one request at a time and keeps the last cursor it was *)
(* given; it may send any client's cursor, again and with other filters.   *)
(* A cursor is unforgeable.  Each call to MangaDex may fail, titles change *)
(* their class meanwhile, and TimeoutMiddleware ends a request at any of   *)
(* its awaits once it has lived for Patience ticks.                        *)
(***************************************************************************)
EXTENDS SimpleCache, AgeGate, SequencesExt

CONSTANTS
    Clients,
    Catalogue,  \* the titles in the order in which MangaDex lists them
    Uploads,    \* the classes that MangaDex may give to the titles
    Queries,    \* what clients ask for, at least with ?demographic=unspecified
    Limits,     \* values of ?limit=
    Offsets,    \* values of ?offset=
    PageSize,   \* the limit that the scans send to MangaDex
    MaxOffset,  \* max_offset of _scan_union
    Secret,     \* is settings.cursor_secret set?
    Patience,   \* settings.request_timeout_seconds, in ticks
    MaxScans,   \* bound on the scans under way at once
    MaxRequests,\* bound on the requests of a behaviour
    MaxChanges  \* bound on MangaDex's changes

AllClasses == [rating : AllRatings, known : BOOLEAN]

\* A query stands for all parameters that the fingerprint covers: the age of the
\* reader (Null for a guest), ?content_rating= (Null if missing), the groups of
\* ?demographic= (with named ones, or "unspecified" alone), and ?order=, where
\* "latest" stands for "title", too, and "popular" for "rating".
ASSUME PagingAssumption ==
    /\ Catalogue \in Seq({Catalogue[i] : i \in DOMAIN Catalogue})
    /\ \A i, j \in DOMAIN Catalogue : i # j => Catalogue[i] # Catalogue[j]
    /\ Uploads \subseteq [{Catalogue[i] : i \in DOMAIN Catalogue} -> AllClasses]
    /\ \A query \in Queries :
         /\ DOMAIN query = {"age", "preference", "groups", "order"}
         /\ query.age \in Nat \cup {Null}
         /\ query.groups \in {<<"named", "none">>, <<"none">>}
         /\ query.order \in {Null, "latest", "popular"}
    /\ Limits \subseteq Nat \ {0} /\ Offsets \subseteq Nat
    /\ PageSize \in Nat \ {0} /\ MaxOffset \in Nat \ {0} /\ Patience \in Nat
    /\ MaxScans \in Nat /\ MaxRequests \in Nat /\ MaxChanges \in Nat
    /\ Secret \in BOOLEAN

Titles == {Catalogue[i] : i \in DOMAIN Catalogue}
Place(t) == CHOOSE i \in DOMAIN Catalogue : Catalogue[i] = t
Groups == {"named", "none"}

VARIABLES
    cache,      \* the shared SimpleCache
    made,       \* history: the snapshots by number, as they were made
    upstream,   \* MangaDex: the class of every title
    since,      \* ticks since MangaDex last changed it, at most Long
    pc,         \* the await at which each client's request is, or "idle"
    req,        \* what it asks for, Null when idle
    scan,       \* of each group: what was fetched so far
    held,       \* the list or the page it holds while it awaits statistics
    spent,      \* ticks since the request arrived
    walk,       \* the pages that each client was sent, put together
    arrived,    \* the number of requests so far
    changes,    \* the number of changes so far
    reply       \* the answer that the last step sent, Null if none

worldVars == <<upstream, since, changes>>

vars == <<cache, made, upstream, since, pc, req, scan, held, spent, walk,
          arrived, changes, reply>>

\* From here on "long ago".
Long == Ttl + Patience + Patience + 1

Later(n) == IF n < Long THEN n + 1 ELSE Long

Least(a, b) == IF a <= b THEN a ELSE b

NoWalk == [id |-> 0, from |-> 0, seen |-> <<>>, more |-> FALSE, token |-> Null,
           onward |-> FALSE]

Init ==
    /\ cache = EmptyCache
    /\ made = <<>>
    /\ upstream \in Uploads
    /\ since = [t \in Titles |-> Long]
    /\ pc = [c \in Clients |-> "idle"]
    /\ req = [c \in Clients |-> Null]
    /\ scan = [c \in Clients |-> Null]
    /\ held = [c \in Clients |-> Null]
    /\ spent = [c \in Clients |-> 0]
    /\ walk = [c \in Clients |-> NoWalk]
    /\ arrived = 0
    /\ changes = 0
    /\ reply = Null

-----------------------------------------------------------------------------
(* Snapshots and cursors.                                                  *)

\* A snapshot is kept under a key of its own (uuid4).
SnapshotKey(id) == <<"snapshot", id>>

OtherKey == <<"other">>

\* Every use of the cache is one that a snapshot was not used in, except its own.
Passed(k) ==
    [i \in DOMAIN made |->
       [made[i] EXCEPT !.others = IF SnapshotKey(i) = k THEN 0 ELSE Least(@ + 1, MaxSize)]]

\* A page of the snapshot and the cursor behind it.
PageOf(id, query, titles, offset, limit) ==
    LET next == offset + Len(SubSeq(titles, offset + 1, Least(offset + limit, Len(titles))))
        more == next < Len(titles)
    IN  [id     |-> id,
         from   |-> offset,
         titles |-> SubSeq(titles, offset + 1, next),
         more   |-> more,
         token  |-> IF more /\ Secret THEN [id |-> id, offset |-> next, query |-> query]
                                      ELSE Null]

\* Mutant: a cursor is good for readers of any age.
Matches_AnyAge(saved, query) == [saved EXCEPT !.age = Null] = [query EXCEPT !.age = Null]

\* The fingerprint covers all that the list depends on, the reader's age included.
Matches(saved, query) == saved = query

-----------------------------------------------------------------------------
(* Requests.                                                               *)

At(c, place) == pc[c] = place

\* The request of client c awaits its next call.
Await(c, place, data) ==
    /\ pc' = [pc EXCEPT ![c] = place]
    /\ held' = [held EXCEPT ![c] = data]
    /\ reply' = Null
    /\ UNCHANGED <<spent, walk>>

\* The request ends: "served", "gone" (409), or "timeout".
Answer(c, r, status, page) ==
    /\ pc' = [pc EXCEPT ![c] = "idle"]
    /\ req' = [req EXCEPT ![c] = Null]
    /\ scan' = [scan EXCEPT ![c] = Null]
    /\ held' = [held EXCEPT ![c] = Null]
    /\ spent' = [spent EXCEPT ![c] = 0]
    /\ reply' = [status |-> status, to |-> r, page |-> page]

\* The client sent the cursor that it had itself been given.
Onward(c, r) == r.cursor # Null /\ r.cursor = walk[c].token

\* Then it puts the page behind those that led to it, or else begins anew.
Walked(c, r, page) ==
    [id     |-> page.id,
     from   |-> IF Onward(c, r) THEN walk[c].from ELSE page.from,
     seen   |-> IF Onward(c, r) THEN walk[c].seen \o page.titles ELSE page.titles,
     more   |-> page.more,
     token  |-> page.token,
     onward |-> Onward(c, r)]

Serve(c, r, page) ==
    /\ Answer(c, r, "served", page)
    /\ walk' = [walk EXCEPT ![c] = Walked(c, r, page)]

\* The request goes on without what its groups found.
Scanned(c) == scan' = [scan EXCEPT ![c] = Null] /\ UNCHANGED req

\* A page with titles in it waits for their statistics, which change nothing here.
Rate(c, r, page) ==
    IF page.titles = <<>>
      THEN Serve(c, r, page)
      ELSE Await(c, "rating", page) /\ Scanned(c)

Rated(c) ==
    /\ At(c, "rating")
    /\ Serve(c, req[c], held[c])
    /\ UNCHANGED <<cache, made, worldVars, arrived>>

\* _cursor_page up to its await.  The snapshots of the service itself are those of
\* this request, none.
Turn(c, r) ==
    LET token == r.cursor
        k     == SnapshotKey(token.id)
    IN  /\ cache' = AfterGet(cache, k)
        /\ made' = IF Fresh(cache, k) THEN Passed(k) ELSE made
        /\ IF Fresh(cache, k) /\ Matches(Value(cache, k).query, r.query)
             THEN /\ Await(c, "rating", PageOf(token.id, r.query, Value(cache, k).titles,
                                              token.offset, r.limit))
                  /\ req' = [req EXCEPT ![c] = r]
                  /\ UNCHANGED scan
             ELSE Answer(c, r, "gone", Null) /\ UNCHANGED walk

Unscanned(r) == [g \in {r.query.groups[i] : i \in DOMAIN r.query.groups} |->
                   [found |-> <<>>, offset |-> 0, state |-> "open"]]

\* search or list_manga up to the first await.
Receive(c) ==
    /\ At(c, "idle")
    /\ arrived < MaxRequests
    /\ arrived' = arrived + 1
    /\ \E query \in Queries, limit \in Limits :
         \/ /\ Cardinality({d \in Clients : At(d, "scanning")}) < MaxScans
            /\ \E offset \in Offsets :
                 req' = [req EXCEPT ![c] = [query |-> query, limit |-> limit,
                                            offset |-> offset, cursor |-> Null]]
            /\ scan' = [scan EXCEPT ![c] = Unscanned(req'[c])]
            /\ Await(c, "scanning", Null)
            /\ UNCHANGED <<cache, made>>
         \/ \E d \in Clients :
              /\ walk[d].token # Null
              /\ Turn(c, [query |-> query, limit |-> limit, offset |-> 0,
                          cursor |-> walk[d].token])
    /\ UNCHANGED worldVars

-----------------------------------------------------------------------------
(* The scan.                                                               *)

\* What MangaDex has for a group: it filters by rating and by demographic.
Offered(group, query) ==
    {t \in Titles :
       /\ upstream[t].rating \in ResolveContentRatings(query.age, query.preference)
       /\ upstream[t].known <=> group = "named"}

\* That, in the order of the catalogue.
Listings(group, query) ==
    {list \in SetToSeqs(Offered(group, query)) :
       \A i, j \in DOMAIN list : i < j => Place(list[i]) < Place(list[j])}

\* Titles with the class that MangaDex gave them, from which the filters will decide.
Mapped(titles) == [i \in DOMAIN titles |-> [title |-> titles[i], class |-> upstream[titles[i]]]]

\* A group after its next page, with which its scan ends if it was nothing, or all,
\* or enough.
Extended(group, listed) ==
    LET raw   == SubSeq(listed, group.offset + 1, Least(group.offset + PageSize, Len(listed)))
        after == group.offset + Len(raw)
    IN  [found  |-> group.found \o Mapped(raw),
         offset |-> after,
         state  |-> IF raw = <<>> \/ after >= Len(listed) \/ after >= MaxOffset
                      THEN "done" ELSE "open"]

\* _scan_fetch, one call.
ScanFetch(c, g) ==
    \E listed \in Listings(g, req[c].query) :
      scan' = [scan EXCEPT ![c][g] = Extended(@, listed)]

\* The call fails after its retries and the group ends with what it has, or the
\* answer cannot be read and it ends with nothing (gather returns the exception).
ScanFails(c, g) ==
    \E found \in {scan[c][g].found, <<>>} :
      scan' = [scan EXCEPT ![c][g] = [found |-> found, offset |-> @.offset, state |-> "failed"]]

Scan(c, g) ==
    /\ At(c, "scanning")
    /\ g \in DOMAIN scan[c] /\ scan[c][g].state = "open"
    /\ ScanFetch(c, g) \/ ScanFails(c, g)
    /\ reply' = Null
    /\ UNCHANGED <<cache, made, worldVars, pc, req, held, spent, walk, arrived>>

\* Mutant: a group that fails takes the other one with it.
Found_AllOrNothing(c) ==
    IF \E g \in DOMAIN scan[c] : scan[c][g].state = "failed"
      THEN <<>>
      ELSE IF "named" \in DOMAIN scan[c] THEN scan[c]["named"].found \o scan[c]["none"].found
                                         ELSE scan[c]["none"].found

\* The results of the groups, in the order of the fetches.
Found(c) ==
    IF "named" \in DOMAIN scan[c] THEN scan[c]["named"].found \o scan[c]["none"].found
                                  ELSE scan[c]["none"].found

\* _matches_demographic; that a named demographic is the one asked for is MangaDex's word.
MatchesDemographic(class, groups) ==
    \/ ~class.known
    \/ "named" \in {groups[i] : i \in DOMAIN groups}

\* Where in the results there are titles that pass all filters: those of
\* _map_and_filter, which the code applies page by page, and the demographic.
Wanted(items, query) ==
    {i \in DOMAIN items : /\ Listable(items[i].class, query.age)
                          /\ MatchesDemographic(items[i].class, query.groups)}

\* The unions of the results: every wanted title once, in the order found or sorted
\* by something that the model leaves open.
UnionsOf(items, query) ==
    LET wanted == Wanted(items, query)
        FirstPlace(t) == CHOOSE i \in wanted :
                           items[i].title = t /\ \A j \in wanted : items[j].title = t => i <= j
    IN  {list \in SetToSeqs({items[i].title : i \in wanted}) :
           query.order = Null => \A i, j \in DOMAIN list :
             i < j => FirstPlace(list[i]) < FirstPlace(list[j])}

\* Mutant: one snapshot for all requests with the same filters.
Snapshot_Shared(c, titles) ==
    LET r  == req[c]
        id == Len(made) + 1
        k  == SnapshotKey(1)
    IN  /\ made' = Append(Passed(k), [query |-> r.query, titles |-> titles, age |-> 0, others |-> 0])
        /\ cache' = AfterSet(cache, k, [query |-> r.query, titles |-> titles])

\* _snapshot_page: the snapshot goes into the cache and its first page is cut.
Snapshot(c, titles) ==
    LET r  == req[c]
        id == Len(made) + 1
        k  == SnapshotKey(id)
    IN  /\ made' = Append(Passed(k), [query |-> r.query, titles |-> titles, age |-> 0, others |-> 0])
        /\ cache' = AfterSet(cache, k, [query |-> r.query, titles |-> titles])

FirstPage(r, titles) == PageOf(Len(made) + 1, r.query, titles, r.offset, r.limit)

\* _scan_union goes on when both groups have ended.  What is to be sorted by
\* statistics waits for those of the whole list first.
Merge(c) ==
    /\ At(c, "scanning")
    /\ \A g \in DOMAIN scan[c] : scan[c][g].state # "open"
    /\ LET r == req[c]
       IN  \E titles \in UnionsOf(Found(c), r.query) :
             IF r.query.order = "popular" /\ titles # <<>>
               THEN Await(c, "ranking", titles) /\ Scanned(c) /\ UNCHANGED <<cache, made>>
               ELSE /\ Snapshot(c, titles)
                    /\ IF r.query.order = "popular" THEN Serve(c, r, FirstPage(r, titles))
                                                    ELSE Rate(c, r, FirstPage(r, titles))
    /\ UNCHANGED <<worldVars, arrived>>

\* The statistics of the whole list, or none: any order.
Rank(c) ==
    /\ At(c, "ranking")
    /\ \E titles \in SetToSeqs({held[c][i] : i \in DOMAIN held[c]}) :
         /\ Snapshot(c, titles)
         /\ Serve(c, req[c], FirstPage(req[c], titles))
    /\ UNCHANGED <<worldVars, arrived>>

-----------------------------------------------------------------------------
(* The world.                                                              *)

\* TimeoutMiddleware cancels the request at its await: 504, and the client keeps
\* the cursor that it had.
RequestTimeout(c) ==
    /\ ~At(c, "idle")
    /\ spent[c] = Patience
    /\ Answer(c, req[c], "timeout", Null)
    /\ UNCHANGED <<cache, made, worldVars, walk, arrived>>

\* Another route puts something into the cache.
OtherRoute ==
    /\ arrived < MaxRequests
    /\ arrived' = arrived + 1
    /\ cache' = AfterSet(cache, OtherKey, [query |-> Null, titles |-> <<>>])
    /\ made' = Passed(OtherKey)
    /\ reply' = Null
    /\ UNCHANGED <<worldVars, pc, req, scan, held, spent, walk>>

\* A behaviour is over once all its requests are.
Going == arrived < MaxRequests \/ \E c \in Clients : ~At(c, "idle")

\* Mutant: requests are not limited in time.
Tick_Unlimited ==
    /\ Going
    /\ cache' = Aged(cache)
    /\ made' = [i \in DOMAIN made |-> [made[i] EXCEPT !.age = Least(@ + 1, Ttl + 1)]]
    /\ since' = [t \in Titles |-> Later(since[t])]
    /\ spent' = [c \in Clients |-> IF At(c, "idle") THEN 0 ELSE spent[c] + 1]
    /\ reply' = Null
    /\ UNCHANGED <<upstream, changes, pc, req, scan, held, walk, arrived>>

\* Nobody waits longer than the middleware allows.
Tick ==
    /\ Going
    /\ \A c \in Clients : At(c, "idle") \/ spent[c] < Patience
    /\ cache' = Aged(cache)
    /\ made' = [i \in DOMAIN made |-> [made[i] EXCEPT !.age = Least(@ + 1, Ttl + 1)]]
    /\ since' = [t \in Titles |-> Later(since[t])]
    /\ spent' = [c \in Clients |-> IF At(c, "idle") THEN 0 ELSE spent[c] + 1]
    /\ reply' = Null
    /\ UNCHANGED <<upstream, changes, pc, req, scan, held, walk, arrived>>

\* MangaDex changes the classes of some titles.
Reclassify ==
    /\ Going /\ changes < MaxChanges
    /\ changes' = changes + 1
    /\ upstream' \in Uploads \ {upstream}
    /\ since' = [t \in Titles |-> IF upstream'[t] = upstream[t] THEN since[t] ELSE 0]
    /\ reply' = Null
    /\ UNCHANGED <<cache, made, pc, req, scan, held, spent, walk, arrived>>

Next ==
    \/ \E c \in Clients :
         \/ Receive(c)
         \/ \E g \in Groups : Scan(c, g)
         \/ Merge(c) \/ Rank(c) \/ Rated(c)
         \/ RequestTimeout(c)
    \/ Reclassify
    \/ OtherRoute
    \/ Tick

Spec == Init /\ [][Next]_vars

-----------------------------------------------------------------------------
(* Properties.                                                             *)

Items  == [title : Titles, class : AllClasses]
Tokens == [id : 1..Len(made), offset : Nat, query : Queries]
Requested == [query : Queries, limit : Limits, offset : Offsets \cup {0},
              cursor : Tokens \cup {Null}]

\* Requests stand at an await with what that await needs, and the cursors that
\* clients hold name snapshots that were made.
TypeOK ==
    /\ upstream \in Uploads
    /\ since \in [Titles -> 0..Long]
    /\ pc \in [Clients -> {"idle", "scanning", "ranking", "rating"}]
    /\ spent \in [Clients -> 0..Patience]
    /\ arrived \in 0..MaxRequests /\ changes \in 0..MaxChanges
    /\ \A i \in DOMAIN made :
         /\ made[i].query \in Queries /\ made[i].titles \in Seq(Titles)
         /\ made[i].age \in 0..Ttl+1 /\ made[i].others \in 0..MaxSize
    /\ \A c \in Clients :
         /\ walk[c].token \in Tokens \cup {Null}
         /\ walk[c].token # Null => walk[c].token.id = walk[c].id
         /\ req[c] \in IF At(c, "idle") THEN {Null} ELSE Requested
         /\ At(c, "scanning") => \A g \in DOMAIN scan[c] : scan[c][g].found \in Seq(Items)
         /\ At(c, "ranking") => held[c] \in Seq(Titles)

\* What may be in a list for this query now.
Permitted(class, query) ==
    /\ class.rating \in ResolveContentRatings(query.age, query.preference)
    /\ Listable(class, query.age)

\* Once MangaDex restricts a title, nobody who is too young for it, or asked not to
\* have it, finds it on a page for longer than Ttl and two request times, however
\* old the snapshot, whoever made it and whoever passed the cursor on.
PagesFitTheReader ==
    reply # Null /\ reply.status = "served" =>
      \A i \in DOMAIN reply.page.titles :
        LET t == reply.page.titles[i]
        IN  Permitted(upstream[t], reply.to.query) \/ since[t] <= Ttl + 2 * Patience

\* What c merges contains what MangaDex has for each group that was fetched to its end.
ListsAll(c) ==
    \A g \in DOMAIN scan[c] :
      LET offered == Offered(g, req[c].query)
          merged  == IF pc'[c] = "ranking" THEN held'[c] ELSE made'[Len(made')].titles
      IN  /\ scan[c][g].state = "done" /\ Cardinality(offered) <= MaxOffset
          /\ \A t \in Titles : since[t] > spent[c]
          => \A t \in offered :
               Permitted(upstream[t], req[c].query) => \E j \in DOMAIN merged : merged[j] = t

\* A group that could be fetched is in the list from end to end, whatever became of
\* the other one, unless MangaDex changed something in the meantime ("one failed
\* demographic does not block the entire union scan").
NothingIsLost == [][\A c \in Clients : Merge(c) => ListsAll(c)]_vars

\* A cursor is refused to the filters it was made for only when its snapshot is
\* older than Ttl, or has been passed over MaxSize times for others in the cache.
CursorsLast ==
    reply # Null /\ reply.status = "gone" =>
      LET snapshot == made[reply.to.cursor.id]
      IN  snapshot.query = reply.to.query =>
            snapshot.age > Ttl \/ snapshot.others >= MaxSize

(***************************************************************************)
(* Clients walk along a Listing.                                           *)
(***************************************************************************)
Whole ==
    [c \in Clients |->
       IF walk[c].id = 0 THEN <<>>
       ELSE SubSeq(made[walk[c].id].titles, walk[c].from + 1, Len(made[walk[c].id].titles))]

Walks == INSTANCE Listing WITH whole  <- Whole,
                               seen   <- [c \in Clients |-> walk[c].seen],
                               more   <- [c \in Clients |-> walk[c].more],
                               onward <- [c \in Clients |-> walk[c].onward]

\* Whatever limits a client asks for, however often it repeats a request, and whatever
\* others scan meanwhile: its pages put together are one list without gaps or
\* repetitions, and "has_more" says truly whether it ends here ("Build the complete
\* authorized union before exposing its first page").
ImplementsListing == Walks!Spec
=============================================================================
