# InkScroller backend: a TLA+ model

The backend (FastAPI on asyncio, one process, SQLite or PostgreSQL) is a reader's
gateway to MangaDex: it proxies and caches the catalogue behind an age gate, keeps
profiles, preferences and libraries of Firebase users, and deletes accounts. This
directory holds TLA+ modules of the parts in which order matters, TLC runs on small
instances, and proofs checked by TLAPS. `PROJECT.json` lists components, runs, mutants,
the map from definitions to source lines, hazards, findings and theorems.

Within the process everything runs on one event loop. A handler is therefore atomic from
one `await` to the next, and other handlers run in between. This is the grain of
all models: a process (request slot) has a program counter naming the await it is at, and
a step runs the awaited operation and all code up to the next await.

## 1. Inventory

| Component | State | Operations | Interacts with |
|---|---|---|---|
| Account life cycle (`services/user_service.py`, `core/firebase_auth.py`, `core/dependencies.py`) | rows of `users`, `reading_preferences`, `user_library`, `user_pending_deletions`; Firebase accounts | authenticate, bootstrap, delete, reconcile at startup | storage, Firebase (blocking SDK call in a thread, 10 s) |
| Profiles, preferences, library (`user_service.py`, `api/users.py`) | columns of those rows | GET/PATCH/PUT/POST/DELETE below `/users/me` | storage, catalogue (metadata of an entry) |
| Storage (`core/db_adapter.py`, `core/database.py`) | tables; SQLite: one open transaction shared by all requests | execute, fetch, commit, open | everybody above |
| Outbound limiter (`sources/mangadex_client.py`) | `_next_request_at`, `_cooldown_until`, a lock | `wait`, `cooldown` | every MangaDex call, both clients |
| MangaDex/Jikan clients (`sources/`, `core/resilience.py`) | none | calls with retries and backoff | limiter, HTTP |
| Shared cache (`core/cache.py`) | ordered dict with expiry | `get`, `set` | all catalogue services |
| Age gate (`core/age.py`) | none | rating and demographic checks | catalogue routes |
| Catalogue (`manga_service.py`, `chapter_service.py`, `chapter_pages_service.py`, `tag_service.py` and their routes) | entries of the shared cache, union-scan snapshots in it | detail, search, list, chapters, pages, home feed, tags | cache, clients, age gate |
| Inbound limiter (`core/rate_limiter.py`) | deque of timestamps per client and category | check and record, evict | all routes |
| Pipeline (`main.py`) | per request: what was read of the body, the timer, whether the response has begun | request timeout, body limit, headers, startup, shutdown | everything |
| Health, CSP reports, configuration, logging, error handlers | none that changes between requests | | |

What is hard, and what correctness means:

* *Accounts*. Deletion spans two systems without a transaction: Firebase and the database.
  The Firebase call may fail, may time out while its thread goes on, and may land after
  everybody stopped waiting. On SQLite a commit makes everybody's statements durable; on
  PostgreSQL each statement commits alone and foreign keys bite. The process may die
  anywhere. Correct: nobody's account goes without their request; nobody's rows are lost
  unless the account is gone or Firebase did not answer; a 204 means that all is gone;
  startup and requests end.
* *User data*. Read, merge, write over awaits. Correct: a request changes what it was
  sent; usernames are unique; a birth date stays; reading status survives enrichment.
* *Outbound limiter and calls*. Callers reserve slots under a lock, sleep outside it, and a 429
  moves everybody's schedule; attempts fail, are retried after a backoff, or trickle, under two
  timeouts of different scope. Correct: slots apart, silence during a cooldown, nobody starves, and
  the tags answer in time.
* *Catalogue*. One cache for readers of every age, fills of different age races, calls
  that fail or time out, titles that are reclassified meanwhile. Correct: the gate holds
  whoever filled the cache, with a bounded delay; refusals have a reason; failures fade.
* *Paging*. A list merged from two scans is kept as a snapshot in the same cache, and cursors that
  clients may repeat, pass on or use with other filters lead along it. Correct: the pages are one
  list, nobody sees through a cursor what they may not see, a failed scan costs the other one nothing, and a
  cursor lasts as long as the cache allows.
* *Inbound limiter and pipeline*. One store counts all clients and forgets some; what a layer of middleware
  covers depends on where it stands. Correct: no more than the limit in any window, no refusal without cause,
  headers on every response, an answer for everybody who was let in.

The 40 entries of `hazards` in `PROJECT.json` name the line at which each of these bites
and the properties that would notice, or say why there is none.

## 2. Modules

```
Storage ---- Accounts ---- AccountsProofs                     AccountContract (abstract)
UserData ----------------- UserDataProofs
UpstreamLimiter ---------- UpstreamLimiterProofs              RequestGate (abstract)
      \---- MangaDexCalls ---- MangaDexCallsProofs            UpstreamLimiter (abstract)
AgeGate, SimpleCache ---- Reading ---- ReadingProofs          Memory (abstract)
       \---- Paging ---- PagingProofs                         Listing (abstract)
InboundLimiter ---- Pipeline ---- PipelineProofs              InboundLimiter (abstract)
```

`A ---- B` means that B extends A; on the right the specification that is implemented. `MC*.tla` add the symmetry sets for TLC; the `.cfg` files
give the constants.

**Storage / Accounts.** `db` is what a statement sent now reads, `disk` what survives a
crash; `Execute` and `Commit` are the adapter's two calls. Which database the process runs on is
chosen at the start and kept in `postgres`. A table is the
set of its keys. `Accounts` has one action per await of the handlers: `VerifyToken` (the
`check_revoked` lookup), `SelectUser` ... `CommitUser` (`get_or_create_user` with its
retry after a unique violation), `SelectPrefs` ... `UpsertPrefs`, `FetchManga`,
`UpsertEntry`, `DeleteEntry`, `CommitWrite`, `Reconcile` ... `CommitClear`
(`_reconcile_pending_deletion`), `FirebaseDelete`, `FirebaseAnswered`, `FirebaseTimedOut`,
`FirebaseFailed`, `SavePending`, `CommitSave`, `DeleteLibrary` ... `CommitCleanup`. `Boot`,
`NextPending` and `Serve` are the lifespan; `Crash` and `RequestTimeout` interrupt at any
await. Firebase is external: `FirebaseApplies` and `FirebaseRaises` answer a call in either
order with its effect, `LateCallLands` lets an abandoned thread finish. `verify_id_token` is not an await: it blocks
the loop until Firebase answers. `VerifyToken` and `RejectToken` are one step that comes at any time, so that the model has
more interleavings than the code. The variables `requested`, `outcomes` and `overlap` are history that the properties
talk about. `AccountContract` is what a reader of the account routes may count on: a token of a live account lets its
owner in (`Admit`) and nobody else; rows come from those let in (`Work`) and go only with the account or after a Firebase
deletion that did not answer (`Excuse`); a restart shows what was durable.

**UserData.** Rows with the columns that some property tells apart (`username`, `birth`;
`mode`, `filter`; `status`, `chapters`, `score`, `authors`), values from small sets, `Null`
for SQL's NULL. The actions are the statements of `update_profile_metadata`,
`update_preferences`, `_create_default_preferences`, `add_to_library`, `get_library` with
its lazy enrichment and write-back, `update_library_status`/`update_reading_progress` and
`remove_from_library`; what a handler read earlier is kept in `seen`. `raced` records that
somebody else wrote the row between a handler's read and its write, or removed an entry that a
GET of the library still holds.

**UpstreamLimiter.** `Reserve` is the block under the first lock, `Release` and `Postpone`
the two outcomes of the check after the sleep, `Throttle` a 429 with `Retry-After`, `Cancel`
a request that times out in its sleep. A sleeper may be released any time after its slot has
come (a late event loop). `RequestGate` promises slots of one's own that are apart, in the
past and outside the cooldown.

**MangaDexCalls.** What a route does with the limiter: `call` holds, per request, the calls still to
come, the attempt, the backoff that is left, and how long httpx has heard nothing. `Begin` and `Resume` enter
the limiter, `Wait` is its loop, `Succeeds`, `Fails`, `Refused` (429 with `Retry-After`), `FailsForNow` (500, 502,
503, 504, refused connections) and `AttemptTimeout` end an attempt; `Retry` is the loop of `with_retry`. httpx
limits each phase and not the whole attempt, so that an answer may come in parts (`Trickle`) until
`TimeoutMiddleware` ends the request (`RequestTimeout`). The exceptions of a statistics call are swallowed
inside the retry and never cause one. Every step of it is a step of `UpstreamLimiter` or none
(`ImplementsLimiter`), so what is proved of the limiter holds under the retries.

**AgeGate.** `core/age.py` and the ratings that MangaDex is asked for on behalf of a reader.

**SimpleCache / Reading.** `SimpleCache` gives the values of a cache after `get` and `set`
as operators on a record of entries and their order, a set of pairs of keys of which the second was used
later (so that what is true of any order can be proved without induction over a sequence); instead of an
expiry time an entry has the ticks that are left to it. `Reading` is what the routes do with it. `Access` is
`get_by_id` up to its first await, `Enrich` the rest; `Decide` is the gate, `Recheck`
the second lookup by which the routes choose between 403 and 404 (`Refetch` and
`Reenrich` when it misses); `Grant` goes on to chapters or pages. A refusal's status names why the
title was withheld at first (`denied`: the gate, `absent`: no such title), its content what the second lookup, which may
see another class, made of it (`Verdict`: 403 or 404). `FetchList`, `Statistics`,
`FetchChapters`, `FetchTitles` and `FetchTags` are lists, home feed and tags. A title is abstracted
to its class: its rating and whether a demographic is known. MangaDex's classes change
under the service (`Reclassify`), any call may fail (`CallFails`), a request lives
`Patience` ticks at most (`RequestTimeout`). `Memory` is the cache as a reader
thinks of it: the last value, for `Ttl`, forgotten early only when the memory is full.

**Paging.** The union scans of `search` and `list_manga`. `Receive` is the handler up to its first await: it
opens the scans of both groups or reads the snapshot that a cursor names (`Turn`, `_cursor_page`). `Scan` is one
call of `_scan_fetch`, of either group in any order, which succeeds with what MangaDex offers then, or
fails; `Merge` is `_scan_union` after its gather with `_snapshot_page`, `Rank` the order by statistics, `Rated`
the answer once the page has its statistics. `made` remembers all snapshots as they were made (history), `cache` is
the `SimpleCache`, into which other routes write, too (`OtherRoute`); a service object lives for one request,
so its own `_snapshots` never serve a cursor. A cursor is a record, since it cannot be forged; any client may send
any client's. `walk` is what a client has put together from its pages, and `Listing` says what that should be: the
beginning of one list, continued by each further cursor of its own.

**InboundLimiter / Pipeline.** `InboundLimiter` is `_SlidingWindowStore`; its `is_limited` awaits nothing and is
one step, `Admit` or `Refuse`. A key is a client and a category of routes. `log` remembers every admission until the
limiter forgets the client. `Pipeline` sends requests through the layers of `create_app`: `Layers` is their
order, and what a response passes (`Answered`) and what the timer covers (`Timed`) is computed from it. `Chunk`
and `BodyEnds` are the loop over the body, `Answer`, `Raise` and `Complete` the route and the server, `Expire`
the timer. If it strikes when a response has begun, the second response start is recorded as such (`begun`).

## 3. Runs

| Run | Bounds | What it shows |
|---|---|---|
| `accounts` | 1 user, 1 manga, 2 slots, delete / put preferences / add, SQLite and PostgreSQL, 1 crash, timeouts | `OrphansOnlyAfterDeletion`, `ErasureIsEarned`, `ErasedWhenAnswered`, `ForeignKeySafeOrder`, with a shared transaction and with a commit per statement |
| `accounts_restart` | 2 users, 1 slot, delete / me, 1 crash, timeouts, fairness | startup and requests end, deletions were requested, `AccountContract` is implemented (nobody is let in after deletion) |
| `timeout_leaves_no_record` | 1 user, 1 slot | finding: `TimeoutLeavesRecord` is violated |
| `deletion_not_retryable` | 1 user, 2 slots, PostgreSQL | finding: `SafeToRetry` is violated |
| `data_outlives_deletion` | 1 user, 2 slots | finding: `DeletedForGood` is violated |
| `user_data` | 2 users, 1 manga, 3 requests, 2 at a time, all kinds | usernames, birth dates, merges, refreshed and removed entries |
| `birth_date_rewritten` | 1 user, 2 overlapping PATCHes | finding: `BirthDateImmutable` is violated |
| `authors_forgotten` | 1 user, 2 POSTs | finding: `AuthorsPreserved` is violated |
| `mangadex_calls` | 2 requests, tags or a list with statistics, interval 1, `Retry-After` of 0, 1 or 3, 2 retries, fairness | the limiter's properties under retries, `RequestGate` and `UpstreamLimiter` are implemented, tags answer in time |
| `reading` | 1 title, 2 languages, a guest and a reader of 16, 2 requests, 1 reclassification, 2 cache entries, `Ttl` = `Patience` = 1 | the gate, refusals, fallback, `Memory` is implemented |
| `paging` | 2 titles, 2 clients, 3 queries, 3 requests, one scan at a time, 1 reclassification, 1 cache entry, `Ttl` = `Patience` = 1 | pages fit their reader, cursors last, nothing is lost, `Listing` is implemented |
| `pipeline` | 3 clients with limits 2, 2 and 1, 2 buckets, 2 connections, window 1, 4 ticks, fairness | windows, refusals, eviction, headers, answers, `InboundLimiter` is implemented |

Why the bounds are enough to meet the interesting cases. *Accounts*: every hazard is a
deletion against one other request of the same user, or against a crash; users share
nothing but the connection's commit, which `accounts_restart` has with two. *User data*:
lost updates need two requests of one user, unique usernames two users, and the third request reads
or repairs what two left, or makes POST, GET and DELETE of one entry meet. *Calls*: two requests can
overlap in every phase, one be postponed while the other sleeps, and one throttle the other; the cooldown 3 covers several
slots, 1 is one interval, 0 is none; two retries show the default number against the single one of the
tags, and `Patience` 5 lies between what the one and the other may take. Requests arrive and MangaDex throttles up to
`Horizon`, so that every behaviour ends before `MaxTime`. *Reading*: two requests are a fill and a hit, or two overlapping
fills; a cache of two entries has to purge or to evict because a detail,
an owner and a page set need three keys. With `Ttl` 1 an entry is fresh in two ticks and
expired in the third. *Paging*: two titles are the least that have a second page and a title to withdraw; with
`PageSize` 1 a scan takes two calls, so a change can fall between them. Two clients suffice to pass a cursor on, three
requests to scan, turn the page and put something else into the one entry of the cache, or to repeat a cursor. The third
query has another preference, other groups and an order. The run has one scan at a time, because scans share nothing but
the cache, into which they write in one step; no list is longer than `MaxOffset`, and with one entry the cache
need not choose whom to evict (`reading` is about that); the proofs have none of these bounds. *Pipeline*: two
buckets for three clients make every admission of the third an eviction; two connections overlap an admission with everything
else; the window of 1 has entries of its edge and beyond within 4 ticks.

The bound in the properties of reading and paging, `Ttl + 2 * Patience`: a class read from MangaDex waits at
most `Patience` in the request that read it before it is cached, `Ttl` in the cache, and
`Patience` again in a request that passed the gate with it and still awaits the pages. With the
shipped settings (300 s and 30 s) a restriction takes effect after six minutes at the latest.

Properties are checked with mutants: for each, an operator that changes one mapped definition the
way a plausible bug would (`..._NoPurge`, `..._Overwrites`, ...) makes TLC report a violation of
that property.

**Findings.** Five runs show disagreements between the code and what its comments or its specification
say; `findings` in `PROJECT.json` quotes the lines.
(1) The record of a Firebase deletion that timed out is deleted by the cleanup that follows in the same
request, so there is never one for the startup pass unless the request dies in between.
(2) A deletion that ends between Firebase and the cleanup cannot be retried: the user can no
longer authenticate. (3) A request in flight re-creates rows after the cleanup.
(4) Two overlapping PATCHes rewrite or unset a birth date. (5) Adding a title again empties
its stored authors.

More disagreements were met that no run is spent on. The largest is about the timeout of a deletion: openspec
`feat-74-delete-users-me` answers "Firebase deletion timeout/network error" with 502 (`spec.md:55`), says "If Firebase Auth
deletion fails, local data is NOT modified" (F5, `spec.md:18`, and the scenario at 77-83) and "local data is untouched
— safe to retry" (`design.md:54-55`), while `delete_account` and `_delete_firebase_user` treat a timeout as best effort, erase
all local data and answer 204, and say so (`user_service.py:237-249`, `256-262`). The model follows the code: a timeout
(and a server without Firebase, `skipped`) excuses the loss of local data in `ErasureIsEarned` and `AccountContract`, which say
nothing against openspec's reading; without the excuse both fail. The others: the class docstring of `SimpleCache`
(`core/cache.py:11`) says that the least recently used entry is evicted "regardless of whether it has
expired", while `set` purges expired entries first and then often need not evict (the model follows `set`, and
`ImplementsMemory` depends on it); the docstring of `get_tags` (`mangadex_client.py:238`) counts on a
retry after "a transient 429/5xx", while 429 is not among the codes that MangaDex calls retry; a MangaDex that hangs is answered
with 504, by `TimeoutMiddleware`, before the retries are through, and not with the 502 of `CHANGELOG.md:11`; and the docstring of
`_evict_one` (`core/rate_limiter.py:65`) says "Remove the bucket with the most recent timestamp", while the code removes
the least recent one (the model follows the code, and `LeastRecentForgotten` fails for the docstring's version).

## 4. Fairness

* Accounts: weak fairness of the startup process and of each request's own steps, and of the timer behind
  `wait_for`; none for Firebase's answers to `get_user` and `delete_user`, which may never come, none for arrivals and
  crashes. The event loop runs every ready task, and `wait_for` is a timer of the same loop.
  `StartEnds` and `RequestsEnd` hold because of the 10 s timeouts around those two calls and not because Firebase is kind:
  the mutants without them fail. One assumption is not the code's own: `verify_id_token` (`firebase_auth.py:130`) runs on the
  event loop itself, with no `wait_for` around it and out of `TimeoutMiddleware`'s reach, so that the fairness of
  `VerifyToken`/`RejectToken`, and `RequestsEnd` with it, rests on the network timeout of the SDK. `StartEnds` does not.
* Calls: weak fairness of the clock, of waking each sleeper and of the timers of httpx and of the middleware; none for
  MangaDex, which need not answer. Its cooldowns are finitely many because throttles stop at the horizon; with MangaDex
  throttling for ever nobody can be released, and `WaitersReleased` does not claim it.
* Pipeline: weak fairness of the clock and of the timer of each request. Clients need not send their bodies and routes
  need not end; `RequestsAnswered` rests on the timer alone, and fails if the body is read outside it.
* User data, reading and paging: safety only, no fairness.

## 5. Proofs

TLAPS proves the following for any users, requests, titles and bounds, from the named
assumptions on the constants only.

* `AccountsProofs`: the invariant ties the program counters to the history. A process at a step of the
  deletion serves a user in `requested`; past the Firebase step the user has an outcome; a row without its
  `users` row belongs to a user with an outcome or to nobody. None of the properties is inductive by
  itself: `FirebaseDeletionWasRequested`, for instance, needs that every process at
  a Firebase await, every record and every abandoned call stems from a request. From it follow
  `TypeOK`, `FirebaseDeletionWasRequested`, `OrphansOnlyAfterDeletion`, `ErasureIsEarned` and
  the refinement of `AccountContract`, for which `AtWorkStep` says that only the token check puts a request to work, `RowsStep`
  who adds and removes users rows, and `CommittedStep` that a commit makes durable just what is visible. A second invariant, `CleanupInv`, is about a deletion that no other request of
  its user has overlapped: it is alone at its user's rows, so what its earlier statements removed is still
  removed, and on PostgreSQL what is visible is durable. From it `ForeignKeySafeOrder` and `ErasedWhenAnswered`.
* `UpstreamLimiterProofs`: every reserved or used slot lies `Interval` before `nextRequestAt`, and
  `nextRequestAt` is never before `cooldown`; hence a new slot is apart from all others.
  From it `TypeOK`, `SlotsApart`, `NoSendInCooldown`, `OneSlotPerCooldown` and the
  refinement of `RequestGate`.
* `UserDataProofs`: a handler that did not race holds in `seen` the row as it is. From it `TypeOK`,
  `UsernamesUnique`, `BirthDateKept`, `OnlySentFieldsChange`, `EntriesSurviveRefresh`. The entries that a GET of the library
  holds while it calls MangaDex are in the library of its user unless a DELETE marked it; hence `RemovedStaysRemoved`: the
  write-back, an upsert, brings back at most what was removed under it.
* `ReadingProofs`: the invariant dates everything that is held. The class in a fresh cache entry with
  `left` ticks to go was MangaDex's at most `Ttl + Patience - left` ticks ago, the class that a request
  holds between its calls at most `spent` ticks ago, and a request that passed, or failed, the gate did so
  for a reason no older than `Ttl + Patience + spent`. `RestrictionsTakeEffect` alone is not inductive: the
  steps that answer from the cache need the dates of its entries, and the steps that fill it the
  dates of what the requests hold. `EnrichedReadable` says that what Jikan adds never takes a title away. From it `RestrictionsTakeEffect`, `RefusalsHaveReason`
  and `FallbackFades`. A second invariant (`TInv`) has the types of what is cached and held, and `WellFormed` of the cache. From it
  `TypeOK` and the refinement of `Memory`: the memory of a cache is its live entries, `set` forgets none of them
  unless it is full, and `get` and the purge forget only what is over.
* `MangaDexCallsProofs`: every step of a call is a step of the limiter or leaves it alone, from which `ImplementsLimiter` and,
  with the invariant of the limiter, `CallsTypeOK`. For `TagsInTime` the invariant is a balance: unless an answer trickled, what a tags
  request has spent is the time it slept at the limiter plus the silence of its present attempt, plus, in the second attempt,
  at most one `HttpTimeout` and one backoff for the first.
* `SimpleCacheProofs`: `get`, an eviction and `set` change no other value and no other time, whatever is evicted (`GetKeeps`,
  `EvictedKeeps`, `SetKeeps`); they keep the cache finite, within `MaxSize` and in the total order of use
  (`GetWellFormed`, `SetWellFormed`, `AgedWellFormed`), so that there is always one entry to evict (`OldestExists`); and `set`
  drops a live entry only from a full cache, and then the one used longest ago. The modules over the cache build on it.
* `PagingProofs`: the invariant says that snapshots stay as they were made, that what stands in the cache, at an await or with a
  client is a part of one of them (`Part`), and, as in reading, how old the classes behind it are at most: a snapshot
  with `left` ticks to go in the cache holds titles that its query was permitted at most `Ttl + Patience - left` ticks
  ago. `PagesFitTheReader` needs all of it: a page cut by a cursor is only as good as the snapshot's dates and the
  fingerprint. From it `TypeOK`, `PagesFitTheReader` and the refinement of `Listing`: two parts, one behind the other, are
  a part again (`PartsJoin`), so what a client put together is a beginning of the rest of one snapshot.
  Two more invariants. `KInv`: a snapshot that has not expired and was passed over fewer than `MaxSize` times is
  in the cache, with at most that many keys used after it; from it `CursorsLast`. `LInv`: as long as
  MangaDex has not changed since the request arrived, what the scan of a group has found is a beginning of the one listing that MangaDex
  gives for it, and all of it when the scan is done; the merge keeps every title of it that is permitted, whatever the other
  group's scan came to; from it `NothingIsLost`.
* `PipelineProofs`: a bucket is a part of the `log` of its client, what was dropped from it is older than the window and than
  everything left in it, and no window of the log has more admissions than the limit. From it, for the store and again for the
  pipeline over it, `WindowRespected`, `RefusalsEarned`, `LeastRecentForgotten`; from the order of the
  layers, `PipelineTypeOK` and `HeadersEverywhere`; and the refinement `ImplementsStore`.

Every invariant, action property and refinement that a passing run checks is proved. Only model-checked: liveness, because
it rests on fairness, for which this prover has no usable rules (`StartEnds`, `RequestsEnd`, `WaitersReleased`,
`RequestsAnswered`).

## 6. Not modelled

* The languages route of a title; Jikan's calls with their own retries (they succeed or fail in `Reading`); the limiter
  as a dependency (`rate_limit`), which no route uses.
* Health, CSP reports, configuration, logging, CORS headers: no state between requests.
* Mappers beyond the fields the gates and the rows depend on; request parameters of MangaDex calls, except those a scan depends on;
  statistics (a failure there never changes what is served to whom).
* Calendar arithmetic of ages: a reader has a fixed age for the length of a behaviour.
* Schema migrations and the translation of placeholders for PostgreSQL; the dialect shows in one place
  only, `INSERT OR REPLACE`, which `SavePending` refuses on PostgreSQL.
* Several processes: the deployment runs one.

## 7. Plan

1. *Library over the cache*: `UserData` composed with `Reading`, for the rating that an entry keeps.
2. The languages route in `Reading`, and the migrations of `init_db` in `Storage`.
