------------------------------ MODULE UserData -------------------------------
(***************************************************************************)
(* UserService's profile, reading preferences and library, behind the      *)
(* /users/me routes: what concurrent requests of the same and of different *)
(* users make of each other's rows.                                        *)
(*                                                                         *)
(* Every statement is a step, because the handlers await between them.     *)
(* The users are bootstrapped and not being deleted (module Accounts is    *)
(* about that); commit() makes rows durable and changes nothing here.      *)
(* Values that fail validation never reach a statement and are left out.   *)
(***************************************************************************)
EXTENDS Naturals

CONSTANTS
    Users, Mangas,
    Slots,          \* requests in flight
    Usernames, Births, Modes, Filters,
    DefaultMode,    \* 'vertical'
    Kinds,          \* the requests that arrive
    MaxRequests,    \* bound: requests in a behaviour
    Null            \* SQL NULL, Python None

Profiles == [username : Usernames \cup {Null}, birth : Births \cup {Null}]
Preferences == [mode : Modes, filter : Filters \cup {Null}]
Statuses == {"reading", "completed"}
Chapters == {0, 1}

\* The cached metadata: a nullable column (score stands for all of them) and a
\* JSON list that is empty or not (authors stands for genres too).
Metadata == [score : {Null, "rated"}, authors : {"empty", "named"}]

Entry == [status : Statuses, chapters : Chapters,
          score : {Null, "rated"}, authors : {"empty", "named"}]

ASSUME UserDataAssumption ==
    /\ Null \notin Usernames \cup Births \cup Modes \cup Filters
    /\ Null \notin Preferences \cup Entry
    /\ DefaultMode \in Modes
    /\ Kinds \subseteq {"patchMe", "getPrefs", "putPrefs", "post",
                        "getLibrary", "patchEntry", "remove"}
    /\ MaxRequests \in Nat

Libraries == [Mangas -> Entry \cup {Null}]

Places == {"idle", "selectProfile", "updateProfile", "selectPrefs", "insertPrefs",
           "upsertPrefs", "fetch", "upsertEntry", "selectEntries", "enrich",
           "writeBack", "updateEntry", "deleteEntry"}

\* A payload carries some of the fields (model_fields_set).
Partial(fields, values) == UNION {[F -> values] : F \in SUBSET fields}

ProfilePatches ==
    {p \in Partial({"username", "birth"}, Usernames \cup Births \cup {Null}) :
        /\ "username" \in DOMAIN p => p["username"] \in Usernames \cup {Null}
        /\ "birth" \in DOMAIN p => p["birth"] \in Births \cup {Null}}

\* Mutant: a default_reader_mode of null is taken for a value.
PrefsPatches_NullMode ==
    {p \in Partial({"mode", "filter"}, Modes \cup Filters \cup {Null}) :
        /\ "mode" \in DOMAIN p => p["mode"] \in Modes \cup {Null}
        /\ "filter" \in DOMAIN p => p["filter"] \in Filters \cup {Null}}

\* A default_reader_mode of null counts as omitted ("or"), a filter of null does not.
PrefsPatches ==
    {p \in Partial({"mode", "filter"}, Modes \cup Filters \cup {Null}) :
        /\ "mode" \in DOMAIN p => p["mode"] \in Modes
        /\ "filter" \in DOMAIN p => p["filter"] \in Filters \cup {Null}}

EntryPatches == [{"status"} -> Statuses] \cup [{"chapters"} -> Chapters]

VARIABLES
    profile,    \* users: username and birth_date of each user
    prefs,      \* reading_preferences: the row of each user, or Null
    library,    \* user_library: the row of each user and manga, or Null
    pc,         \* where each request is
    req,        \* its user and payload, Null when idle
    seen,       \* what it read and still holds
    raced,      \* history: did another request write, or remove, what it read?
    arrived     \* the number of requests so far

vars == <<profile, prefs, library, pc, req, seen, raced, arrived>>

tables == <<profile, prefs, library>>

NoEntries == [m \in Mangas |-> Null]

Init ==
    /\ profile = [u \in Users |-> [username |-> Null, birth |-> Null]]
    /\ prefs = [u \in Users |-> Null]
    /\ library = [u \in Users |-> NoEntries]
    /\ pc = [s \in Slots |-> "idle"]
    /\ req = [s \in Slots |-> Null]
    /\ seen = [s \in Slots |-> Null]
    /\ raced = [s \in Slots |-> FALSE]
    /\ arrived = 0

At(s, place) == pc[s] = place

User(s) == req[s].user

Sent(s) == req[s].sent

\* The provided fields over the current ones.
Merge(sent, current) ==
    [f \in DOMAIN current |-> IF f \in DOMAIN sent THEN sent[f] ELSE current[f]]

\* The request goes on to `place', holding `data'.
Proceed(s, place, data) ==
    /\ pc' = [pc EXCEPT ![s] = place]
    /\ seen' = [seen EXCEPT ![s] = data]
    /\ UNCHANGED <<req, raced, arrived>>

\* The request is answered.
Answer(s) ==
    /\ pc' = [pc EXCEPT ![s] = "idle"]
    /\ req' = [req EXCEPT ![s] = Null]
    /\ seen' = [seen EXCEPT ![s] = Null]
    /\ UNCHANGED arrived

\* Answered after it wrote the rows that those at `places' of the same user hold.
AnswerWritten(s, places) ==
    /\ Answer(s)
    /\ raced' = [t \in Slots |->
                   t # s /\ (raced[t] \/ (pc[t] \in places /\ User(t) = User(s)))]

\* Answered without a write that others could have missed.
AnswerPlain(s) ==
    /\ Answer(s)
    /\ raced' = [raced EXCEPT ![s] = FALSE]

\* A request passes its dependency (token, users row) and enters the handler.
Accept(s, kind, place, r) ==
    /\ At(s, "idle") /\ kind \in Kinds
    /\ arrived < MaxRequests
    /\ arrived' = arrived + 1
    /\ pc' = [pc EXCEPT ![s] = place]
    /\ req' = [req EXCEPT ![s] = r]
    /\ UNCHANGED <<profile, prefs, library, seen, raced>>

Receive(s) ==
    \E u \in Users :
      \/ \E p \in ProfilePatches :
           Accept(s, "patchMe", "selectProfile", [user |-> u, sent |-> p])
      \/ Accept(s, "getPrefs", "selectPrefs", [user |-> u, sent |-> Null])
      \/ \E p \in PrefsPatches :
           Accept(s, "putPrefs", "selectPrefs", [user |-> u, sent |-> p])
      \/ Accept(s, "getLibrary", "selectEntries", [user |-> u])
      \/ \E m \in Mangas :
           \/ Accept(s, "post", "fetch", [user |-> u, manga |-> m])
           \/ Accept(s, "remove", "deleteEntry", [user |-> u, manga |-> m])
           \/ \E p \in EntryPatches :
                Accept(s, "patchEntry", "updateEntry", [user |-> u, manga |-> m, sent |-> p])

-----------------------------------------------------------------------------
(* PATCH /users/me                                                         *)

\* A birth date may be set once.
BirthConflict(s, current) ==
    /\ "birth" \in DOMAIN Sent(s)
    /\ current.birth # Null
    /\ Sent(s)["birth"] # current.birth

\* Mutant: the guard on the birth date is dropped.
SelectProfile_NoGuard(s) ==
    /\ At(s, "selectProfile")
    /\ Proceed(s, "updateProfile", profile[User(s)])
    /\ UNCHANGED tables

\* SELECT the profile; 409 for a second birth date.
SelectProfile(s) ==
    /\ At(s, "selectProfile")
    /\ \/ /\ BirthConflict(s, profile[User(s)])
          /\ AnswerPlain(s)
       \/ /\ ~BirthConflict(s, profile[User(s)])
          /\ Proceed(s, "updateProfile", profile[User(s)])
    /\ UNCHANGED tables

\* Mutant: no unique index.
UsernameTaken_Never(u, name) == FALSE

\* idx_users_username_unique
UsernameTaken(u, name) ==
    name # Null /\ \E v \in Users \ {u} : profile[v].username = name

\* UPDATE both columns from the payload and what was read; 409 if the name is taken.
UpdateProfile(s) ==
    /\ At(s, "updateProfile")
    /\ LET new == Merge(Sent(s), seen[s])
       IN  \/ /\ ~UsernameTaken(User(s), new.username)
              /\ profile' = [profile EXCEPT ![User(s)] = new]
              /\ AnswerWritten(s, {"updateProfile"})
           \/ /\ UsernameTaken(User(s), new.username)
              /\ AnswerPlain(s)
              /\ UNCHANGED profile
    /\ UNCHANGED <<prefs, library>>

-----------------------------------------------------------------------------
(* GET and PUT /users/me/preferences                                       *)

\* get_preferences is done: GET answers, PUT merges.
AfterPrefs(s, row) ==
    IF Sent(s) = Null THEN AnswerPlain(s) ELSE Proceed(s, "upsertPrefs", row)

SelectPrefs(s) ==
    /\ At(s, "selectPrefs")
    /\ IF prefs[User(s)] # Null
         THEN AfterPrefs(s, prefs[User(s)])
         ELSE Proceed(s, "insertPrefs", Null)
    /\ UNCHANGED tables

\* Mutant: the defaults are written over a row that another request made.
InsertPrefs_Upserts(s) ==
    /\ At(s, "insertPrefs")
    /\ LET default == [mode |-> DefaultMode, filter |-> Null]
       IN  /\ prefs' = [prefs EXCEPT ![User(s)] = default]
           /\ AfterPrefs(s, default)
    /\ UNCHANGED <<profile, library>>

\* _create_default_preferences; if another request was first, take its row.
InsertPrefs(s) ==
    /\ At(s, "insertPrefs")
    /\ LET u == User(s)
           default == [mode |-> DefaultMode, filter |-> Null]
       IN  \/ /\ prefs[u] = Null
              /\ prefs' = [prefs EXCEPT ![u] = default]
              /\ AfterPrefs(s, default)
           \/ /\ prefs[u] # Null
              /\ AfterPrefs(s, prefs[u])
              /\ UNCHANGED prefs
    /\ UNCHANGED <<profile, library>>

UpsertPrefs(s) ==
    /\ At(s, "upsertPrefs")
    /\ prefs' = [prefs EXCEPT ![User(s)] = Merge(Sent(s), seen[s])]
    /\ AnswerWritten(s, {"upsertPrefs"})
    /\ UNCHANGED <<profile, library>>

-----------------------------------------------------------------------------
(* /users/me/library                                                       *)

\* The row after INSERT ... ON CONFLICT DO UPDATE with `data'.  A NULL score keeps
\* the stored one; an empty list is inserted as '[]', which is not NULL, so
\* excluded.authors always wins.
Upserted(old, data) ==
    IF old = Null
      THEN [status |-> "reading", chapters |-> 0, score |-> data.score, authors |-> data.authors]
      ELSE [old EXCEPT !.score = IF data.score # Null THEN data.score ELSE @,
                       !.authors = data.authors]

Put(u, m, row) == library' = [library EXCEPT ![u][m] = row]

\* POST: MangaDex knows the manga, more or less well (not at all is neither a
\* score nor authors), or the call fails.
Fetch(s) ==
    /\ At(s, "fetch")
    /\ \/ \E data \in Metadata : Proceed(s, "upsertEntry", data)
       \/ AnswerPlain(s)
    /\ UNCHANGED tables

UpsertEntry(s) ==
    /\ At(s, "upsertEntry")
    /\ LET u == User(s)
           m == req[s].manga
       IN  Put(u, m, Upserted(library[u][m], seen[s]))
    /\ AnswerPlain(s)
    /\ UNCHANGED <<profile, prefs>>

\* Mutant: the WHERE clause is missing.
SelectEntries_AnyUser(s) ==
    /\ At(s, "selectEntries")
    /\ \E u \in Users : Proceed(s, "enrich", library[u])
    /\ UNCHANGED tables

\* GET: read all entries; those without a score are enriched one after another.
SelectEntries(s) ==
    /\ At(s, "selectEntries")
    /\ Proceed(s, "enrich", library[User(s)])
    /\ UNCHANGED tables

ToEnrich(entries) == {m \in Mangas : entries[m] # Null /\ entries[m].score = Null}

\* What the entry holds after the fetched data has filled it in.
Enriched(entry, data) ==
    [entry EXCEPT !.score = data.score,
                  !.authors = IF data.authors = "named" THEN "named" ELSE @]

\* Fetch one entry: not found (skip it), data (write it back next), or failure.
Enrich(s) ==
    /\ At(s, "enrich")
    /\ \E m \in ToEnrich(seen[s]) :
         \/ Proceed(s, "enrich", [seen[s] EXCEPT ![m] = Null])
         \/ \E data \in Metadata :
              Proceed(s, "writeBack", [manga |-> m,
                                       entry |-> Enriched(seen[s][m], data),
                                       rest |-> [seen[s] EXCEPT ![m] = Null]])
         \/ AnswerPlain(s)
    /\ UNCHANGED tables

\* Mutant: the whole entry is written back, with the status it had.
WriteBack_Whole(s) ==
    /\ At(s, "writeBack")
    /\ Put(User(s), seen[s].manga, seen[s].entry)
    /\ Proceed(s, "enrich", seen[s].rest)
    /\ UNCHANGED <<profile, prefs>>

\* add_to_library with the entry read before the fetch.
WriteBack(s) ==
    /\ At(s, "writeBack")
    /\ LET u == User(s)
           m == seen[s].manga
       IN  Put(u, m, Upserted(library[u][m], seen[s].entry))
    /\ Proceed(s, "enrich", seen[s].rest)
    /\ UNCHANGED <<profile, prefs>>

\* Nothing is left to enrich: the library is filtered by age and returned.
AnswerLibrary(s) ==
    /\ At(s, "enrich")
    /\ ToEnrich(seen[s]) = {}
    /\ AnswerPlain(s)
    /\ UNCHANGED tables

\* PATCH the status or the progress; 404 without a row.
UpdateEntry(s) ==
    /\ At(s, "updateEntry")
    /\ LET u == User(s)
           m == req[s].manga
       IN  \/ /\ library[u][m] # Null
              /\ Put(u, m, Merge(Sent(s), library[u][m]))
           \/ /\ library[u][m] = Null
              /\ UNCHANGED library
    /\ AnswerPlain(s)
    /\ UNCHANGED <<profile, prefs>>

\* DELETE; 404 if there was no row.  A GET that read the row still holds it.
DeleteEntry(s) ==
    /\ At(s, "deleteEntry")
    /\ Put(User(s), req[s].manga, Null)
    /\ AnswerWritten(s, {"enrich", "writeBack"})
    /\ UNCHANGED <<profile, prefs>>

-----------------------------------------------------------------------------
\* The bound is reached and everybody is answered.
Finished ==
    /\ arrived = MaxRequests
    /\ \A s \in Slots : At(s, "idle")
    /\ UNCHANGED vars

Next ==
    \/ \E s \in Slots :
         \/ Receive(s)
         \/ SelectProfile(s) \/ UpdateProfile(s)
         \/ SelectPrefs(s) \/ InsertPrefs(s) \/ UpsertPrefs(s)
         \/ Fetch(s) \/ UpsertEntry(s)
         \/ SelectEntries(s) \/ Enrich(s) \/ WriteBack(s) \/ AnswerLibrary(s)
         \/ UpdateEntry(s) \/ DeleteEntry(s)
    \/ Finished

Spec == Init /\ [][Next]_vars

-----------------------------------------------------------------------------
(* Properties.                                                             *)

\* The tables keep their types and the requests stand at one of the statements
\* (NOT NULL columns and the values the validators let through).
TypeOK ==
    /\ profile \in [Users -> Profiles]
    /\ prefs \in [Users -> Preferences \cup {Null}]
    /\ library \in [Users -> Libraries]
    /\ pc \in [Slots -> Places]
    /\ raced \in [Slots -> BOOLEAN]
    /\ arrived \in 0..MaxRequests

\* Usernames identify users (the unique index, which update_profile_metadata
\* relies on instead of looking).
UsernamesUnique ==
    \A u, v \in Users :
      u # v /\ profile[u].username = profile[v].username => profile[u].username = Null

\* The slots whose step from `place' ends the request.
Ending(place, u) == {s \in Slots : At(s, place) /\ pc'[s] = "idle" /\ User(s) = u}

\* PATCH and PUT change no field that they were not sent, unless another request
\* wrote the row between their SELECT and their write
\* (update_profile_metadata, update_preferences: "Merge the provided fields").
OnlySentFieldsChange ==
    [][/\ \A u \in Users : \A f \in {"username", "birth"} :
            profile'[u][f] # profile[u][f] =>
              \E s \in Ending("updateProfile", u) : f \in DOMAIN Sent(s) \/ raced[s]
       /\ \A u \in Users : \A f \in {"mode", "filter"} :
            prefs[u] # Null /\ prefs'[u] # prefs[u] /\ prefs'[u][f] # prefs[u][f] =>
              \E s \in Ending("upsertPrefs", u) : f \in DOMAIN Sent(s) \/ raced[s]]_vars

\* A birth date, once set, stays, unless two PATCHes of the user overlap.
BirthDateKept ==
    [][\A u \in Users :
         profile[u].birth # Null /\ profile'[u].birth # profile[u].birth =>
           \E s \in Ending("updateProfile", u) : raced[s]]_vars

\* Status and progress of an entry change only by PATCH, and its score is never
\* forgotten, however stale the entry that get_library or a second POST writes back.
EntriesSurviveRefresh ==
    [][\A u \in Users, m \in Mangas :
         LET old == library[u][m]
             new == library'[u][m]
         IN  old # Null /\ new # Null =>
               /\ old.score # Null => new.score # Null
               /\ \/ old.status = new.status /\ old.chapters = new.chapters
                  \/ \E s \in Slots : At(s, "updateEntry") /\ pc'[s] = "idle" /\ User(s) = u]_vars

\* An entry that is not in a library gets there by a POST of its user, or it comes
\* back by the write-back of get_library, after its user removed an entry between the
\* SELECT and the end of the calls to MangaDex (add_to_library upserts).
RemovedStaysRemoved ==
    [][\A u \in Users, m \in Mangas :
         library[u][m] = Null /\ library'[u][m] # Null =>
           \/ \E s \in Ending("upsertEntry", u) : req[s].manga = m
           \/ \E s \in Slots : At(s, "writeBack") /\ pc'[s] = "enrich"
                                /\ User(s) = u /\ raced[s]]_vars

\* The comment in update_profile_metadata: "Birth date immutability: once set, it
\* cannot be changed."  (Violated: the guard looks at a row read before the write.)
BirthDateImmutable ==
    [][\A u \in Users :
         profile[u].birth # Null => profile'[u].birth = profile[u].birth]_vars

\* The comment in add_to_library: "COALESCE in ON CONFLICT preserves stored data
\* when re-adding with no data."  (Violated: excluded.authors is '[]', not NULL.)
AuthorsPreserved ==
    [][\A u \in Users, m \in Mangas :
         LET old == library[u][m]
             new == library'[u][m]
         IN  old # Null /\ new # Null /\ old.authors = "named" => new.authors = "named"]_vars
=============================================================================
