--------------------------- MODULE UserDataProofs ----------------------------
(***************************************************************************)
(* Proofs about profiles, preferences and libraries, for any number of     *)
(* users, mangas and overlapping requests.  The inductive invariant says   *)
(* of each request what it holds where it stands: its user and payload,    *)
(* and a row that is still the stored one unless the request was raced.    *)
(***************************************************************************)
EXTENDS UserData, TLAPS

\* A PATCH holds a profile that admits its payload, the stored one unless raced.
ProfileHeld(s) ==
    /\ pc[s] \in {"selectProfile", "updateProfile"} =>
         req[s] \in [user : Users, sent : ProfilePatches]
    /\ At(s, "updateProfile") =>
         /\ seen[s] \in Profiles
         /\ ~BirthConflict(s, seen[s])
         /\ ~raced[s] => seen[s] = profile[User(s)]

\* A PUT holds the preferences that exist by then, the stored ones unless raced.
PrefsHeld(s) ==
    /\ pc[s] \in {"selectPrefs", "insertPrefs", "upsertPrefs"} =>
         req[s] \in [user : Users, sent : PrefsPatches \cup {Null}]
    /\ At(s, "upsertPrefs") =>
         /\ Sent(s) # Null
         /\ seen[s] \in Preferences
         /\ prefs[User(s)] # Null
         /\ ~raced[s] => seen[s] = prefs[User(s)]

\* The entries are in the library of the request's user.
InLibrary(s, entries) ==
    \A m \in Mangas : entries[m] # Null => library[User(s)][m] # Null

\* A library request holds metadata, or entries read some time ago, which are still
\* there unless raced.
LibraryHeld(s) ==
    /\ pc[s] \in {"selectEntries", "enrich", "writeBack"} => req[s] \in [user : Users]
    /\ pc[s] \in {"fetch", "upsertEntry", "deleteEntry"} =>
         req[s] \in [user : Users, manga : Mangas]
    /\ At(s, "updateEntry") =>
         req[s] \in [user : Users, manga : Mangas, sent : EntryPatches]
    /\ At(s, "upsertEntry") => seen[s] \in Metadata
    /\ At(s, "enrich") =>
         /\ seen[s] \in Libraries
         /\ ~raced[s] => InLibrary(s, seen[s])
    /\ At(s, "writeBack") =>
         /\ seen[s] \in [manga : Mangas, entry : Entry, rest : Libraries]
         /\ ~raced[s] => /\ library[User(s)][seen[s].manga] # Null
                         /\ InLibrary(s, seen[s].rest)

Held(s) == ProfileHeld(s) /\ PrefsHeld(s) /\ LibraryHeld(s)

RequestsOK ==
    /\ req = [s \in Slots |-> req[s]]
    /\ seen = [s \in Slots |-> seen[s]]

IInv ==
    /\ TypeOK
    /\ RequestsOK
    /\ UsernamesUnique
    /\ \A s \in Slots : Held(s)

-----------------------------------------------------------------------------
(* What Merge and Upserted return.                                         *)

\* Merging a payload into a profile gives a profile, and touches only what the
\* payload has.
LEMMA MergeProfile ==
    ASSUME NEW current \in Profiles, NEW p \in ProfilePatches
    PROVE  /\ Merge(p, current) \in Profiles
           /\ \A f \in {"username", "birth"} :
                Merge(p, current)[f] = IF f \in DOMAIN p THEN p[f] ELSE current[f]
<1>1. DOMAIN current = {"username", "birth"}
  BY DEF Profiles
<1>2. p["username"] \in Usernames \cup {Null} \/ "username" \notin DOMAIN p
  BY DEF ProfilePatches
<1>3. p["birth"] \in Births \cup {Null} \/ "birth" \notin DOMAIN p
  BY DEF ProfilePatches
<1>4. \A f \in {"username", "birth"} :
        Merge(p, current)[f] = IF f \in DOMAIN p THEN p[f] ELSE current[f]
  BY <1>1 DEF Merge
<1>5. /\ Merge(p, current)["username"] \in Usernames \cup {Null}
      /\ Merge(p, current)["birth"] \in Births \cup {Null}
  BY <1>2, <1>3, <1>4 DEF Profiles
<1>6. Merge(p, current) = [username |-> Merge(p, current)["username"],
                           birth |-> Merge(p, current)["birth"]]
  BY <1>1 DEF Merge
<1> QED BY <1>4, <1>5, <1>6 DEF Profiles

\* The same for preferences.
LEMMA MergePrefs ==
    ASSUME NEW current \in Preferences, NEW p \in PrefsPatches
    PROVE  /\ Merge(p, current) \in Preferences
           /\ \A f \in {"mode", "filter"} :
                Merge(p, current)[f] = IF f \in DOMAIN p THEN p[f] ELSE current[f]
<1>1. DOMAIN current = {"mode", "filter"}
  BY DEF Preferences
<1>2. p["mode"] \in Modes \/ "mode" \notin DOMAIN p
  BY DEF PrefsPatches
<1>3. p["filter"] \in Filters \cup {Null} \/ "filter" \notin DOMAIN p
  BY DEF PrefsPatches
<1>4. \A f \in {"mode", "filter"} :
        Merge(p, current)[f] = IF f \in DOMAIN p THEN p[f] ELSE current[f]
  BY <1>1 DEF Merge
<1>5. /\ Merge(p, current)["mode"] \in Modes
      /\ Merge(p, current)["filter"] \in Filters \cup {Null}
  BY <1>2, <1>3, <1>4 DEF Preferences
<1>6. Merge(p, current) = [mode |-> Merge(p, current)["mode"],
                           filter |-> Merge(p, current)["filter"]]
  BY <1>1 DEF Merge
<1> QED BY <1>4, <1>5, <1>6 DEF Preferences

\* The same for an entry, whose score no PATCH can touch.
LEMMA MergeEntry ==
    ASSUME NEW old \in Entry, NEW p \in EntryPatches
    PROVE  Merge(p, old) \in Entry /\ Merge(p, old).score = old.score
<1>1. DOMAIN old = {"status", "chapters", "score", "authors"}
  BY DEF Entry
<1>2. \/ DOMAIN p = {"status"} /\ p["status"] \in Statuses
      \/ DOMAIN p = {"chapters"} /\ p["chapters"] \in Chapters
  BY DEF EntryPatches
<1>3. /\ Merge(p, old)["status"] \in Statuses
      /\ Merge(p, old)["chapters"] \in Chapters
      /\ Merge(p, old)["score"] = old["score"]
      /\ Merge(p, old)["authors"] = old["authors"]
  BY <1>1, <1>2 DEF Merge, Entry
<1>4. Merge(p, old) = [status |-> Merge(p, old)["status"], chapters |-> Merge(p, old)["chapters"],
                       score |-> Merge(p, old)["score"], authors |-> Merge(p, old)["authors"]]
  BY <1>1 DEF Merge
<1> QED BY <1>3, <1>4 DEF Entry

\* The upsert gives an entry, keeps status and progress, and forgets no score.
LEMMA UpsertedEntry ==
    ASSUME NEW old \in Entry \cup {Null},
           NEW data, data.score \in {Null, "rated"}, data.authors \in {"empty", "named"}
    PROVE  /\ Upserted(old, data) \in Entry
           /\ old # Null => /\ Upserted(old, data).status = old.status
                            /\ Upserted(old, data).chapters = old.chapters
                            /\ old.score # Null => Upserted(old, data).score # Null
<1>1. CASE old = Null
  BY <1>1 DEF Upserted, Entry, Statuses, Chapters
<1>2. CASE old \in Entry /\ old # Null
  BY <1>2 DEF Upserted, Entry
<1> QED BY <1>1, <1>2

-----------------------------------------------------------------------------
(* The inductive invariant.                                                *)

\* Only slot s moves; `Elsewhere' is what the other requests see of that.
Elsewhere(s) ==
    /\ pc' \in [Slots -> Places]
    /\ RequestsOK'
    /\ raced' \in [Slots -> BOOLEAN]
    /\ \A t \in Slots \ {s} : pc'[t] = pc[t] /\ req'[t] = req[t] /\ seen'[t] = seen[t]

LEMMA ProceedElsewhere ==
    ASSUME TypeOK, RequestsOK, NEW s \in Slots, NEW place \in Places, NEW data,
           Proceed(s, place, data)
    PROVE  /\ Elsewhere(s)
           /\ pc'[s] = place /\ seen'[s] = data /\ req'[s] = req[s]
           /\ raced' = raced /\ arrived' \in 0..MaxRequests
BY DEF TypeOK, RequestsOK, Proceed, Elsewhere

LEMMA PlainElsewhere ==
    ASSUME TypeOK, RequestsOK, NEW s \in Slots, AnswerPlain(s)
    PROVE  /\ Elsewhere(s)
           /\ pc'[s] = "idle"
           /\ \A t \in Slots \ {s} : raced'[t] = raced[t]
           /\ arrived' \in 0..MaxRequests
BY DEF TypeOK, RequestsOK, AnswerPlain, Answer, Elsewhere, Places

LEMMA WrittenElsewhere ==
    ASSUME TypeOK, RequestsOK, NEW s \in Slots, NEW places, AnswerWritten(s, places)
    PROVE  /\ Elsewhere(s)
           /\ pc'[s] = "idle"
           /\ \A t \in Slots \ {s} :
                raced'[t] = (raced[t] \/ (pc[t] \in places /\ User(t) = User(s)))
           /\ arrived' \in 0..MaxRequests
<1> USE DEF TypeOK, RequestsOK, AnswerWritten, Answer, Places
<1>1. pc' \in [Slots -> Places] /\ pc'[s] = "idle" /\ arrived' \in 0..MaxRequests
  OBVIOUS
<1>2. RequestsOK'
  OBVIOUS
<1>3. \A t \in Slots : raced'[t] = (t # s /\ (raced[t] \/ (pc[t] \in places /\ User(t) = User(s))))
  BY Zenon
<1>4. raced' \in [Slots -> BOOLEAN]
  <2>1. raced' = [t \in Slots |-> t # s /\ (raced[t] \/ (pc[t] \in places /\ User(t) = User(s)))]
    OBVIOUS
  <2>2. \A t \in Slots : (t # s /\ (raced[t] \/ (pc[t] \in places /\ User(t) = User(s)))) \in BOOLEAN
    OBVIOUS
  <2> QED BY <2>1, <2>2, Zenon
<1>5. \A t \in Slots \ {s} : pc'[t] = pc[t] /\ req'[t] = req[t] /\ seen'[t] = seen[t]
  OBVIOUS
<1> QED BY <1>1, <1>2, <1>3, <1>4, <1>5 DEF Elsewhere

\* No entry is removed.
KeepsEntries ==
    \A u \in Users, m \in Mangas : library[u][m] # Null => library'[u][m] # Null

\* What a request holds outlasts a step of another that leaves its tables alone.
LEMMA HeldElsewhere ==
    ASSUME NEW s \in Slots, NEW t \in Slots \ {s}, Elsewhere(s), Held(t),
           raced'[t] = raced[t]
    PROVE  /\ profile' = profile => ProfileHeld(t)'
           /\ prefs' = prefs => PrefsHeld(t)'
<1>1. /\ pc'[t] = pc[t] /\ req'[t] = req[t] /\ seen'[t] = seen[t]
      /\ ProfileHeld(t) /\ PrefsHeld(t)
  BY DEF Elsewhere, Held
<1>2. profile' = profile => ProfileHeld(t)'
  BY <1>1 DEF ProfileHeld, At, User, Sent, BirthConflict
<1>3. prefs' = prefs => PrefsHeld(t)'
  BY <1>1 DEF PrefsHeld, At, User, Sent
<1> QED BY <1>2, <1>3

\* The same for entries, which others may write but not remove.
LEMMA LibraryHeldElsewhere ==
    ASSUME NEW s \in Slots, NEW t \in Slots \ {s}, Elsewhere(s), Held(t),
           raced[t] => raced'[t], KeepsEntries \/ raced'[t]
    PROVE  LibraryHeld(t)'
<1>1. /\ pc'[t] = pc[t] /\ req'[t] = req[t] /\ seen'[t] = seen[t] /\ LibraryHeld(t)
  BY DEF Elsewhere, Held
<1>2. pc[t] \in {"enrich", "writeBack"} => User(t) \in Users
  BY <1>1 DEF LibraryHeld, User
<1>3. At(t, "enrich") /\ ~raced'[t] => InLibrary(t, seen[t])'
  BY <1>1, <1>2 DEF LibraryHeld, InLibrary, KeepsEntries, At, User
<1>4. At(t, "writeBack") /\ ~raced'[t] =>
        library'[User(t)][seen[t].manga] # Null /\ InLibrary(t, seen[t].rest)'
  BY <1>1, <1>2 DEF LibraryHeld, InLibrary, KeepsEntries, At, User
<1>5. User(t)' = User(t)
  BY <1>1 DEF User
<1> QED BY <1>1, <1>3, <1>4, <1>5 DEF LibraryHeld, At

\* A step that leaves profiles and preferences alone needs only its own slot's due.
LEMMA QuietStep ==
    ASSUME IInv, NEW s \in Slots, Elsewhere(s), profile' = profile, prefs' = prefs,
           \A t \in Slots \ {s} : raced'[t] = raced[t],
           library' \in [Users -> Libraries], KeepsEntries, arrived' \in 0..MaxRequests,
           Held(s)'
    PROVE  IInv'
<1>1. \A t \in Slots : Held(t)'
  BY HeldElsewhere, LibraryHeldElsewhere DEF IInv, Held
<1> QED BY <1>1 DEF IInv, TypeOK, Elsewhere, UsernamesUnique

\* An idle request holds nothing.
LEMMA IdleHolds == ASSUME NEW s \in Slots, pc'[s] = "idle" PROVE Held(s)'
BY DEF Held, ProfileHeld, PrefsHeld, LibraryHeld, At

LEMMA PlainStep ==
    ASSUME IInv, NEW s \in Slots, AnswerPlain(s), profile' = profile, prefs' = prefs,
           library' \in [Users -> Libraries], KeepsEntries
    PROVE  IInv'
BY PlainElsewhere, IdleHolds, QuietStep DEF IInv

LEMMA InitInv == Init => IInv
<1> SUFFICES ASSUME Init PROVE IInv
  OBVIOUS
<1>1. TypeOK
  BY UserDataAssumption DEF Init, TypeOK, Profiles, Libraries, NoEntries, Places
<1>2. RequestsOK /\ UsernamesUnique
  BY DEF Init, RequestsOK, UsernamesUnique
<1>3. \A s \in Slots : Held(s)
  BY DEF Init, Held, ProfileHeld, PrefsHeld, LibraryHeld, At
<1> QED BY <1>1, <1>2, <1>3 DEF IInv

LEMMA ReceiveStep == ASSUME IInv, NEW s \in Slots, Receive(s) PROVE IInv'
<1>1. ASSUME NEW kind, NEW place \in Places, NEW r, Accept(s, kind, place, r)
      PROVE  /\ Elsewhere(s) /\ pc'[s] = place /\ req'[s] = r
             /\ profile' = profile /\ prefs' = prefs /\ raced' = raced
             /\ library' \in [Users -> Libraries] /\ KeepsEntries
             /\ arrived' \in 0..MaxRequests
  BY <1>1, UserDataAssumption DEF Accept, KeepsEntries, IInv, TypeOK, RequestsOK, Elsewhere
<1> USE DEF Held, ProfileHeld, PrefsHeld, LibraryHeld, At
<1>2. PICK u \in Users :
      \/ \E p \in ProfilePatches :
           Accept(s, "patchMe", "selectProfile", [user |-> u, sent |-> p])
      \/ Accept(s, "getPrefs", "selectPrefs", [user |-> u, sent |-> Null])
      \/ \E p \in PrefsPatches :
           Accept(s, "putPrefs", "selectPrefs", [user |-> u, sent |-> p])
      \/ Accept(s, "getLibrary", "selectEntries", [user |-> u])
      \/ \E m \in Mangas :
           \/ Accept(s, "post", "fetch", [user |-> u, manga |-> m])
           \/ Accept(s, "remove", "deleteEntry", [user |-> u, manga |-> m])
           \/ \E p \in EntryPatches :
                Accept(s, "patchEntry", "updateEntry", [user |-> u, manga |-> m, sent |-> p])
  BY DEF Receive
<1>3. ASSUME NEW p \in ProfilePatches,
             Accept(s, "patchMe", "selectProfile", [user |-> u, sent |-> p])
      PROVE  IInv'
  <2>2. pc'[s] = "selectProfile" /\ req'[s] = [user |-> u, sent |-> p]
    BY <1>1, <1>3 DEF Places
  <2>1. Held(s)'
    BY <2>2
  <2> QED BY <1>1, <1>3, <2>1, QuietStep DEF Places
<1>4. ASSUME NEW kind, NEW p \in PrefsPatches \cup {Null},
             Accept(s, kind, "selectPrefs", [user |-> u, sent |-> p])
      PROVE  IInv'
  <2>2. pc'[s] = "selectPrefs" /\ req'[s] = [user |-> u, sent |-> p]
    BY <1>1, <1>4 DEF Places
  <2>1. Held(s)'
    BY <2>2
  <2> QED BY <1>1, <1>4, <2>1, QuietStep DEF Places
<1>5. CASE Accept(s, "getLibrary", "selectEntries", [user |-> u])
  <2>2. pc'[s] = "selectEntries" /\ req'[s] = [user |-> u]
    BY <1>1, <1>5 DEF Places
  <2>1. Held(s)'
    BY <2>2
  <2> QED BY <1>1, <1>5, <2>1, QuietStep DEF Places
<1>6. ASSUME NEW m \in Mangas, NEW kind, NEW place \in {"fetch", "deleteEntry"},
             Accept(s, kind, place, [user |-> u, manga |-> m])
      PROVE  IInv'
  <2>1. place \in Places
    BY DEF Places
  <2>3. pc'[s] = place /\ req'[s] = [user |-> u, manga |-> m]
    BY <1>1, <1>6, <2>1
  <2>2. Held(s)'
    BY <2>3
  <2> QED BY <1>1, <1>6, <2>1, <2>2, QuietStep
<1>7. ASSUME NEW m \in Mangas, NEW p \in EntryPatches,
             Accept(s, "patchEntry", "updateEntry", [user |-> u, manga |-> m, sent |-> p])
      PROVE  IInv'
  <2>2. pc'[s] = "updateEntry" /\ req'[s] = [user |-> u, manga |-> m, sent |-> p]
    BY <1>1, <1>7 DEF Places
  <2>1. Held(s)'
    BY <2>2
  <2> QED BY <1>1, <1>7, <2>1, QuietStep DEF Places
<1> QED BY <1>2, <1>3, <1>4, <1>5, <1>6, <1>7

\* A request that goes on without touching a table.
LEMMA ProceedStep ==
    ASSUME IInv, NEW s \in Slots, NEW place \in Places, NEW data,
           Proceed(s, place, data), UNCHANGED tables, Held(s)'
    PROVE  IInv'
BY ProceedElsewhere, QuietStep DEF IInv, TypeOK, KeepsEntries, tables

LEMMA SelectProfileStep == ASSUME IInv, NEW s \in Slots, SelectProfile(s) PROVE IInv'
<1>1. CASE BirthConflict(s, profile[User(s)]) /\ AnswerPlain(s)
  BY <1>1, PlainStep DEF SelectProfile, KeepsEntries, tables, IInv, TypeOK
<1>2. CASE ~BirthConflict(s, profile[User(s)]) /\ Proceed(s, "updateProfile", profile[User(s)])
  <2>1. At(s, "selectProfile") /\ UNCHANGED tables
    BY DEF SelectProfile
  <2>2. /\ pc'[s] = "updateProfile" /\ req'[s] = req[s] /\ seen'[s] = profile[User(s)]
        /\ raced' = raced /\ profile' = profile
    BY <1>2, <2>1, ProceedElsewhere DEF IInv, Places, tables
  <2>3. req[s] \in [user : Users, sent : ProfilePatches]
    BY <2>1 DEF IInv, Held, ProfileHeld, At
  <2>4. profile[User(s)] \in Profiles
    BY <2>3 DEF IInv, TypeOK, User
  <2>5. Held(s)'
    BY <1>2, <2>2, <2>3, <2>4
       DEF Held, ProfileHeld, PrefsHeld, LibraryHeld, At, User, Sent, BirthConflict
  <2> QED BY <1>2, <2>1, <2>5, ProceedStep DEF Places
<1> QED BY <1>1, <1>2 DEF SelectProfile

\* The UPDATE: the row is a profile, its username is nobody else's, and whoever
\* else holds the user's row knows that it is stale.
LEMMA UpdateProfileStep == ASSUME IInv, NEW s \in Slots, UpdateProfile(s) PROVE IInv'
<1> DEFINE new == Merge(Sent(s), seen[s])
           u == User(s)
<1>1. /\ At(s, "updateProfile") /\ prefs' = prefs /\ library' = library
      /\ req[s] \in [user : Users, sent : ProfilePatches] /\ u \in Users
      /\ seen[s] \in Profiles
  BY DEF UpdateProfile, IInv, Held, ProfileHeld, At, User
<1>2. new \in Profiles
  BY <1>1, MergeProfile DEF Sent
<1>3. CASE UsernameTaken(u, new.username) /\ AnswerPlain(s) /\ UNCHANGED profile
  BY <1>1, <1>3, PlainStep DEF KeepsEntries, IInv, TypeOK
<1>4. CASE /\ ~UsernameTaken(u, new.username)
           /\ profile' = [profile EXCEPT ![u] = new]
           /\ AnswerWritten(s, {"updateProfile"})
  <2>1. /\ Elsewhere(s) /\ pc'[s] = "idle" /\ arrived' \in 0..MaxRequests
        /\ \A t \in Slots \ {s} :
             raced'[t] = (raced[t] \/ (At(t, "updateProfile") /\ User(t) = User(s)))
    BY <1>4, WrittenElsewhere DEF IInv, At
  <2>2. profile' \in [Users -> Profiles]
    BY <1>1, <1>2, <1>4 DEF IInv, TypeOK
  <2>3. TypeOK' /\ RequestsOK'
    BY <1>1, <2>1, <2>2 DEF IInv, TypeOK, Elsewhere
  <2>4. UsernamesUnique'
    <3> SUFFICES ASSUME NEW v \in Users, NEW w \in Users, v # w,
                        profile'[v].username = profile'[w].username
                 PROVE  profile'[v].username = Null
      BY DEF UsernamesUnique
    <3>1. \A x \in Users : profile'[x] = IF x = u THEN new ELSE profile[x]
      BY <1>1, <1>4 DEF IInv, TypeOK
    <3>2. CASE v = u
      BY <1>4, <3>1, <3>2 DEF UsernameTaken
    <3>3. CASE w = u
      BY <1>4, <3>1, <3>3 DEF UsernameTaken
    <3>4. CASE v # u /\ w # u
      BY <3>1, <3>4 DEF IInv, UsernamesUnique
    <3> QED BY <3>2, <3>3, <3>4
  <2>5. ASSUME NEW t \in Slots \ {s} PROVE Held(t)'
    <3>1. LibraryHeld(t)'
      BY <1>1, <2>1, LibraryHeldElsewhere DEF IInv, KeepsEntries
    <3>2. PrefsHeld(t)'
      <4>1. At(t, "upsertPrefs") => raced'[t] = raced[t]
        BY <2>1 DEF At, IInv, TypeOK
      <4> QED BY <1>1, <2>1, <4>1 DEF IInv, Held, PrefsHeld, Elsewhere, At, User, Sent
    <3>3. ProfileHeld(t)'
      <4>1. /\ pc'[t] = pc[t] /\ req'[t] = req[t] /\ seen'[t] = seen[t] /\ ProfileHeld(t)
        BY <2>1 DEF Elsewhere, IInv, Held
      <4>2. ASSUME At(t, "updateProfile"), ~raced'[t] PROVE seen[t] = profile'[User(t)]
        <5>1. ~raced[t] /\ User(t) # u
          BY <2>1, <4>2
        <5>2. User(t) \in Users
          BY <4>1, <4>2 DEF ProfileHeld, At, User
        <5>3. profile'[User(t)] = profile[User(t)]
          BY <1>4, <5>1, <5>2 DEF IInv, TypeOK
        <5> QED BY <4>1, <4>2, <5>1, <5>3 DEF ProfileHeld
      <4> QED BY <4>1, <4>2 DEF ProfileHeld, At, User, Sent, BirthConflict
    <3> QED BY <3>1, <3>2, <3>3 DEF Held
  <2>6. Held(s)'
    BY <2>1, IdleHolds
  <2> QED BY <2>3, <2>4, <2>5, <2>6 DEF IInv
<1> QED BY <1>3, <1>4 DEF UpdateProfile

\* get_preferences returns the stored row, to a PUT that will merge into it.
LEMMA AfterPrefsStep ==
    ASSUME IInv, NEW s \in Slots, pc[s] \in {"selectPrefs", "insertPrefs"},
           NEW row \in Preferences, prefs'[User(s)] = row, row # Null,
           AfterPrefs(s, row)
    PROVE  /\ Elsewhere(s) /\ Held(s)'
           /\ \A t \in Slots \ {s} : raced'[t] = raced[t]
           /\ arrived' \in 0..MaxRequests
<1>1. CASE Sent(s) = Null /\ AnswerPlain(s)
  BY <1>1, PlainElsewhere, IdleHolds DEF IInv
<1>2. CASE Sent(s) # Null /\ Proceed(s, "upsertPrefs", row)
  <2>1. /\ Elsewhere(s) /\ pc'[s] = "upsertPrefs" /\ seen'[s] = row
        /\ req'[s] = req[s] /\ raced' = raced /\ arrived' \in 0..MaxRequests
    BY <1>2, ProceedElsewhere DEF IInv, Places
  <2>2. req[s] \in [user : Users, sent : PrefsPatches \cup {Null}]
    BY DEF IInv, Held, PrefsHeld
  <2>3. User(s)' = User(s)
    BY <2>1 DEF User
  <2>4. prefs'[User(s)'] = row
    BY <2>3
  <2>5. Held(s)'
    BY <1>2, <2>1, <2>2, <2>4 DEF Held, ProfileHeld, PrefsHeld, LibraryHeld, At, User, Sent
  <2> QED BY <2>1, <2>5
<1> QED BY <1>1, <1>2 DEF AfterPrefs

LEMMA SelectPrefsStep == ASSUME IInv, NEW s \in Slots, SelectPrefs(s) PROVE IInv'
<1>1. /\ At(s, "selectPrefs") /\ UNCHANGED tables
      /\ req[s] \in [user : Users, sent : PrefsPatches \cup {Null}] /\ User(s) \in Users
  BY DEF SelectPrefs, IInv, Held, PrefsHeld, At, User
<1>2. CASE prefs[User(s)] # Null /\ AfterPrefs(s, prefs[User(s)])
  <2>1. prefs[User(s)] \in Preferences
    BY <1>1, <1>2 DEF IInv, TypeOK
  <2> QED BY <1>1, <1>2, <2>1, AfterPrefsStep, QuietStep DEF At, KeepsEntries, tables, IInv, TypeOK
<1>3. CASE Proceed(s, "insertPrefs", Null)
  <2>1. pc'[s] = "insertPrefs" /\ req'[s] = req[s]
    BY <1>3, ProceedElsewhere DEF IInv, Places
  <2>2. Held(s)'
    BY <1>1, <2>1 DEF Held, ProfileHeld, PrefsHeld, LibraryHeld, At
  <2> QED BY <1>1, <1>3, <2>2, ProceedStep DEF Places
<1> QED BY <1>2, <1>3 DEF SelectPrefs

\* The INSERT makes a row only where there is none, so nobody's view goes stale.
LEMMA InsertPrefsStep == ASSUME IInv, NEW s \in Slots, InsertPrefs(s) PROVE IInv'
<1> DEFINE u == User(s)
           default == [mode |-> DefaultMode, filter |-> Null]
<1>1. /\ At(s, "insertPrefs") /\ profile' = profile /\ library' = library
      /\ req[s] \in [user : Users, sent : PrefsPatches \cup {Null}] /\ u \in Users
  BY DEF InsertPrefs, IInv, Held, PrefsHeld, At, User
<1>2. default \in Preferences /\ \A row \in Preferences : row # Null
  BY UserDataAssumption DEF Preferences
<1>3. CASE prefs[u] # Null /\ AfterPrefs(s, prefs[u]) /\ UNCHANGED prefs
  <2>1. prefs[u] \in Preferences
    BY <1>1, <1>3 DEF IInv, TypeOK
  <2> QED BY <1>1, <1>3, <2>1, AfterPrefsStep, QuietStep DEF At, KeepsEntries, IInv, TypeOK
<1>4. CASE prefs[u] = Null /\ prefs' = [prefs EXCEPT ![u] = default] /\ AfterPrefs(s, default)
  <2>1. prefs' \in [Users -> Preferences \cup {Null}] /\ prefs'[u] = default
    BY <1>1, <1>2, <1>4 DEF IInv, TypeOK
  <2>2. /\ Elsewhere(s) /\ Held(s)'
        /\ \A t \in Slots \ {s} : raced'[t] = raced[t]
        /\ arrived' \in 0..MaxRequests
    BY <1>1, <1>2, <1>4, <2>1, AfterPrefsStep DEF At
  <2>3. ASSUME NEW t \in Slots \ {s} PROVE Held(t)'
    <3>1. ProfileHeld(t)' /\ LibraryHeld(t)'
      BY <1>1, <2>2, HeldElsewhere, LibraryHeldElsewhere DEF IInv, KeepsEntries
    <3>2. PrefsHeld(t) /\ pc'[t] = pc[t] /\ req'[t] = req[t] /\ seen'[t] = seen[t]
          /\ raced'[t] = raced[t]
      BY <2>2 DEF Elsewhere, IInv, Held
    <3>3. ASSUME At(t, "upsertPrefs") PROVE prefs'[User(t)] = prefs[User(t)]
      <4>1. User(t) \in Users /\ prefs[User(t)] # Null
        BY <3>2, <3>3 DEF PrefsHeld, At, User
      <4> QED BY <1>4, <4>1 DEF IInv, TypeOK
    <3>4. PrefsHeld(t)'
      BY <3>2, <3>3 DEF PrefsHeld, At, User, Sent
    <3> QED BY <3>1, <3>4 DEF Held
  <2>4. TypeOK' /\ RequestsOK' /\ UsernamesUnique'
    BY <1>1, <2>1, <2>2 DEF IInv, TypeOK, Elsewhere, UsernamesUnique
  <2> QED BY <2>2, <2>3, <2>4 DEF IInv
<1> QED BY <1>3, <1>4 DEF InsertPrefs

\* The upsert makes stale what every other PUT of the user holds, and marks it.
LEMMA UpsertPrefsStep == ASSUME IInv, NEW s \in Slots, UpsertPrefs(s) PROVE IInv'
<1> DEFINE u == User(s)
           new == Merge(Sent(s), seen[s])
<1>1. /\ At(s, "upsertPrefs") /\ profile' = profile /\ library' = library
      /\ req[s] \in [user : Users, sent : PrefsPatches \cup {Null}] /\ u \in Users
      /\ Sent(s) \in PrefsPatches /\ seen[s] \in Preferences
      /\ prefs' = [prefs EXCEPT ![u] = new]
      /\ AnswerWritten(s, {"upsertPrefs"})
  BY DEF UpsertPrefs, IInv, Held, PrefsHeld, At, User, Sent
<1>2. new \in Preferences /\ new # Null
  BY <1>1, MergePrefs, UserDataAssumption
<1>3. /\ Elsewhere(s) /\ pc'[s] = "idle" /\ arrived' \in 0..MaxRequests
      /\ \A t \in Slots \ {s} :
           raced'[t] = (raced[t] \/ (At(t, "upsertPrefs") /\ User(t) = User(s)))
  BY <1>1, WrittenElsewhere DEF IInv, At
<1>4. prefs' \in [Users -> Preferences \cup {Null}]
  BY <1>1, <1>2 DEF IInv, TypeOK
<1>5. TypeOK' /\ RequestsOK' /\ UsernamesUnique'
  BY <1>1, <1>3, <1>4 DEF IInv, TypeOK, Elsewhere, UsernamesUnique
<1>6. ASSUME NEW t \in Slots \ {s} PROVE Held(t)'
  <2>1. LibraryHeld(t)'
    BY <1>1, <1>3, LibraryHeldElsewhere DEF IInv, KeepsEntries
  <2>2. ProfileHeld(t)'
    <3>1. At(t, "updateProfile") => raced'[t] = raced[t]
      BY <1>3 DEF At, IInv, TypeOK
    <3> QED BY <1>1, <1>3, <3>1
            DEF IInv, Held, ProfileHeld, Elsewhere, At, User, Sent, BirthConflict
  <2>3. /\ PrefsHeld(t) /\ pc'[t] = pc[t] /\ req'[t] = req[t] /\ seen'[t] = seen[t]
    BY <1>3 DEF Elsewhere, IInv, Held
  <2>4. ASSUME At(t, "upsertPrefs")
        PROVE  /\ prefs'[User(t)] # Null
               /\ ~raced'[t] => seen[t] = prefs'[User(t)]
    <3>1. User(t) \in Users /\ prefs[User(t)] # Null
      BY <2>3, <2>4 DEF PrefsHeld, At, User
    <3>2. prefs'[User(t)] = IF User(t) = u THEN new ELSE prefs[User(t)]
      BY <1>1, <3>1 DEF IInv, TypeOK
    <3>3. ~raced'[t] => ~raced[t] /\ User(t) # u
      BY <1>3, <2>4
    <3> QED BY <1>2, <2>3, <2>4, <3>1, <3>2, <3>3 DEF PrefsHeld
  <2>5. PrefsHeld(t)'
    BY <2>3, <2>4 DEF PrefsHeld, At, User, Sent
  <2> QED BY <2>1, <2>2, <2>5 DEF Held
<1>7. Held(s)'
  BY <1>3, IdleHolds
<1> QED BY <1>5, <1>6, <1>7 DEF IInv

LEMMA EntryNotNull == \A row \in Entry : row # Null
BY UserDataAssumption

\* Writing one entry keeps the libraries.
LEMMA PutType ==
    ASSUME IInv, NEW u \in Users, NEW m \in Mangas, NEW row \in Entry \cup {Null},
           Put(u, m, row)
    PROVE  /\ library' \in [Users -> Libraries]
           /\ library'[u][m] = row
           /\ \A v \in Users, n \in Mangas :
                v # u \/ n # m => library'[v][n] = library[v][n]
           /\ row # Null => KeepsEntries
BY DEF IInv, TypeOK, Libraries, Put, KeepsEntries

LEMMA FetchStep == ASSUME IInv, NEW s \in Slots, Fetch(s) PROVE IInv'
<1>1. At(s, "fetch") /\ UNCHANGED tables /\ req[s] \in [user : Users, manga : Mangas]
  BY DEF Fetch, IInv, Held, LibraryHeld, At
<1>2. ASSUME NEW data \in Metadata, Proceed(s, "upsertEntry", data) PROVE IInv'
  <2>1. pc'[s] = "upsertEntry" /\ req'[s] = req[s] /\ seen'[s] = data
    BY <1>2, ProceedElsewhere DEF IInv, Places
  <2>2. Held(s)'
    BY <1>1, <2>1 DEF Held, ProfileHeld, PrefsHeld, LibraryHeld, At
  <2> QED BY <1>1, <1>2, <2>2, ProceedStep DEF Places
<1>3. CASE AnswerPlain(s)
  BY <1>1, <1>3, PlainStep DEF KeepsEntries, tables, IInv, TypeOK
<1> QED BY <1>2, <1>3 DEF Fetch

\* What the upserts write, with fetched metadata or an entry read before.
LEMMA UpsertEntryPuts ==
    ASSUME IInv, NEW s \in Slots, UpsertEntry(s)
    PROVE  LET u == User(s)
               m == req[s].manga
           IN  /\ u \in Users /\ m \in Mangas
               /\ library[u][m] \in Entry \cup {Null}
               /\ seen[s].score \in {Null, "rated"} /\ seen[s].authors \in {"empty", "named"}
               /\ Put(u, m, Upserted(library[u][m], seen[s]))
BY DEF UpsertEntry, IInv, Held, LibraryHeld, At, User, Metadata, TypeOK, Libraries

LEMMA WriteBackPuts ==
    ASSUME IInv, NEW s \in Slots, WriteBack(s)
    PROVE  LET u == User(s)
               m == seen[s].manga
           IN  /\ u \in Users /\ m \in Mangas
               /\ library[u][m] \in Entry \cup {Null}
               /\ seen[s].entry.score \in {Null, "rated"}
               /\ seen[s].entry.authors \in {"empty", "named"}
               /\ Put(u, m, Upserted(library[u][m], seen[s].entry))
BY DEF WriteBack, IInv, Held, LibraryHeld, At, User, Entry, TypeOK, Libraries

LEMMA UpsertEntryStep == ASSUME IInv, NEW s \in Slots, UpsertEntry(s) PROVE IInv'
<1>1. library' \in [Users -> Libraries] /\ KeepsEntries
  BY UpsertEntryPuts, UpsertedEntry, PutType, EntryNotNull
<1> QED BY <1>1, PlainStep DEF UpsertEntry

LEMMA SelectEntriesStep == ASSUME IInv, NEW s \in Slots, SelectEntries(s) PROVE IInv'
<1>1. /\ At(s, "selectEntries") /\ UNCHANGED tables /\ req[s] \in [user : Users]
      /\ Proceed(s, "enrich", library[User(s)])
  BY DEF SelectEntries, IInv, Held, LibraryHeld, At
<1>2. library[User(s)] \in Libraries
  BY <1>1 DEF IInv, TypeOK, User
<1>3. pc'[s] = "enrich" /\ req'[s] = req[s] /\ seen'[s] = library[User(s)]
  BY <1>1, ProceedElsewhere DEF IInv, Places
<1>4. InLibrary(s, seen[s])'
  BY <1>1, <1>3 DEF InLibrary, User, tables
<1>5. Held(s)'
  BY <1>1, <1>2, <1>3, <1>4 DEF Held, ProfileHeld, PrefsHeld, LibraryHeld, At
<1> QED BY <1>1, <1>5, ProceedStep DEF Places

LEMMA EnrichStep == ASSUME IInv, NEW s \in Slots, Enrich(s) PROVE IInv'
<1>1. /\ At(s, "enrich") /\ UNCHANGED tables
      /\ req[s] \in [user : Users] /\ seen[s] \in Libraries
      /\ ~raced[s] => InLibrary(s, seen[s])
  BY DEF Enrich, IInv, Held, LibraryHeld, At
<1>2. PICK m \in ToEnrich(seen[s]) :
        \/ Proceed(s, "enrich", [seen[s] EXCEPT ![m] = Null])
        \/ \E data \in Metadata :
             Proceed(s, "writeBack", [manga |-> m,
                                      entry |-> Enriched(seen[s][m], data),
                                      rest |-> [seen[s] EXCEPT ![m] = Null]])
        \/ AnswerPlain(s)
  BY DEF Enrich
<1>3. m \in Mangas /\ seen[s][m] \in Entry /\ seen[s][m] # Null
  BY <1>1 DEF ToEnrich, Libraries
<1>4. [seen[s] EXCEPT ![m] = Null] \in Libraries
  BY <1>1, <1>3 DEF Libraries
<1>5. ~raced[s] => InLibrary(s, [seen[s] EXCEPT ![m] = Null])
  BY <1>1, <1>3 DEF InLibrary, Libraries
<1>6. ~raced[s] => library[User(s)][m] # Null
  BY <1>1, <1>3 DEF InLibrary
<1>7. CASE Proceed(s, "enrich", [seen[s] EXCEPT ![m] = Null])
  <2>1. /\ pc'[s] = "enrich" /\ req'[s] = req[s] /\ seen'[s] = [seen[s] EXCEPT ![m] = Null]
        /\ raced' = raced
    BY <1>7, ProceedElsewhere DEF IInv, Places
  <2>2. ~raced'[s] => InLibrary(s, seen[s])'
    BY <1>1, <1>5, <2>1 DEF InLibrary, User, tables
  <2>3. Held(s)'
    BY <1>1, <1>4, <2>1, <2>2 DEF Held, ProfileHeld, PrefsHeld, LibraryHeld, At
  <2> QED BY <1>1, <1>7, <2>3, ProceedStep DEF Places
<1>8. ASSUME NEW data \in Metadata,
             Proceed(s, "writeBack", [manga |-> m, entry |-> Enriched(seen[s][m], data),
                                      rest |-> [seen[s] EXCEPT ![m] = Null]])
      PROVE  IInv'
  <2>1. Enriched(seen[s][m], data) \in Entry
    BY <1>3 DEF Enriched, Entry, Metadata
  <2>2. /\ pc'[s] = "writeBack" /\ req'[s] = req[s]
        /\ seen'[s] = [manga |-> m, entry |-> Enriched(seen[s][m], data),
                       rest |-> [seen[s] EXCEPT ![m] = Null]]
        /\ raced' = raced
    BY <1>8, ProceedElsewhere DEF IInv, Places
  <2>3. seen'[s] \in [manga : Mangas, entry : Entry, rest : Libraries]
    BY <1>3, <1>4, <2>1, <2>2
  <2>4. ~raced'[s] => library'[User(s)'][seen'[s].manga] # Null
    BY <1>1, <1>6, <2>2 DEF User, tables
  <2>5. ~raced'[s] => InLibrary(s, seen[s].rest)'
    BY <1>1, <1>5, <2>2 DEF InLibrary, User, tables
  <2>6. Held(s)'
    BY <1>1, <2>2, <2>3, <2>4, <2>5 DEF Held, ProfileHeld, PrefsHeld, LibraryHeld, At
  <2> QED BY <1>1, <1>8, <2>6, ProceedStep DEF Places
<1>9. CASE AnswerPlain(s)
  BY <1>1, <1>9, PlainStep DEF KeepsEntries, tables, IInv, TypeOK
<1> QED BY <1>2, <1>7, <1>8, <1>9

LEMMA WriteBackStep == ASSUME IInv, NEW s \in Slots, WriteBack(s) PROVE IInv'
<1>1. library' \in [Users -> Libraries] /\ KeepsEntries
  BY WriteBackPuts, UpsertedEntry, PutType, EntryNotNull
<1>2. /\ At(s, "writeBack") /\ req[s] \in [user : Users] /\ seen[s].rest \in Libraries
      /\ Proceed(s, "enrich", seen[s].rest)
      /\ profile' = profile /\ prefs' = prefs
      /\ ~raced[s] => InLibrary(s, seen[s].rest)
  BY DEF WriteBack, IInv, Held, LibraryHeld, At
<1>3. /\ Elsewhere(s) /\ raced' = raced /\ arrived' \in 0..MaxRequests
      /\ pc'[s] = "enrich" /\ req'[s] = req[s] /\ seen'[s] = seen[s].rest
  BY <1>2, ProceedElsewhere DEF IInv, Places
<1>4. ~raced'[s] => InLibrary(s, seen[s])'
  BY <1>1, <1>2, <1>3 DEF InLibrary, KeepsEntries, User
<1>5. Held(s)'
  BY <1>2, <1>3, <1>4 DEF Held, ProfileHeld, PrefsHeld, LibraryHeld, At
<1> QED BY <1>1, <1>2, <1>3, <1>5, QuietStep

\* The row that a PATCH or a DELETE of an entry leaves.
LEMMA UpdateEntryPuts ==
    ASSUME IInv, NEW s \in Slots, UpdateEntry(s)
    PROVE  \/ library' = library
           \/ LET u == User(s)
                  m == req[s].manga
              IN  /\ u \in Users /\ m \in Mangas
                  /\ library[u][m] \in Entry /\ Sent(s) \in EntryPatches
                  /\ Put(u, m, Merge(Sent(s), library[u][m]))
BY DEF UpdateEntry, IInv, Held, LibraryHeld, At, User, Sent, TypeOK, Libraries

LEMMA DeleteEntryPuts ==
    ASSUME IInv, NEW s \in Slots, DeleteEntry(s)
    PROVE  User(s) \in Users /\ req[s].manga \in Mangas /\ Put(User(s), req[s].manga, Null)
BY DEF DeleteEntry, IInv, Held, LibraryHeld, At, User

LEMMA UpdateEntryStep == ASSUME IInv, NEW s \in Slots, UpdateEntry(s) PROVE IInv'
<1>1. library' \in [Users -> Libraries] /\ KeepsEntries
  BY UpdateEntryPuts, MergeEntry, PutType, EntryNotNull DEF IInv, TypeOK, KeepsEntries
<1> QED BY <1>1, PlainStep DEF UpdateEntry

\* The DELETE marks every GET of the user that holds what it read before.
LEMMA DeleteEntryStep == ASSUME IInv, NEW s \in Slots, DeleteEntry(s) PROVE IInv'
<1> DEFINE u == User(s)
<1>1. /\ profile' = profile /\ prefs' = prefs /\ AnswerWritten(s, {"enrich", "writeBack"})
  BY DEF DeleteEntry
<1>2. /\ u \in Users /\ library' \in [Users -> Libraries]
      /\ \A v \in Users \ {u}, n \in Mangas : library'[v][n] = library[v][n]
  BY DeleteEntryPuts, PutType
<1>3. /\ Elsewhere(s) /\ pc'[s] = "idle" /\ arrived' \in 0..MaxRequests
      /\ \A t \in Slots \ {s} :
           raced'[t] = (raced[t] \/ (pc[t] \in {"enrich", "writeBack"} /\ User(t) = User(s)))
  BY <1>1, WrittenElsewhere DEF IInv
<1>4. ASSUME NEW t \in Slots \ {s} PROVE Held(t)'
  <2>1. /\ Held(t) /\ pc'[t] = pc[t] /\ req'[t] = req[t] /\ seen'[t] = seen[t]
    BY <1>3 DEF Elsewhere, IInv
  <2>2. CASE pc[t] \in {"enrich", "writeBack"}
    <3>1. ProfileHeld(t)' /\ PrefsHeld(t)'
      BY <2>1, <2>2 DEF ProfileHeld, PrefsHeld, At
    <3>2. LibraryHeld(t) /\ User(t) \in Users /\ User(t)' = User(t)
      BY <2>1, <2>2 DEF Held, LibraryHeld, User
    <3>3. ~raced'[t] => ~raced[t] /\ User(t) # u
      BY <1>3, <2>2
    <3>4. ~raced'[t] => \A n \in Mangas : library'[User(t)][n] = library[User(t)][n]
      BY <1>2, <3>2, <3>3
    <3>5. At(t, "enrich") /\ ~raced'[t] => InLibrary(t, seen[t])'
      BY <2>1, <3>2, <3>3, <3>4 DEF LibraryHeld, InLibrary
    <3>6. At(t, "writeBack") /\ ~raced'[t] =>
            library'[User(t)][seen[t].manga] # Null /\ InLibrary(t, seen[t].rest)'
      BY <2>1, <3>2, <3>3, <3>4 DEF LibraryHeld, InLibrary
    <3>7. LibraryHeld(t)'
      BY <2>1, <3>2, <3>5, <3>6 DEF LibraryHeld, At
    <3> QED BY <3>1, <3>7 DEF Held
  <2>3. CASE pc[t] \notin {"enrich", "writeBack"}
    <3>1. raced'[t] = raced[t]
      BY <1>3, <2>3 DEF IInv, TypeOK
    <3>2. ProfileHeld(t)' /\ PrefsHeld(t)'
      BY <1>1, <1>3, <2>1, <3>1, HeldElsewhere
    <3>3. LibraryHeld(t)'
      BY <2>1, <2>3 DEF Held, LibraryHeld, At
    <3> QED BY <3>2, <3>3 DEF Held
  <2> QED BY <2>2, <2>3
<1>5. Held(s)'
  BY <1>3, IdleHolds
<1>6. TypeOK' /\ RequestsOK' /\ UsernamesUnique'
  BY <1>1, <1>2, <1>3 DEF IInv, TypeOK, Elsewhere, UsernamesUnique
<1> QED BY <1>4, <1>5, <1>6 DEF IInv

LEMMA NextInv == IInv /\ [Next]_vars => IInv'
<1> SUFFICES ASSUME IInv, [Next]_vars PROVE IInv'
  OBVIOUS
<1>1. ASSUME NEW s \in Slots, AnswerLibrary(s) PROVE IInv'
  BY <1>1, PlainStep DEF AnswerLibrary, KeepsEntries, tables, IInv, TypeOK
<1>2. CASE UNCHANGED vars
  BY <1>2 DEF vars, IInv, TypeOK, RequestsOK, UsernamesUnique, Held, ProfileHeld, PrefsHeld,
              LibraryHeld, InLibrary, At, User, Sent, BirthConflict
<1> QED
  BY <1>1, <1>2, ReceiveStep, SelectProfileStep, UpdateProfileStep, SelectPrefsStep,
     InsertPrefsStep, UpsertPrefsStep, FetchStep, UpsertEntryStep, SelectEntriesStep,
     EnrichStep, WriteBackStep, UpdateEntryStep, DeleteEntryStep
  DEF Next, Finished

\* The inductive invariant holds throughout.
THEOREM Invariance == Spec => []IInv
BY InitInv, NextInv, PTL DEF Spec

\* Every row and every request keeps its type (the DDL's NOT NULL columns).
THEOREM TypeCorrectness == Spec => []TypeOK
<1>1. IInv => TypeOK
  BY DEF IInv
<1> QED BY <1>1, Invariance, PTL

\* No two users share a username (update_profile_metadata leaves the check to the
\* unique index).
THEOREM UniqueUsernames == Spec => []UsernamesUnique
<1>1. IInv => UsernamesUnique
  BY DEF IInv
<1> QED BY <1>1, Invariance, PTL

-----------------------------------------------------------------------------
(* Who changes a row, and how.                                             *)

LEMMA ProfileWriter ==
    ASSUME IInv, [Next]_vars, NEW u \in Users, profile'[u] # profile[u]
    PROVE  \E s \in Ending("updateProfile", u) :
             /\ Sent(s) \in ProfilePatches /\ seen[s] \in Profiles
             /\ ~BirthConflict(s, seen[s])
             /\ raced[s] \/ seen[s] = profile[u]
             /\ profile'[u] = Merge(Sent(s), seen[s])
<1>1. PICK s \in Slots : UpdateProfile(s)
  BY DEF Next, Finished, vars, Receive, Accept, SelectProfile, SelectPrefs, InsertPrefs,
         UpsertPrefs, Fetch, UpsertEntry, SelectEntries, Enrich, WriteBack, AnswerLibrary,
         UpdateEntry, DeleteEntry, tables
<1>2. /\ At(s, "updateProfile") /\ User(s) \in Users
      /\ Sent(s) \in ProfilePatches /\ seen[s] \in Profiles
      /\ ~BirthConflict(s, seen[s])
      /\ raced[s] \/ seen[s] = profile[User(s)]
  BY <1>1 DEF UpdateProfile, IInv, Held, ProfileHeld, At, User, Sent
<1>3. /\ profile' = [profile EXCEPT ![User(s)] = Merge(Sent(s), seen[s])]
      /\ AnswerWritten(s, {"updateProfile"})
  BY <1>1 DEF UpdateProfile
<1>4. User(s) = u /\ profile'[u] = Merge(Sent(s), seen[s])
  BY <1>2, <1>3 DEF IInv, TypeOK
<1>5. pc'[s] = "idle"
  BY <1>3, WrittenElsewhere DEF IInv
<1> QED BY <1>2, <1>4, <1>5 DEF Ending

LEMMA PrefsWriter ==
    ASSUME IInv, [Next]_vars, NEW u \in Users, prefs[u] # Null, prefs'[u] # prefs[u]
    PROVE  \E s \in Ending("upsertPrefs", u) :
             /\ Sent(s) \in PrefsPatches /\ seen[s] \in Preferences
             /\ raced[s] \/ seen[s] = prefs[u]
             /\ prefs'[u] = Merge(Sent(s), seen[s])
<1>1. PICK s \in Slots : UpsertPrefs(s) \/ InsertPrefs(s)
  BY DEF Next, Finished, vars, Receive, Accept, SelectProfile, UpdateProfile, SelectPrefs,
         Fetch, UpsertEntry, SelectEntries, Enrich, WriteBack, AnswerLibrary,
         UpdateEntry, DeleteEntry, tables
<1>2. ~InsertPrefs(s)
  <2> SUFFICES ASSUME InsertPrefs(s) PROVE FALSE
    OBVIOUS
  <2>1. User(s) \in Users
    BY DEF InsertPrefs, IInv, Held, PrefsHeld, At, User
  <2> QED BY <2>1 DEF InsertPrefs, IInv, TypeOK
<1>3. /\ At(s, "upsertPrefs") /\ User(s) \in Users
      /\ Sent(s) \in PrefsPatches /\ seen[s] \in Preferences
      /\ raced[s] \/ seen[s] = prefs[User(s)]
  BY <1>1, <1>2 DEF UpsertPrefs, IInv, Held, PrefsHeld, At, User, Sent
<1>4. /\ prefs' = [prefs EXCEPT ![User(s)] = Merge(Sent(s), seen[s])]
      /\ AnswerWritten(s, {"upsertPrefs"})
  BY <1>1, <1>2 DEF UpsertPrefs
<1>5. User(s) = u /\ prefs'[u] = Merge(Sent(s), seen[s])
  BY <1>3, <1>4 DEF IInv, TypeOK
<1>6. pc'[s] = "idle"
  BY <1>4, WrittenElsewhere DEF IInv
<1> QED BY <1>3, <1>5, <1>6 DEF Ending

\* A birth date, once set, stays, unless PATCHes of the user overlap: the guard in
\* update_profile_metadata is right as long as what it read is still there.
THEOREM BirthDates == Spec => BirthDateKept
<1>1. ASSUME IInv, [Next]_vars, NEW u \in Users,
             profile[u].birth # Null, profile'[u].birth # profile[u].birth
      PROVE  \E s \in Ending("updateProfile", u) : raced[s]
  <2>1. PICK s \in Ending("updateProfile", u) :
             /\ Sent(s) \in ProfilePatches /\ seen[s] \in Profiles
             /\ ~BirthConflict(s, seen[s])
             /\ raced[s] \/ seen[s] = profile[u]
             /\ profile'[u] = Merge(Sent(s), seen[s])
    BY <1>1, ProfileWriter
  <2>2. profile'[u]["birth"] =
          IF "birth" \in DOMAIN Sent(s) THEN Sent(s)["birth"] ELSE seen[s]["birth"]
    BY <2>1, MergeProfile
  <2>3. seen[s] # profile[u]
    BY <1>1, <2>1, <2>2 DEF BirthConflict
  <2> QED BY <2>1, <2>3
<1>2. IInv /\ [Next]_vars =>
        [\A u \in Users :
           profile[u].birth # Null /\ profile'[u].birth # profile[u].birth =>
             \E s \in Ending("updateProfile", u) : raced[s]]_vars
  BY <1>1
<1> QED BY <1>2, Invariance, PTL DEF Spec, BirthDateKept

\* PATCH and PUT merge: a field that was not sent stays, unless the row was raced
\* (update_profile_metadata, update_preferences).
THEOREM Merges == Spec => OnlySentFieldsChange
<1> DEFINE ProfileFields ==
             \A u \in Users : \A f \in {"username", "birth"} :
               profile'[u][f] # profile[u][f] =>
                 \E s \in Ending("updateProfile", u) : f \in DOMAIN Sent(s) \/ raced[s]
           PrefsFields ==
             \A u \in Users : \A f \in {"mode", "filter"} :
               prefs[u] # Null /\ prefs'[u] # prefs[u] /\ prefs'[u][f] # prefs[u][f] =>
                 \E s \in Ending("upsertPrefs", u) : f \in DOMAIN Sent(s) \/ raced[s]
<1>1. ASSUME IInv, [Next]_vars PROVE ProfileFields
  <2> SUFFICES ASSUME NEW u \in Users, NEW f \in {"username", "birth"},
                      profile'[u][f] # profile[u][f]
               PROVE  \E s \in Ending("updateProfile", u) : f \in DOMAIN Sent(s) \/ raced[s]
    OBVIOUS
  <2>1. PICK s \in Ending("updateProfile", u) :
             /\ Sent(s) \in ProfilePatches /\ seen[s] \in Profiles
             /\ raced[s] \/ seen[s] = profile[u]
             /\ profile'[u] = Merge(Sent(s), seen[s])
    BY <1>1, ProfileWriter
  <2>2. profile'[u][f] = IF f \in DOMAIN Sent(s) THEN Sent(s)[f] ELSE seen[s][f]
    BY <2>1, MergeProfile
  <2> QED BY <2>1, <2>2
<1>2. ASSUME IInv, [Next]_vars PROVE PrefsFields
  <2> SUFFICES ASSUME NEW u \in Users, NEW f \in {"mode", "filter"},
                      prefs[u] # Null, prefs'[u] # prefs[u], prefs'[u][f] # prefs[u][f]
               PROVE  \E s \in Ending("upsertPrefs", u) : f \in DOMAIN Sent(s) \/ raced[s]
    OBVIOUS
  <2>1. PICK s \in Ending("upsertPrefs", u) :
             /\ Sent(s) \in PrefsPatches /\ seen[s] \in Preferences
             /\ raced[s] \/ seen[s] = prefs[u]
             /\ prefs'[u] = Merge(Sent(s), seen[s])
    BY <1>2, PrefsWriter
  <2>2. prefs'[u][f] = IF f \in DOMAIN Sent(s) THEN Sent(s)[f] ELSE seen[s][f]
    BY <2>1, MergePrefs
  <2> QED BY <2>1, <2>2
<1>3. IInv /\ [Next]_vars => [ProfileFields /\ PrefsFields]_vars
  BY <1>1, <1>2
<1> QED BY <1>3, Invariance, PTL DEF Spec, OnlySentFieldsChange

\* Refreshing an entry (a second POST, or the write-back of a stale entry in
\* get_library) keeps its status and progress and forgets no score.
THEOREM Refreshes == Spec => EntriesSurviveRefresh
<1> DEFINE Survives(u, m) ==
             LET old == library[u][m]
                 new == library'[u][m]
             IN  old # Null /\ new # Null =>
                   /\ old.score # Null => new.score # Null
                   /\ \/ old.status = new.status /\ old.chapters = new.chapters
                      \/ \E s \in Slots :
                           At(s, "updateEntry") /\ pc'[s] = "idle" /\ User(s) = u
<1>1. ASSUME IInv, [Next]_vars, NEW u \in Users, NEW m \in Mangas PROVE Survives(u, m)
  <2>1. CASE library' = library
    BY <2>1
  <2>2. ASSUME NEW v \in Users, NEW n \in Mangas, NEW data,
               library[v][n] \in Entry \cup {Null},
               data.score \in {Null, "rated"}, data.authors \in {"empty", "named"},
               Put(v, n, Upserted(library[v][n], data))
        PROVE  Survives(u, m)
    BY <1>1, <2>2, UpsertedEntry, PutType
  <2>3. ASSUME NEW s \in Slots, UpsertEntry(s) PROVE Survives(u, m)
    BY <1>1, <2>2, <2>3, UpsertEntryPuts
  <2>4. ASSUME NEW s \in Slots, WriteBack(s) PROVE Survives(u, m)
    BY <1>1, <2>2, <2>4, WriteBackPuts
  <2>5. ASSUME NEW s \in Slots, UpdateEntry(s) PROVE Survives(u, m)
    <3>1. At(s, "updateEntry") /\ pc'[s] = "idle"
      BY <1>1, <2>5, PlainElsewhere DEF UpdateEntry, IInv
    <3>2. CASE library' = library
      BY <2>1, <3>2
    <3>3. CASE /\ User(s) \in Users /\ req[s].manga \in Mangas
               /\ library[User(s)][req[s].manga] \in Entry /\ Sent(s) \in EntryPatches
               /\ Put(User(s), req[s].manga, Merge(Sent(s), library[User(s)][req[s].manga]))
      BY <1>1, <3>1, <3>3, MergeEntry, PutType
    <3> QED BY <1>1, <2>5, <3>2, <3>3, UpdateEntryPuts
  <2>6. ASSUME NEW s \in Slots, DeleteEntry(s) PROVE Survives(u, m)
    BY <1>1, <2>6, DeleteEntryPuts, PutType
  <2> QED
    BY <1>1, <2>1, <2>3, <2>4, <2>5, <2>6
    DEF Next, Finished, vars, Receive, Accept, SelectProfile, UpdateProfile, SelectPrefs,
        InsertPrefs, UpsertPrefs, Fetch, SelectEntries, Enrich, AnswerLibrary, tables
<1>2. IInv /\ [Next]_vars => [\A u \in Users, m \in Mangas : Survives(u, m)]_vars
  BY <1>1
<1> QED BY <1>2, Invariance, PTL DEF Spec, EntriesSurviveRefresh

\* An entry that was removed comes back without a POST only from a GET that had read
\* it before: get_library writes back no row that it did not read.
THEOREM Removals == Spec => RemovedStaysRemoved
<1> DEFINE Asked(u, m) ==
             \/ \E s \in Ending("upsertEntry", u) : req[s].manga = m
             \/ \E s \in Slots : At(s, "writeBack") /\ pc'[s] = "enrich"
                                  /\ User(s) = u /\ raced[s]
<1>1. ASSUME IInv, [Next]_vars, NEW u \in Users, NEW m \in Mangas,
             library[u][m] = Null, library'[u][m] # Null
      PROVE  Asked(u, m)
  <2>1. ASSUME NEW s \in Slots, UpsertEntry(s) PROVE Asked(u, m)
    <3>1. At(s, "upsertEntry") /\ pc'[s] = "idle"
      BY <1>1, <2>1, PlainElsewhere DEF UpsertEntry, IInv
    <3>2. User(s) = u /\ req[s].manga = m
      BY <1>1, <2>1, UpsertEntryPuts, UpsertedEntry, PutType
    <3> QED BY <3>1, <3>2 DEF Ending
  <2>2. ASSUME NEW s \in Slots, WriteBack(s) PROVE Asked(u, m)
    <3>1. At(s, "writeBack") /\ Proceed(s, "enrich", seen[s].rest) /\ LibraryHeld(s)
      BY <1>1, <2>2 DEF WriteBack, IInv, Held
    <3>2. pc'[s] = "enrich"
      BY <1>1, <3>1, ProceedElsewhere DEF IInv, Places
    <3>3. User(s) = u /\ seen[s].manga = m
      BY <1>1, <2>2, WriteBackPuts, UpsertedEntry, PutType
    <3>4. raced[s]
      BY <1>1, <3>1, <3>3 DEF LibraryHeld
    <3> QED BY <3>1, <3>2, <3>3, <3>4
  <2>3. ASSUME NEW s \in Slots, UpdateEntry(s) PROVE FALSE
    BY <1>1, <2>3, UpdateEntryPuts, MergeEntry, PutType, EntryNotNull
  <2>4. ASSUME NEW s \in Slots, DeleteEntry(s) PROVE FALSE
    BY <1>1, <2>4, DeleteEntryPuts, PutType
  <2>5. library' # library
    BY <1>1
  <2> HIDE DEF Asked
  <2> QED
    BY <1>1, <2>1, <2>2, <2>3, <2>4, <2>5
    DEF Next, Finished, vars, Receive, Accept, SelectProfile, UpdateProfile, SelectPrefs,
        InsertPrefs, UpsertPrefs, Fetch, SelectEntries, Enrich, AnswerLibrary, tables
<1>2. IInv /\ [Next]_vars =>
        [\A u \in Users, m \in Mangas :
           library[u][m] = Null /\ library'[u][m] # Null => Asked(u, m)]_vars
  BY <1>1
<1> QED BY <1>2, Invariance, PTL DEF Spec, RemovedStaysRemoved
=============================================================================
