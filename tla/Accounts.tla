------------------------------ MODULE Accounts ------------------------------
(***************************************************************************)
(* The life of an account: bootstrap on the first authenticated request,   *)
(* the writes of the per-user tables, DELETE /users/me with its Firebase   *)
(* call, the record of a deletion that timed out, and the reconciliation   *)
(* of such records when the server starts.                                 *)
(*                                                                         *)
(* A request is a process whose program counter names the await it is at;  *)
(* one step runs the statement it awaits and goes to the next await.  The  *)
(* steps of different requests interleave, the process may die between two *)
(* steps, and TimeoutMiddleware may cancel a request at any await.         *)
(***************************************************************************)
EXTENDS Storage, Naturals

CONSTANTS
    Requests,     \* slots for concurrent requests
    Startup,      \* the process that runs the lifespan's reconciliation
    Kinds,        \* the kinds of request that clients send
    NoUser,       \* the user of a slot that serves nobody
    MaxCrashes,   \* bound on the crashes of a behaviour
    MayTimeOut    \* FALSE: no request reaches TimeoutMiddleware's limit

AllKinds == {"delete", "me", "get_prefs", "put_prefs", "add", "remove"}

ASSUME AccountsAssumption ==
    /\ Startup \notin Requests
    /\ Kinds \subseteq AllKinds
    /\ NoUser \notin Users
    /\ MaxCrashes \in Nat
    /\ MayTimeOut \in BOOLEAN

VARIABLES
    phase,      \* "down", "starting" (lifespan before its yield), "serving"
    sdkReady,   \* firebase_admin._apps is not empty
    todo,       \* records that process_all_pending_deletions has still to visit
    pc,         \* the await at which each process is
    kind,       \* what each process serves
    user,       \* the UID each process serves
    call,       \* the delete_user call that a process waits for
    account,    \* the Firebase accounts: "live" or "gone"
    late,       \* accounts with a delete_user call nobody waits for any more
    crashes,
    requested,  \* history: users whose DELETE request was authenticated
    outcomes,   \* history: how the Firebase step of each user's deletions ended
    overlap     \* history: a deletion during which another request of its user worked

serverVars   == <<phase, sdkReady, todo, crashes>>
requestVars  == <<kind, user>>
firebaseVars == <<account, late>>
historyVars  == <<requested, outcomes, overlap>>
vars == <<db, disk, postgres, phase, sdkReady, todo, crashes, pc, kind, user, call,
          account, late, requested, outcomes, overlap>>

Processes == Requests \cup {Startup}

Resting == {"idle", "done", "failed"}

BootstrapLabels == {"select_user", "insert_user", "requery_user", "commit_user"}
PrefsLabels     == {"select_prefs", "insert_prefs", "requery_prefs",
                    "commit_prefs", "upsert_prefs"}
LibraryLabels   == {"fetch_manga", "upsert_entry", "delete_entry"}
ReconcileLabels == {"reconcile", "reconcile_get", "reconcile_delete",
                    "reconcile_wait", "clear_pending", "commit_clear"}
FirebaseLabels  == {"firebase_delete", "firebase_wait", "save_pending", "commit_save"}
CleanupLabels   == {"delete_library", "delete_prefs", "delete_user",
                    "delete_pending", "commit_cleanup"}

Labels == Resting \cup BootstrapLabels \cup PrefsLabels \cup LibraryLabels
          \cup ReconcileLabels \cup FirebaseLabels \cup CleanupLabels
          \cup {"verify", "commit_write"}

CallStates == {"none", "sent", "ok", "not_found", "error"}
Outcomes   == {"deleted", "timeout", "skipped"}

Init ==
    /\ StorageInit
    /\ phase = "down" /\ sdkReady = FALSE /\ todo = {} /\ crashes = 0
    /\ pc = [p \in Processes |-> "idle"]
    /\ kind = [p \in Processes |-> "none"]
    /\ user = [p \in Processes |-> NoUser]
    /\ call = [p \in Processes |-> "none"]
    /\ account = [u \in Users |-> "live"]
    /\ late = {}
    /\ requested = {}
    /\ outcomes = [u \in Users |-> {}]
    /\ overlap = [r \in Requests |-> FALSE]

-----------------------------------------------------------------------------
Goto(p, label) == pc' = [pc EXCEPT ![p] = label]

\* Slot r answers, with a 2xx status ("done") or an error ("failed"), and
\* serves nobody any more.
Reply(r, status) ==
    /\ pc' = [pc EXCEPT ![r] = status]
    /\ kind' = [kind EXCEPT ![r] = "none"]
    /\ user' = [user EXCEPT ![r] = NoUser]
    /\ overlap' = [overlap EXCEPT ![r] = FALSE]
    /\ UNCHANGED <<requested, outcomes>>

\* A step that only moves p's program counter, and maybe the tables.
Advance(p, label) ==
    /\ Goto(p, label)
    /\ UNCHANGED <<requestVars, historyVars>>

External == <<serverVars, call, firebaseVars>>

AtWork(q) == pc[q] \notin Resting \cup {"verify"}

Working(q, u) == AtWork(q) /\ user[q] = u

-----------------------------------------------------------------------------
(* Authentication: get_current_user, get_current_user_no_bootstrap.        *)

\* Mutant: DELETE without its authentication dependency.
Receive_NoAuth(r) ==
    /\ phase = "serving"
    /\ pc[r] \in Resting
    /\ \E k \in Kinds, u \in Users :
         /\ kind' = [kind EXCEPT ![r] = k]
         /\ user' = [user EXCEPT ![r] = u]
         /\ Goto(r, IF k = "delete" THEN "reconcile" ELSE "verify")
    /\ UNCHANGED <<storageVars, External, historyVars>>

Receive(r) ==
    /\ phase = "serving"
    /\ pc[r] \in Resting
    /\ \E k \in Kinds, u \in Users :
         /\ kind' = [kind EXCEPT ![r] = k]
         /\ user' = [user EXCEPT ![r] = u]
    /\ Goto(r, "verify")
    /\ UNCHANGED <<storageVars, External, historyVars>>

\* Mutant: verify_id_token without check_revoked looks at the token alone.
VerifyToken_NotRevoked(r) ==
    /\ pc[r] = "verify"
    /\ sdkReady
    /\ Goto(r, IF kind[r] = "delete" THEN "reconcile" ELSE "select_user")
    /\ requested' = IF kind[r] = "delete" THEN requested \cup {user[r]} ELSE requested
    /\ UNCHANGED <<storageVars, External, requestVars, outcomes, overlap>>

\* verify_id_token(check_revoked=True) refuses a user who no longer exists.
\* The code calls it on the event loop, where it blocks every other handler and
\* no limit cuts it: here one step, that may come when it likes.
VerifyToken(r) ==
    LET u == user[r] IN
    /\ pc[r] = "verify"
    /\ sdkReady /\ account[u] = "live"
    /\ Goto(r, IF kind[r] = "delete" THEN "reconcile" ELSE "select_user")
    /\ requested' = IF kind[r] = "delete" THEN requested \cup {u} ELSE requested
    /\ overlap' = [q \in Requests |->
         IF q = r
         THEN kind[r] = "delete" /\ \E x \in Requests \ {r} :
                                       Working(x, u) /\ kind[x] # "delete"
         ELSE overlap[q] \/ (/\ kind[q] = "delete" /\ Working(q, u)
                             /\ kind[r] # "delete")]
    /\ UNCHANGED <<storageVars, External, requestVars, outcomes>>

\* Expired, revoked or invalid token, no SDK, or Firebase out of reach.
RejectToken(r) ==
    /\ pc[r] = "verify"
    /\ Reply(r, "failed")
    /\ UNCHANGED <<storageVars, External>>

-----------------------------------------------------------------------------
(* get_or_create_user.  GET /users/me runs it twice: in the dependency and *)
(* again in the handler.                                                   *)

\* Where the dependency, or the handler of "me", goes on.  The dependency of
\* every endpoint that bootstraps is get_current_user_verified: it refuses an
\* e-mail address that is not verified, after the bootstrap.
AfterBootstrap(r) ==
    \/ kind[r] # "me_handler" /\ Reply(r, "failed")
    \/ kind[r] = "me" /\ Goto(r, "select_user")
       /\ kind' = [kind EXCEPT ![r] = "me_handler"]
       /\ UNCHANGED <<user, historyVars>>
    \/ kind[r] = "me_handler" /\ Reply(r, "done")
    \/ kind[r] \in {"get_prefs", "put_prefs"} /\ Advance(r, "select_prefs")
    \/ kind[r] = "add" /\ Advance(r, "fetch_manga")
    \/ kind[r] = "remove" /\ Advance(r, "delete_entry")

\* Mutant: the write endpoints use the dependency that does not bootstrap.
SelectUser_NoBootstrap(r) ==
    /\ pc[r] = "select_user"
    /\ AfterBootstrap(r)
    /\ UNCHANGED <<storageVars, External>>

SelectUser(r) ==
    /\ pc[r] = "select_user"
    /\ IF user[r] \in db.users THEN AfterBootstrap(r) ELSE Advance(r, "insert_user")
    /\ UNCHANGED <<storageVars, External>>

InsertUser(r) ==
    /\ pc[r] = "insert_user"
    /\ IF user[r] \in db.users
       THEN Advance(r, "requery_user") /\ UNCHANGED storageVars
       ELSE /\ Execute([db EXCEPT !.users = @ \cup {user[r]}])
            /\ Advance(r, "commit_user")
    /\ UNCHANGED External

RequeryUser(r) ==
    /\ pc[r] = "requery_user"
    /\ IF user[r] \in db.users THEN Advance(r, "commit_user") ELSE Reply(r, "failed")
    /\ UNCHANGED <<storageVars, External>>

CommitUser(r) ==
    /\ pc[r] = "commit_user"
    /\ Commit
    /\ AfterBootstrap(r)
    /\ UNCHANGED External

-----------------------------------------------------------------------------
(* get_preferences, _create_default_preferences, update_preferences.       *)

\* get_preferences returned: GET answers, PUT goes on to its upsert.
AfterPrefs(r) ==
    IF kind[r] = "put_prefs" THEN Advance(r, "upsert_prefs") ELSE Reply(r, "done")

SelectPrefs(r) ==
    /\ pc[r] = "select_prefs"
    /\ IF user[r] \in db.prefs THEN AfterPrefs(r) ELSE Advance(r, "insert_prefs")
    /\ UNCHANGED <<storageVars, External>>

InsertPrefs(r) ==
    /\ pc[r] = "insert_prefs"
    /\ CASE user[r] \in db.prefs -> Advance(r, "requery_prefs") /\ UNCHANGED storageVars
         [] user[r] \notin db.prefs /\ ParentMissing(user[r]) ->
              Reply(r, "failed") /\ UNCHANGED storageVars
         [] OTHER -> /\ Execute([db EXCEPT !.prefs = @ \cup {user[r]}])
                     /\ Advance(r, "commit_prefs")
    /\ UNCHANGED External

RequeryPrefs(r) ==
    /\ pc[r] = "requery_prefs"
    /\ IF user[r] \in db.prefs THEN Advance(r, "commit_prefs") ELSE Reply(r, "failed")
    /\ UNCHANGED <<storageVars, External>>

CommitPrefs(r) ==
    /\ pc[r] = "commit_prefs"
    /\ Commit
    /\ AfterPrefs(r)
    /\ UNCHANGED External

UpsertPrefs(r) ==
    /\ pc[r] = "upsert_prefs"
    /\ IF ParentMissing(user[r])
       THEN Reply(r, "failed") /\ UNCHANGED storageVars
       ELSE /\ Execute([db EXCEPT !.prefs = @ \cup {user[r]}])
            /\ Advance(r, "commit_write")
    /\ UNCHANGED External

-----------------------------------------------------------------------------
(* POST and DELETE /users/me/library/{manga_id}.                           *)

\* await manga_service.get_by_id: the answer (or None) is stored, an
\* upstream failure is the reply.
FetchManga(r) ==
    /\ pc[r] = "fetch_manga"
    /\ \/ Advance(r, "upsert_entry")
       \/ Reply(r, "failed")
    /\ UNCHANGED <<storageVars, External>>

UpsertEntry(r) ==
    /\ pc[r] = "upsert_entry"
    /\ IF ParentMissing(user[r])
       THEN Reply(r, "failed") /\ UNCHANGED storageVars
       ELSE /\ \E m \in Mangas :
                 Execute([db EXCEPT !.library = @ \cup {<<user[r], m>>}])
            /\ Advance(r, "commit_write")
    /\ UNCHANGED External

DeleteEntry(r) ==
    /\ pc[r] = "delete_entry"
    /\ \E m \in Mangas : Execute([db EXCEPT !.library = @ \ {<<user[r], m>>}])
    /\ Advance(r, "commit_write")
    /\ UNCHANGED External

\* The commit that ends update_preferences, add_to_library and
\* remove_from_library (which answers 404 if its rowcount was zero).
CommitWrite(r) ==
    /\ pc[r] = "commit_write"
    /\ Commit
    /\ \/ Reply(r, "done")
       \/ kind[r] = "remove" /\ Reply(r, "failed")
    /\ UNCHANGED External

-----------------------------------------------------------------------------
(* _reconcile_pending_deletion, run by delete_account and by the lifespan. *)

\* Where the caller of _reconcile_pending_deletion goes on.
AfterReconcile(p) ==
    IF p = Startup
    THEN /\ Goto(p, "idle")
         /\ todo' = todo \ {user[p]}
         /\ kind' = [kind EXCEPT ![p] = "none"]
         /\ user' = [user EXCEPT ![p] = NoUser]
         /\ UNCHANGED historyVars
    ELSE Advance(p, "firebase_delete") /\ UNCHANGED todo

Reconcile(p) ==
    /\ pc[p] = "reconcile"
    /\ IF user[p] \in db.pending /\ sdkReady
       THEN Advance(p, "reconcile_get") /\ UNCHANGED todo
       ELSE AfterReconcile(p)
    /\ UNCHANGED <<storageVars, phase, sdkReady, crashes, call, firebaseVars>>

\* get_user: the user exists, does not, or the answer never comes.
ReconcileGet(p) ==
    /\ pc[p] = "reconcile_get"
    /\ \/ /\ account[user[p]] = "live"
          /\ Advance(p, "reconcile_delete") /\ UNCHANGED todo
       \/ /\ account[user[p]] = "gone"
          /\ Advance(p, "clear_pending") /\ UNCHANGED todo
       \/ AfterReconcile(p)
    /\ UNCHANGED <<storageVars, phase, sdkReady, crashes, call, firebaseVars>>

\* to_thread(delete_user) hands the call to a thread.
ReconcileDelete(p) ==
    /\ pc[p] = "reconcile_delete"
    /\ call' = [call EXCEPT ![p] = "sent"]
    /\ Advance(p, "reconcile_wait")
    /\ UNCHANGED <<storageVars, serverVars, firebaseVars>>

\* The handler stops waiting: the call becomes nobody's.
Abandon(p) ==
    /\ call' = [call EXCEPT ![p] = "none"]
    /\ late' = IF call[p] = "sent" THEN late \cup {user[p]} ELSE late

ReconcileAnswered(p) ==
    /\ pc[p] = "reconcile_wait"
    /\ call[p] \in {"ok", "not_found"}
    /\ call' = [call EXCEPT ![p] = "none"]
    /\ Advance(p, "clear_pending")
    /\ UNCHANGED <<storageVars, serverVars, firebaseVars>>

\* Mutant: no wait_for around the retry.
ReconcileGaveUp_NoTimeout(p) ==
    /\ pc[p] = "reconcile_wait"
    /\ call[p] = "error"
    /\ Abandon(p)
    /\ AfterReconcile(p)
    /\ UNCHANGED <<storageVars, phase, sdkReady, crashes, account>>

\* except (TimeoutError, Exception): the record stays for the next time.
ReconcileGaveUp(p) ==
    /\ pc[p] = "reconcile_wait"
    /\ Abandon(p)
    /\ AfterReconcile(p)
    /\ UNCHANGED <<storageVars, phase, sdkReady, crashes, account>>

ClearPending(p) ==
    /\ pc[p] = "clear_pending"
    /\ Execute([db EXCEPT !.pending = @ \ {user[p]}])
    /\ Advance(p, "commit_clear")
    /\ UNCHANGED External

CommitClear(p) ==
    /\ pc[p] = "commit_clear"
    /\ Commit
    /\ AfterReconcile(p)
    /\ UNCHANGED <<phase, sdkReady, crashes, call, firebaseVars>>

-----------------------------------------------------------------------------
(* _delete_firebase_user and _save_pending_deletion.                       *)

\* The Firebase step of r's deletion ended without an exception.
Resolved(r, outcome) ==
    /\ outcomes' = [outcomes EXCEPT ![user[r]] = @ \cup {outcome}]
    /\ UNCHANGED <<requestVars, requested, overlap>>

\* Mutant: delete_user runs in its thread, but nobody awaits it.
FirebaseDelete_FireAndForget(r) ==
    /\ pc[r] = "firebase_delete"
    /\ call' = IF sdkReady THEN [call EXCEPT ![r] = "sent"] ELSE call
    /\ Goto(r, "delete_library")
    /\ Resolved(r, IF sdkReady THEN "deleted" ELSE "skipped")
    /\ UNCHANGED <<storageVars, serverVars, firebaseVars>>

FirebaseDelete(r) ==
    /\ pc[r] = "firebase_delete"
    /\ IF sdkReady
       THEN /\ call' = [call EXCEPT ![r] = "sent"]
            /\ Advance(r, "firebase_wait")
       ELSE /\ Goto(r, "delete_library")
            /\ Resolved(r, "skipped")
            /\ UNCHANGED call
    /\ UNCHANGED <<storageVars, serverVars, firebaseVars>>

FirebaseAnswered(r) ==
    /\ pc[r] = "firebase_wait"
    /\ call[r] \in {"ok", "not_found"}
    /\ call' = [call EXCEPT ![r] = "none"]
    /\ Goto(r, "delete_library")
    /\ Resolved(r, "deleted")
    /\ UNCHANGED <<storageVars, serverVars, firebaseVars>>

\* Mutant: no wait_for around delete_user.
FirebaseTimedOut_NoTimeout(r) ==
    /\ pc[r] = "firebase_wait" /\ call[r] = "error"
    /\ Abandon(r)
    /\ Goto(r, "save_pending")
    /\ Resolved(r, "timeout")
    /\ UNCHANGED <<storageVars, serverVars, account>>

\* except TimeoutError: go and record the deletion as pending.
FirebaseTimedOut(r) ==
    /\ pc[r] = "firebase_wait"
    /\ Abandon(r)
    /\ Goto(r, "save_pending")
    /\ Resolved(r, "timeout")
    /\ UNCHANGED <<storageVars, serverVars, account>>

\* Mutant: the exception is logged and the deletion goes on.
FirebaseFailed_Swallowed(r) ==
    /\ pc[r] = "firebase_wait"
    /\ call[r] = "error"
    /\ call' = [call EXCEPT ![r] = "none"]
    /\ Advance(r, "delete_library")
    /\ UNCHANGED <<storageVars, serverVars, firebaseVars>>

\* except Exception: UpstreamServiceError, and no local cleanup.
FirebaseFailed(r) ==
    /\ pc[r] = "firebase_wait"
    /\ call[r] = "error"
    /\ call' = [call EXCEPT ![r] = "none"]
    /\ Reply(r, "failed")
    /\ UNCHANGED <<storageVars, serverVars, firebaseVars>>

\* INSERT OR REPLACE is SQLite's syntax: PostgreSQL refuses the statement.
SavePending(r) ==
    /\ pc[r] = "save_pending"
    /\ IF postgres
       THEN Reply(r, "failed") /\ UNCHANGED storageVars
       ELSE /\ Execute([db EXCEPT !.pending = @ \cup {user[r]}])
            /\ Advance(r, "commit_save")
    /\ UNCHANGED External

CommitSave(r) ==
    /\ pc[r] = "commit_save"
    /\ Commit
    /\ Advance(r, "delete_library")
    /\ UNCHANGED External

-----------------------------------------------------------------------------
(* _cleanup_local_data.                                                    *)

\* Mutant: the users row goes before the preferences that reference it.
DeleteLibrary_ParentFirst(r) ==
    /\ pc[r] = "delete_library"
    /\ Execute([db EXCEPT !.library = @ \ Entries(db, user[r])])
    /\ Advance(r, "delete_user")
    /\ UNCHANGED External

DeleteLibrary(r) ==
    /\ pc[r] = "delete_library"
    /\ Execute([db EXCEPT !.library = @ \ Entries(db, user[r])])
    /\ Advance(r, "delete_prefs")
    /\ UNCHANGED External

DeletePrefs(r) ==
    /\ pc[r] = "delete_prefs"
    /\ Execute([db EXCEPT !.prefs = @ \ {user[r]}])
    /\ Advance(r, "delete_user")
    /\ UNCHANGED External

DeleteUser(r) ==
    /\ pc[r] = "delete_user"
    /\ IF user[r] \in db.users /\ StillReferenced(user[r])
       THEN Reply(r, "failed") /\ UNCHANGED storageVars
       ELSE /\ Execute([db EXCEPT !.users = @ \ {user[r]}])
            /\ Advance(r, "delete_pending")
    /\ UNCHANGED External

DeletePending(r) ==
    /\ pc[r] = "delete_pending"
    /\ Execute([db EXCEPT !.pending = @ \ {user[r]}])
    /\ Advance(r, "commit_cleanup")
    /\ UNCHANGED External

\* Mutant: the cleanup forgets its commit.
CommitCleanup_Forgotten(r) ==
    /\ pc[r] = "commit_cleanup"
    /\ Reply(r, "done")
    /\ UNCHANGED <<storageVars, External>>

CommitCleanup(r) ==
    /\ pc[r] = "commit_cleanup"
    /\ Commit
    /\ Reply(r, "done")
    /\ UNCHANGED External

-----------------------------------------------------------------------------
(* Firebase: it applies a delete_user call, and its answer may be lost.    *)

FirebaseApplies(p) ==
    /\ call[p] = "sent"
    /\ call' = [call EXCEPT ![p] = IF account[user[p]] = "live" THEN "ok" ELSE "not_found"]
    /\ account' = [account EXCEPT ![user[p]] = "gone"]
    /\ UNCHANGED <<storageVars, serverVars, pc, requestVars, late, historyVars>>

\* The SDK raises: the call was refused, or the connection broke before or
\* after Firebase applied it.
FirebaseRaises(p) ==
    /\ call[p] \in {"sent", "ok"}
    /\ call' = [call EXCEPT ![p] = "error"]
    /\ UNCHANGED <<storageVars, serverVars, pc, requestVars, firebaseVars, historyVars>>

\* A call that nobody waits for is applied, or comes to nothing.
LateCallLands(u) ==
    /\ u \in late
    /\ late' = late \ {u}
    /\ \/ account' = [account EXCEPT ![u] = "gone"]
       \/ UNCHANGED account
    /\ UNCHANGED <<storageVars, serverVars, pc, requestVars, call, historyVars>>

-----------------------------------------------------------------------------
(* The server: lifespan, TimeoutMiddleware, and the end of the process.    *)

\* init_firebase_admin may fail without failing the start.
Boot ==
    /\ phase = "down"
    /\ phase' = "starting"
    /\ sdkReady' \in BOOLEAN
    /\ todo' = db.pending
    /\ UNCHANGED <<storageVars, crashes, pc, requestVars, call, firebaseVars, historyVars>>

NextPending ==
    /\ phase = "starting"
    /\ pc[Startup] = "idle"
    /\ \E u \in todo :
         /\ user' = [user EXCEPT ![Startup] = u]
         /\ kind' = [kind EXCEPT ![Startup] = "startup"]
    /\ Goto(Startup, "reconcile")
    /\ UNCHANGED <<storageVars, External, historyVars>>

Serve ==
    /\ phase = "starting"
    /\ pc[Startup] = "idle"
    /\ todo = {}
    /\ phase' = "serving"
    /\ UNCHANGED <<storageVars, sdkReady, todo, crashes, pc, requestVars, call,
                   firebaseVars, historyVars>>

\* asyncio.wait_for(call_next) cancels the handler at the await it is at; the
\* thread of its Firebase call goes on, and what it executed stays executed.
RequestTimeout(r) ==
    /\ MayTimeOut
    /\ pc[r] \notin Resting
    /\ Abandon(r)
    /\ Reply(r, "failed")
    /\ UNCHANGED <<storageVars, serverVars, account>>

OnTheWire == {user[p] : p \in {q \in Processes : call[q] = "sent"}}

\* Calls on the wire may still reach Firebase.
Crash ==
    /\ phase # "down"
    /\ crashes < MaxCrashes
    /\ crashes' = crashes + 1
    /\ phase' = "down" /\ sdkReady' = FALSE /\ todo' = {}
    /\ Reopen
    /\ pc' = [p \in Processes |-> "idle"]
    /\ kind' = [p \in Processes |-> "none"]
    /\ user' = [p \in Processes |-> NoUser]
    /\ call' = [p \in Processes |-> "none"]
    /\ overlap' = [r \in Requests |-> FALSE]
    /\ late' = late \cup OnTheWire
    /\ UNCHANGED <<account, requested, outcomes>>

-----------------------------------------------------------------------------
ReconcileStep(p) ==
    \/ Reconcile(p) \/ ReconcileGet(p) \/ ReconcileDelete(p)
    \/ ReconcileAnswered(p) \/ ReconcileGaveUp(p)
    \/ ClearPending(p) \/ CommitClear(p)

HandlerStep(r) ==
    \/ VerifyToken(r) \/ RejectToken(r)
    \/ SelectUser(r) \/ InsertUser(r) \/ RequeryUser(r) \/ CommitUser(r)
    \/ SelectPrefs(r) \/ InsertPrefs(r) \/ RequeryPrefs(r) \/ CommitPrefs(r)
    \/ UpsertPrefs(r)
    \/ FetchManga(r) \/ UpsertEntry(r) \/ DeleteEntry(r) \/ CommitWrite(r)
    \/ FirebaseDelete(r) \/ FirebaseAnswered(r) \/ FirebaseTimedOut(r)
    \/ FirebaseFailed(r) \/ SavePending(r) \/ CommitSave(r)
    \/ DeleteLibrary(r) \/ DeletePrefs(r) \/ DeleteUser(r) \/ DeletePending(r)
    \/ CommitCleanup(r)

Next ==
    \/ \E p \in Processes : ReconcileStep(p) \/ FirebaseApplies(p) \/ FirebaseRaises(p)
    \/ \E r \in Requests : Receive(r) \/ HandlerStep(r) \/ RequestTimeout(r)
    \/ \E u \in Users : LateCallLands(u)
    \/ Boot \/ NextPending \/ Serve \/ Crash

(***************************************************************************)
(* Every step of a handler comes: get_user and delete_user are waited for  *)
(* 10 s at most, and the database answers.  verify_id_token has no such    *)
(* limit: it blocks the event loop, TimeoutMiddleware cannot cut it, and   *)
(* that it ends rests on the SDK's own network timeout.  Firebase owes     *)
(* nothing to a delete_user call.                                          *)
(***************************************************************************)
Fairness ==
    /\ \A r \in Requests : WF_vars(ReconcileStep(r) \/ HandlerStep(r))
    /\ WF_vars(ReconcileStep(Startup))
    /\ WF_vars(Boot) /\ WF_vars(NextPending) /\ WF_vars(Serve)

Spec == Init /\ [][Next]_vars
FairSpec == Spec /\ Fairness

-----------------------------------------------------------------------------
(* Properties.                                                             *)

TypeOK ==
    /\ StorageTypeOK
    /\ phase \in {"down", "starting", "serving"}
    /\ sdkReady \in BOOLEAN
    /\ todo \in SUBSET Users
    /\ crashes \in 0..MaxCrashes
    /\ pc \in [Processes -> Labels]
    /\ kind \in [Processes -> AllKinds \cup {"me_handler", "startup", "none"}]
    /\ user \in [Processes -> Users \cup {NoUser}]
    /\ call \in [Processes -> CallStates]
    /\ \A p \in Processes :
         call[p] # "none" => pc[p] \in {"reconcile_wait", "firebase_wait"}
    /\ account \in [Users -> {"live", "gone"}]
    /\ late \in SUBSET Users
    /\ requested \in SUBSET Users
    /\ outcomes \in [Users -> SUBSET Outcomes]
    /\ overlap \in [Requests -> BOOLEAN]

\* A Firebase account disappears only if its owner asked for it: every call
\* that can delete u, and every record that makes a later start send one,
\* descends from an authenticated DELETE of u (_delete_firebase_user,
\* _reconcile_pending_deletion, process_all_pending_deletions).
FirebaseDeletionWasRequested ==
    \A u \in Users \ requested :
        /\ account[u] = "live" /\ u \notin late
        /\ u \notin db.pending /\ u \notin disk.pending

\* No durable account row or preferences are lost (by a statement, by another
\* request's commit, by a crash) unless Firebase no longer knows the user or
\* its answer did not come in time: a failure that Firebase reports leaves
\* local data alone (delete_account, _cleanup_local_data, the shared commit).
\* The timeout is excused because delete_account says so ("local cleanup runs
\* regardless"); openspec feat-74 (spec.md:55, F5) wants a 502 and no cleanup.
ErasureIsEarned ==
    [][\A u \in Users :
         \/ u \in disk.users /\ u \notin disk'.users
         \/ u \in disk.prefs /\ u \notin disk'.prefs
         => account[u] = "gone" \/ outcomes[u] \cap {"timeout", "skipped"} # {}]_vars

(***************************************************************************)
(* The contract: Accounts implements AccountContract.                      *)
(***************************************************************************)
Contract == INSTANCE AccountContract WITH
    asked   <- requested,
    excused <- {u \in Users : outcomes[u] \cap {"timeout", "skipped"} # {}},
    letIn   <- {user[r] : r \in {q \in Requests : AtWork(q)}},
    visible <- db.users,
    durable <- disk.users

\* Whatever handlers, database, Firebase and crashes do is what the contract
\* of accounts allows: a deleted account opens no request again (check_revoked),
\* a users row comes only from a request that was let in (get_or_create_user)
\* and goes, visibly or durably, only with the account (delete_account).
ImplementsContract == Contract!Spec

\* Preferences and library entries without their users row exist only for
\* users whose deletion got as far as the local cleanup: although SQLite
\* checks no foreign key, a bootstrap precedes every write, also across the
\* shared connection's commits and a crash that loses what was not committed.
OrphansOnlyAfterDeletion ==
    \A u \in Users : \A t \in {db, disk} :
        HasRows(t, u) /\ u \notin t.users => outcomes[u] # {}

\* When DELETE answers 204 and no other request of the user worked at the same
\* time, nothing of the user is left, durably (_cleanup_local_data).
ErasedWhenAnswered ==
    [][\A r \in Requests :
         pc[r] = "commit_cleanup" /\ pc'[r] = "done" /\ ~overlap[r]
         => ~HasRows(disk', user[r])]_vars

\* PostgreSQL never refuses the removal of the users row because of rows that the
\* cleanup itself should have removed before: only another request of the user
\* can put a row in its way (_cleanup_local_data's "FK-safe order").
ForeignKeySafeOrder ==
    \A r \in Requests :
        pc[r] = "delete_user" /\ StillReferenced(user[r]) => overlap[r]

\* The lifespan reaches its yield whatever Firebase does: every reconciliation
\* ends, and a failed one does not stop the others.
StartEnds == phase = "starting" ~> phase # "starting"

\* Every request is answered, or the process dies.
RequestsEnd == \A r \in Requests : pc[r] \notin Resting ~> pc[r] \in Resting

Quiet(u) == phase = "serving" /\ \A r \in Requests : user[r] # u

\* delete_account's docstring: "a pending-deletion record is saved so a later
\* reconciliation pass can retry".  (Violated: _cleanup_local_data deletes it.)
TimeoutLeavesRecord ==
    \A u \in Users :
        "timeout" \in outcomes[u] /\ account[u] = "live" /\ Quiet(u)
        => u \in db.pending

\* openspec feat-74, NF2: "Deletion is safe to retry -- no partial state on
\* retry".  A user whose account is gone is refused by verify_id_token, so what
\* a broken deletion leaves behind needs a record to be found again.  (Violated.)
SafeToRetry ==
    \A u \in Users :
        account[u] = "gone" /\ Quiet(u)
        => ~HasRows(disk, u) \/ u \in disk.pending

\* delete_me's docstring: "Delete the authenticated account and all associated
\* data".  Once a deletion went through and no request of the user is left,
\* nothing of the user is.  (Violated by a request in flight.)
DeletedForGood ==
    \A u \in Users :
        "deleted" \in outcomes[u] /\ account[u] = "gone" /\ Quiet(u)
        => ~HasRows(db, u)
=============================================================================
