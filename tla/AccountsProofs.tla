--------------------------- MODULE AccountsProofs ---------------------------
(***************************************************************************)
(* What holds of Accounts for every set of users, every number of          *)
(* concurrent requests and both databases.                                 *)
(***************************************************************************)
EXTENDS Accounts, TLAPS

DeletionLabels == ReconcileLabels \cup FirebaseLabels \cup CleanupLabels

\* Labels that _delete_firebase_user leads to only without an exception.
ResolvedLabels == CleanupLabels \cup {"save_pending", "commit_save"}

\* Labels that a request reaches only with its users row in place.
BootstrappedLabels == PrefsLabels \cup LibraryLabels \cup {"commit_user", "commit_write"}

\* The startup process does nothing but reconcile.
StartupInv == pc[Startup] \in ReconcileLabels \cup {"idle"}

\* Whoever is not resting serves a user.
ServesInv == \A p \in Processes : pc[p] \notin Resting => user[p] \in Users

\* A call is answered while its process waits for it.
CallInv ==
    \A p \in Processes :
        call[p] # "none" => pc[p] \in {"reconcile_wait", "firebase_wait"}

RequestedInv ==
    /\ \A p \in Processes : pc[p] \in DeletionLabels => user[p] \in requested
    /\ todo \subseteq requested
    /\ FirebaseDeletionWasRequested

\* What Firebase confirmed is so.
ConfirmedInv ==
    /\ \A p \in Processes : call[p] \in {"ok", "not_found"} => account[user[p]] = "gone"
    /\ \A u \in Users : "deleted" \in outcomes[u] => account[u] = "gone"

ResolvedInv ==
    \A p \in Processes : pc[p] \in ResolvedLabels => outcomes[user[p]] # {}

BootstrappedInv ==
    \A p \in Processes :
        pc[p] \in BootstrappedLabels
        => user[p] \in db.users \/ outcomes[user[p]] # {}

\* What the tables no longer show although it is still durable.
UncommittedInv ==
    \A u \in Users :
        \/ u \in disk.users /\ u \notin db.users
        \/ u \in disk.prefs /\ u \notin db.prefs
        => outcomes[u] # {}

IInv ==
    /\ TypeOK
    /\ StartupInv
    /\ ServesInv
    /\ CallInv
    /\ RequestedInv
    /\ ConfirmedInv
    /\ ResolvedInv
    /\ BootstrappedInv
    /\ UncommittedInv
    /\ OrphansOnlyAfterDeletion

-----------------------------------------------------------------------------
USE AccountsAssumption, DatabasesAssumption
    DEF Processes, Labels, Resting, BootstrapLabels, PrefsLabels, LibraryLabels,
        ReconcileLabels, FirebaseLabels, CleanupLabels, DeletionLabels,
        ResolvedLabels, BootstrappedLabels, CallStates, Outcomes, AllKinds,
        Tables, storageVars, serverVars, requestVars, firebaseVars, historyVars,
        External, Goto, HasRows, Entries

USE DEF IInv, TypeOK, StorageTypeOK, StartupInv, ServesInv, CallInv, RequestedInv,
        FirebaseDeletionWasRequested, ConfirmedInv, ResolvedInv, BootstrappedInv,
        UncommittedInv, OrphansOnlyAfterDeletion

LEMMA InitInv == Init => IInv
<1> SUFFICES ASSUME Init PROVE IInv
  OBVIOUS
<1> USE DEF Init, StorageInit, EmptyTables
<1>1. TypeOK
  <2>1. crashes \in 0..MaxCrashes
    OBVIOUS
  <2>2. StorageTypeOK
    OBVIOUS
  <2> QED
    BY <2>1, <2>2
<1>2. StartupInv
  OBVIOUS
<1>3. ServesInv
  OBVIOUS
<1>4. CallInv
  OBVIOUS
<1>5. RequestedInv
  OBVIOUS
<1>6. ConfirmedInv
  OBVIOUS
<1>7. ResolvedInv
  OBVIOUS
<1>8. BootstrappedInv
  OBVIOUS
<1>9. UncommittedInv
  OBVIOUS
<1>10. OrphansOnlyAfterDeletion
  OBVIOUS
<1> QED
  BY <1>1, <1>2, <1>3, <1>4, <1>5, <1>6, <1>7, <1>8, <1>9, <1>10

(* An answer that leaves Firebase and the server alone keeps the invariant,
   with or without the commit that precedes it.                            *)
LEMMA ReplyStep ==
  ASSUME IInv, NEW r \in Requests, NEW status \in Resting,
         Reply(r, status), call[r] = "none",
         UNCHANGED External, UNCHANGED storageVars \/ Commit
  PROVE  IInv'
<1>1. TypeOK'
  BY DEF Reply, Commit
<1>2. StartupInv'
  BY DEF Reply, Commit
<1>3. ServesInv'
  BY DEF Reply, Commit
<1>4. CallInv'
  BY DEF Reply, Commit
<1>5. RequestedInv'
  BY DEF Reply, Commit
<1>6. ConfirmedInv'
  BY DEF Reply, Commit
<1>7. ResolvedInv'
  BY DEF Reply, Commit
<1>8. BootstrappedInv'
  BY DEF Reply, Commit
<1>9. UncommittedInv'
  BY DEF Reply, Commit
<1>10. OrphansOnlyAfterDeletion'
  BY DEF Reply, Commit
<1> QED
  BY <1>1, <1>2, <1>3, <1>4, <1>5, <1>6, <1>7, <1>8, <1>9, <1>10

(* So does a handler's move to its next await, when what the label promises
   holds: an authenticated DELETE, a resolved Firebase step, a users row.   *)
LEMMA AdvanceStep ==
  ASSUME IInv, NEW r \in Requests, NEW label \in Labels \ {"idle"},
         Advance(r, label), call[r] = "none", user[r] \in Users,
         label \in DeletionLabels => user[r] \in requested,
         label \in ResolvedLabels => outcomes[user[r]] # {},
         label \in BootstrappedLabels
           => user[r] \in db.users \/ outcomes[user[r]] # {},
         UNCHANGED External, UNCHANGED storageVars \/ Commit
  PROVE  IInv'
<1>1. TypeOK'
  BY DEF Advance, Commit
<1>2. StartupInv'
  BY DEF Advance, Commit
<1>3. ServesInv'
  BY DEF Advance, Commit
<1>4. CallInv'
  BY DEF Advance, Commit
<1>5. RequestedInv'
  BY DEF Advance, Commit
<1>6. ConfirmedInv'
  BY DEF Advance, Commit
<1>7. ResolvedInv'
  BY DEF Advance, Commit
<1>8. BootstrappedInv'
  BY DEF Advance, Commit
<1>9. UncommittedInv'
  BY DEF Advance, Commit
<1>10. OrphansOnlyAfterDeletion'
  BY DEF Advance, Commit
<1> QED
  BY <1>1, <1>2, <1>3, <1>4, <1>5, <1>6, <1>7, <1>8, <1>9, <1>10

LEMMA AfterBootstrapStep ==
  ASSUME IInv, NEW r \in Requests,
         AfterBootstrap(r), call[r] = "none", user[r] \in Users,
         user[r] \in db.users \/ outcomes[user[r]] # {},
         UNCHANGED External, UNCHANGED storageVars \/ Commit
  PROVE  IInv'
<1>1. CASE /\ Goto(r, "select_user")
           /\ kind' = [kind EXCEPT ![r] = "me_handler"]
           /\ UNCHANGED <<user, historyVars>>
  <2>1. TypeOK'
    BY <1>1 DEF Commit
  <2>2. StartupInv'
    BY <1>1 DEF Commit
  <2>3. ServesInv'
    BY <1>1 DEF Commit
  <2>4. CallInv'
    BY <1>1 DEF Commit
  <2>5. RequestedInv'
    BY <1>1 DEF Commit
  <2>6. ConfirmedInv'
    BY <1>1 DEF Commit
  <2>7. ResolvedInv'
    BY <1>1 DEF Commit
  <2>8. BootstrappedInv'
    BY <1>1 DEF Commit
  <2>9. UncommittedInv'
    BY <1>1 DEF Commit
  <2>10. OrphansOnlyAfterDeletion'
    BY <1>1 DEF Commit
  <2> QED
    BY <2>1, <2>2, <2>3, <2>4, <2>5, <2>6, <2>7, <2>8, <2>9, <2>10
<1>2. CASE Reply(r, "done") \/ Reply(r, "failed")
  BY <1>2, ReplyStep
<1>3. CASE \E label \in {"select_prefs", "fetch_manga", "delete_entry"} : Advance(r, label)
  BY <1>3, AdvanceStep
<1> QED
  BY <1>1, <1>2, <1>3 DEF AfterBootstrap

LEMMA AfterPrefsStep ==
  ASSUME IInv, NEW r \in Requests,
         AfterPrefs(r), call[r] = "none", user[r] \in Users,
         user[r] \in db.users \/ outcomes[user[r]] # {},
         UNCHANGED External, UNCHANGED storageVars \/ Commit
  PROVE  IInv'
<1>1. CASE Advance(r, "upsert_prefs")
  BY <1>1, AdvanceStep
<1>2. CASE Reply(r, "done")
  BY <1>2, ReplyStep
<1> QED
  BY <1>1, <1>2 DEF AfterPrefs

LEMMA ReconcileSteps ==
  ASSUME IInv, NEW p \in Processes, ReconcileStep(p)
  PROVE  IInv'
<1>1. CASE Reconcile(p)
  BY <1>1 DEF Reconcile, AfterReconcile, Advance
<1>2. CASE ReconcileGet(p)
  BY <1>2 DEF ReconcileGet, AfterReconcile, Advance
<1>3. CASE ReconcileDelete(p)
  BY <1>3 DEF ReconcileDelete, Advance
<1>4. CASE ReconcileAnswered(p)
  BY <1>4 DEF ReconcileAnswered, Advance
<1>5. CASE ReconcileGaveUp(p)
  BY <1>5 DEF ReconcileGaveUp, AfterReconcile, Abandon, Advance
<1>6. CASE ClearPending(p)
  BY <1>6 DEF ClearPending, Execute, Advance
<1>7. CASE CommitClear(p)
  BY <1>7 DEF CommitClear, AfterReconcile, Commit, Advance
<1> QED
  BY <1>1, <1>2, <1>3, <1>4, <1>5, <1>6, <1>7 DEF ReconcileStep

LEMMA AuthenticationSteps ==
  ASSUME IInv, NEW r \in Requests, Receive(r) \/ VerifyToken(r) \/ RejectToken(r)
  PROVE  IInv'
<1>1. CASE Receive(r)
  BY <1>1 DEF Receive
<1>2. CASE VerifyToken(r)
  <2> USE <1>2 DEF VerifyToken
  <2>1. overlap' \in [Requests -> BOOLEAN]
    BY DEF Working, AtWork
  <2>11. TypeOK'
    BY <2>1
  <2>2. StartupInv'
    OBVIOUS
  <2>3. ServesInv'
    OBVIOUS
  <2>4. CallInv'
    OBVIOUS
  <2>5. RequestedInv'
    OBVIOUS
  <2>6. ConfirmedInv'
    OBVIOUS
  <2>7. ResolvedInv'
    OBVIOUS
  <2>8. BootstrappedInv'
    OBVIOUS
  <2>9. UncommittedInv'
    OBVIOUS
  <2>10. OrphansOnlyAfterDeletion'
    OBVIOUS
  <2> QED
    BY <2>11, <2>2, <2>3, <2>4, <2>5, <2>6, <2>7, <2>8, <2>9, <2>10
<1>3. CASE RejectToken(r)
  BY <1>3, ReplyStep DEF RejectToken
<1> QED
  BY <1>1, <1>2, <1>3

LEMMA BootstrapSteps ==
  ASSUME IInv, NEW r \in Requests,
         \/ SelectUser(r) \/ InsertUser(r) \/ RequeryUser(r) \/ CommitUser(r)
  PROVE  IInv'
<1>0. pc[r] \in BootstrapLabels /\ call[r] = "none" /\ user[r] \in Users
  BY DEF SelectUser, InsertUser, RequeryUser, CommitUser
<1>1. CASE SelectUser(r)
  BY <1>0, <1>1, AfterBootstrapStep, AdvanceStep DEF SelectUser
<1>2. CASE InsertUser(r)
  BY <1>2 DEF InsertUser, Execute, Advance
<1>3. CASE RequeryUser(r)
  BY <1>0, <1>3, AdvanceStep, ReplyStep DEF RequeryUser
<1>4. CASE CommitUser(r)
  BY <1>0, <1>4, AfterBootstrapStep DEF CommitUser
<1> QED
  BY <1>1, <1>2, <1>3, <1>4

LEMMA PrefsSteps ==
  ASSUME IInv, NEW r \in Requests,
         \/ SelectPrefs(r) \/ InsertPrefs(r) \/ RequeryPrefs(r) \/ CommitPrefs(r)
         \/ UpsertPrefs(r)
  PROVE  IInv'
<1>0. /\ pc[r] \in PrefsLabels /\ call[r] = "none" /\ user[r] \in Users
      /\ user[r] \in db.users \/ outcomes[user[r]] # {}
  BY DEF SelectPrefs, InsertPrefs, RequeryPrefs, CommitPrefs, UpsertPrefs
<1>1. CASE SelectPrefs(r)
  BY <1>0, <1>1, AfterPrefsStep, AdvanceStep DEF SelectPrefs
<1>2. CASE InsertPrefs(r)
  <2>1. CASE Advance(r, "requery_prefs") /\ UNCHANGED storageVars
    BY <1>0, <1>2, <2>1, AdvanceStep DEF InsertPrefs
  <2>2. CASE Reply(r, "failed") /\ UNCHANGED storageVars
    BY <1>0, <1>2, <2>2, ReplyStep DEF InsertPrefs
  <2>3. CASE Execute([db EXCEPT !.prefs = @ \cup {user[r]}]) /\ Advance(r, "commit_prefs")
    BY <1>0, <1>2, <2>3 DEF InsertPrefs, Execute, Advance
  <2> QED
    BY <1>2, <2>1, <2>2, <2>3 DEF InsertPrefs
<1>3. CASE RequeryPrefs(r)
  BY <1>0, <1>3, AdvanceStep, ReplyStep DEF RequeryPrefs
<1>4. CASE CommitPrefs(r)
  BY <1>0, <1>4, AfterPrefsStep DEF CommitPrefs
<1>5. CASE UpsertPrefs(r)
  <2>1. CASE Reply(r, "failed") /\ UNCHANGED storageVars
    BY <1>0, <1>5, <2>1, ReplyStep DEF UpsertPrefs
  <2>2. CASE Execute([db EXCEPT !.prefs = @ \cup {user[r]}]) /\ Advance(r, "commit_write")
    BY <1>0, <1>5, <2>2 DEF UpsertPrefs, Execute, Advance
  <2> QED
    BY <1>5, <2>1, <2>2 DEF UpsertPrefs
<1> QED
  BY <1>1, <1>2, <1>3, <1>4, <1>5

LEMMA LibrarySteps ==
  ASSUME IInv, NEW r \in Requests,
         \/ FetchManga(r) \/ UpsertEntry(r) \/ DeleteEntry(r) \/ CommitWrite(r)
  PROVE  IInv'
<1>0. /\ pc[r] \in LibraryLabels \cup {"commit_write"}
      /\ call[r] = "none" /\ user[r] \in Users
      /\ user[r] \in db.users \/ outcomes[user[r]] # {}
  BY DEF FetchManga, UpsertEntry, DeleteEntry, CommitWrite
<1>1. CASE FetchManga(r)
  BY <1>0, <1>1, AdvanceStep, ReplyStep DEF FetchManga
<1>2. CASE UpsertEntry(r)
  <2>1. CASE Reply(r, "failed") /\ UNCHANGED storageVars
    BY <1>0, <1>2, <2>1, ReplyStep DEF UpsertEntry
  <2>2. ASSUME NEW m \in Mangas,
               Execute([db EXCEPT !.library = @ \cup {<<user[r], m>>}]),
               Advance(r, "commit_write")
        PROVE  IInv'
    BY <1>0, <1>2, <2>2 DEF UpsertEntry, Execute, Advance
  <2> QED
    BY <1>2, <2>1, <2>2 DEF UpsertEntry
<1>3. CASE DeleteEntry(r)
  BY <1>0, <1>3 DEF DeleteEntry, Execute, Advance
<1>4. CASE CommitWrite(r)
  BY <1>0, <1>4, ReplyStep DEF CommitWrite
<1> QED
  BY <1>1, <1>2, <1>3, <1>4

LEMMA FirebaseSteps ==
  ASSUME IInv, NEW r \in Requests,
         \/ FirebaseDelete(r) \/ FirebaseAnswered(r) \/ FirebaseTimedOut(r)
         \/ FirebaseFailed(r) \/ SavePending(r) \/ CommitSave(r)
  PROVE  IInv'
<1>0. user[r] \in Users /\ user[r] \in requested
  BY DEF FirebaseDelete, FirebaseAnswered, FirebaseTimedOut, FirebaseFailed,
         SavePending, CommitSave
<1>1. CASE FirebaseDelete(r)
  <2>1. TypeOK'
    BY <1>0, <1>1 DEF FirebaseDelete, Advance, Resolved
  <2>2. StartupInv'
    BY <1>0, <1>1 DEF FirebaseDelete, Advance, Resolved
  <2>3. ServesInv'
    BY <1>0, <1>1 DEF FirebaseDelete, Advance, Resolved
  <2>4. CallInv'
    BY <1>0, <1>1 DEF FirebaseDelete, Advance, Resolved
  <2>5. RequestedInv'
    BY <1>0, <1>1 DEF FirebaseDelete, Advance, Resolved
  <2>6. ConfirmedInv'
    BY <1>0, <1>1 DEF FirebaseDelete, Advance, Resolved
  <2>7. ResolvedInv'
    <3>1. CASE sdkReady
      BY <1>0, <1>1, <3>1 DEF FirebaseDelete, Advance
    <3>2. CASE ~sdkReady
      <4>1. outcomes' = [outcomes EXCEPT ![user[r]] = @ \cup {"skipped"}]
        BY <1>1, <3>2 DEF FirebaseDelete, Resolved
      <4>2. \A u \in Users : outcomes[u] # {} => outcomes'[u] # {}
        BY <1>0, <4>1
      <4>3. outcomes'[user[r]] # {}
        BY <1>0, <4>1
      <4> QED
        BY <1>0, <1>1, <3>2, <4>2, <4>3 DEF FirebaseDelete, Resolved
    <3> QED
      BY <3>1, <3>2
  <2>8. BootstrappedInv'
    BY <1>0, <1>1 DEF FirebaseDelete, Advance, Resolved
  <2>9. UncommittedInv'
    BY <1>0, <1>1 DEF FirebaseDelete, Advance, Resolved
  <2>10. OrphansOnlyAfterDeletion'
    BY <1>0, <1>1 DEF FirebaseDelete, Advance, Resolved
  <2> QED
    BY <2>1, <2>2, <2>3, <2>4, <2>5, <2>6, <2>7, <2>8, <2>9, <2>10
<1>2. CASE FirebaseAnswered(r)
  BY <1>0, <1>2 DEF FirebaseAnswered, Resolved
<1>3. CASE FirebaseTimedOut(r)
  <2>1. TypeOK'
    BY <1>0, <1>3 DEF FirebaseTimedOut, Abandon, Resolved
  <2>2. StartupInv'
    BY <1>0, <1>3 DEF FirebaseTimedOut, Abandon, Resolved
  <2>3. ServesInv'
    BY <1>0, <1>3 DEF FirebaseTimedOut, Abandon, Resolved
  <2>4. CallInv'
    BY <1>0, <1>3 DEF FirebaseTimedOut, Abandon, Resolved
  <2>5. RequestedInv'
    BY <1>0, <1>3 DEF FirebaseTimedOut, Abandon, Resolved
  <2>6. ConfirmedInv'
    BY <1>0, <1>3 DEF FirebaseTimedOut, Abandon, Resolved
  <2>7. ResolvedInv'
    <3>1. \A u \in Users : outcomes[u] # {} => outcomes'[u] # {}
      BY <1>0, <1>3 DEF FirebaseTimedOut, Resolved
    <3>2. outcomes'[user[r]] # {}
      BY <1>0, <1>3 DEF FirebaseTimedOut, Resolved
    <3> QED
      BY <1>0, <1>3, <3>1, <3>2 DEF FirebaseTimedOut, Resolved
  <2>8. BootstrappedInv'
    BY <1>0, <1>3 DEF FirebaseTimedOut, Abandon, Resolved
  <2>9. UncommittedInv'
    BY <1>0, <1>3 DEF FirebaseTimedOut, Abandon, Resolved
  <2>10. OrphansOnlyAfterDeletion'
    BY <1>0, <1>3 DEF FirebaseTimedOut, Abandon, Resolved
  <2> QED
    BY <2>1, <2>2, <2>3, <2>4, <2>5, <2>6, <2>7, <2>8, <2>9, <2>10
<1>4. CASE FirebaseFailed(r)
  BY <1>0, <1>4 DEF FirebaseFailed, Reply
<1>5. CASE SavePending(r)
  <2>1. CASE Reply(r, "failed") /\ UNCHANGED storageVars
    BY <1>0, <1>5, <2>1, ReplyStep DEF SavePending
  <2>2. CASE Execute([db EXCEPT !.pending = @ \cup {user[r]}]) /\ Advance(r, "commit_save")
    <3>1. TypeOK'
      BY <1>0, <1>5, <2>2 DEF SavePending, Execute, Advance
    <3>2. StartupInv'
      BY <1>0, <1>5, <2>2 DEF SavePending, Execute, Advance
    <3>3. ServesInv'
      BY <1>0, <1>5, <2>2 DEF SavePending, Execute, Advance
    <3>4. CallInv'
      BY <1>0, <1>5, <2>2 DEF SavePending, Execute, Advance
    <3>5. RequestedInv'
      BY <1>0, <1>5, <2>2 DEF SavePending, Execute, Advance
    <3>6. ConfirmedInv'
      BY <1>0, <1>5, <2>2 DEF SavePending, Execute, Advance
    <3>7. ResolvedInv'
      BY <1>0, <1>5, <2>2 DEF SavePending, Execute, Advance
    <3>8. BootstrappedInv'
      BY <1>0, <1>5, <2>2 DEF SavePending, Execute, Advance
    <3>9. UncommittedInv'
      BY <1>0, <1>5, <2>2 DEF SavePending, Execute, Advance
    <3>10. OrphansOnlyAfterDeletion'
      BY <1>0, <1>5, <2>2 DEF SavePending, Execute, Advance
    <3> QED
      BY <3>1, <3>2, <3>3, <3>4, <3>5, <3>6, <3>7, <3>8, <3>9, <3>10
  <2> QED
    BY <1>5, <2>1, <2>2 DEF SavePending
<1>6. CASE CommitSave(r)
  <2>1. /\ Advance(r, "delete_library") /\ Commit /\ UNCHANGED External
        /\ call[r] = "none" /\ outcomes[user[r]] # {}
    BY <1>6 DEF CommitSave
  <2> QED
    BY <1>0, <2>1, AdvanceStep
<1> HIDE DEF IInv
<1> QED
  BY <1>1, <1>2, <1>3, <1>4, <1>5, <1>6

LEMMA CleanupSteps ==
  ASSUME IInv, NEW r \in Requests,
         \/ DeleteLibrary(r) \/ DeletePrefs(r) \/ DeleteUser(r)
         \/ DeletePending(r) \/ CommitCleanup(r)
  PROVE  IInv'
<1>0. /\ call[r] = "none" /\ user[r] \in Users
      /\ user[r] \in requested /\ outcomes[user[r]] # {}
  BY DEF DeleteLibrary, DeletePrefs, DeleteUser, DeletePending, CommitCleanup
<1>1. CASE DeleteLibrary(r)
  BY <1>0, <1>1 DEF DeleteLibrary, Execute, Advance
<1>2. CASE DeletePrefs(r)
  BY <1>0, <1>2 DEF DeletePrefs, Execute, Advance
<1>3. CASE DeleteUser(r)
  <2>1. CASE Reply(r, "failed") /\ UNCHANGED storageVars
    BY <1>0, <1>3, <2>1, ReplyStep DEF DeleteUser
  <2>2. CASE Execute([db EXCEPT !.users = @ \ {user[r]}]) /\ Advance(r, "delete_pending")
    BY <1>0, <1>3, <2>2 DEF DeleteUser, Execute, Advance
  <2> QED
    BY <1>3, <2>1, <2>2 DEF DeleteUser
<1>4. CASE DeletePending(r)
  BY <1>0, <1>4 DEF DeletePending, Execute, Advance
<1>5. CASE CommitCleanup(r)
  BY <1>0, <1>5, ReplyStep DEF CommitCleanup
<1> QED
  BY <1>1, <1>2, <1>3, <1>4, <1>5

LEMMA EnvironmentSteps ==
  ASSUME IInv,
         \/ \E p \in Processes : FirebaseApplies(p) \/ FirebaseRaises(p)
         \/ \E r \in Requests : RequestTimeout(r)
         \/ \E u \in Users : LateCallLands(u)
         \/ Crash
  PROVE  IInv'
<1>1. ASSUME NEW p \in Processes, FirebaseApplies(p)
      PROVE  IInv'
  BY <1>1 DEF FirebaseApplies
<1>2. ASSUME NEW p \in Processes, FirebaseRaises(p)
      PROVE  IInv'
  BY <1>2 DEF FirebaseRaises
<1>3. ASSUME NEW r \in Requests, RequestTimeout(r)
      PROVE  IInv'
  BY <1>3 DEF RequestTimeout, Abandon, Reply
<1>4. ASSUME NEW u \in Users, LateCallLands(u)
      PROVE  IInv'
  BY <1>4 DEF LateCallLands
<1>5. CASE Crash
  <2>0. OnTheWire \subseteq Users \cap requested
    BY DEF OnTheWire
  <2>1. TypeOK'
    <3>1. crashes' \in 0..MaxCrashes
      BY <1>5 DEF Crash
    <3>2. late' \in SUBSET Users
      BY <1>5, <2>0 DEF Crash
    <3>3. storageVars' \in Tables \X Tables \X BOOLEAN
      BY <1>5 DEF Crash, Reopen
    <3> QED
      BY <1>5, <3>1, <3>2, <3>3 DEF Crash
  <2>2. StartupInv'
    BY <1>5, <2>0 DEF Crash, Reopen
  <2>3. ServesInv'
    BY <1>5, <2>0 DEF Crash, Reopen
  <2>4. CallInv'
    BY <1>5, <2>0 DEF Crash, Reopen
  <2>5. RequestedInv'
    BY <1>5, <2>0 DEF Crash, Reopen
  <2>6. ConfirmedInv'
    BY <1>5, <2>0 DEF Crash, Reopen
  <2>7. ResolvedInv'
    BY <1>5, <2>0 DEF Crash, Reopen
  <2>8. BootstrappedInv'
    BY <1>5, <2>0 DEF Crash, Reopen
  <2>9. UncommittedInv'
    BY <1>5, <2>0 DEF Crash, Reopen
  <2>10. OrphansOnlyAfterDeletion'
    BY <1>5, <2>0 DEF Crash, Reopen
  <2> QED
    BY <2>1, <2>2, <2>3, <2>4, <2>5, <2>6, <2>7, <2>8, <2>9, <2>10
<1> QED
  BY <1>1, <1>2, <1>3, <1>4, <1>5

LEMMA ServerSteps ==
  ASSUME IInv, Boot \/ NextPending \/ Serve
  PROVE  IInv'
<1>1. CASE Boot
  BY <1>1 DEF Boot
<1>2. CASE NextPending
  BY <1>2 DEF NextPending
<1>3. CASE Serve
  BY <1>3 DEF Serve
<1> QED
  BY <1>1, <1>2, <1>3

THEOREM Invariance == Spec => []IInv
<1>1. ASSUME IInv, [Next]_vars
      PROVE  IInv'
  <2>1. CASE UNCHANGED vars
    BY <1>1, <2>1 DEF vars
  <2>2. CASE Next
    BY <1>1, <2>2, ReconcileSteps, AuthenticationSteps, BootstrapSteps, PrefsSteps,
       LibrarySteps, FirebaseSteps, CleanupSteps, EnvironmentSteps, ServerSteps
       DEF Next, HandlerStep
  <2> QED
    BY <1>1, <2>1, <2>2
<1> QED
  BY <1>1, InitInv, PTL DEF Spec

-----------------------------------------------------------------------------
(* Type correctness: the tables, Firebase and the handlers' state stay in
   their declared ranges.                                                  *)
THEOREM TypeCorrectness == Spec => []TypeOK
  BY Invariance, PTL

(* No Firebase account disappears unless its owner asked for it: every call
   of delete_user and every record of a pending deletion belongs to a user
   whose DELETE /users/me was authenticated.                               *)
THEOREM RequestedDeletionsOnly == Spec => []FirebaseDeletionWasRequested
  BY Invariance, PTL

(* On either database, rows without their users row belong to users whose
   deletion reached the local cleanup.                                     *)
THEOREM BootstrapComesFirst == Spec => []OrphansOnlyAfterDeletion
  BY Invariance, PTL

(* The steps that write the tables.                                        *)
LEMMA Writers ==
  ASSUME Next
  PROVE  \/ UNCHANGED storageVars
         \/ Commit
         \/ Crash
         \/ \E p \in Processes : ClearPending(p)
         \/ \E r \in Requests : InsertUser(r) \/ InsertPrefs(r) \/ UpsertPrefs(r)
         \/ \E r \in Requests : UpsertEntry(r) \/ DeleteEntry(r)
         \/ \E r \in Requests : SavePending(r) \/ DeletePending(r) \/ DeleteLibrary(r)
         \/ \E r \in Requests : DeletePrefs(r) \/ DeleteUser(r)
<1>1. ASSUME NEW p \in Processes, ReconcileStep(p)
      PROVE  UNCHANGED storageVars \/ Commit \/ ClearPending(p)
  BY <1>1 DEF ReconcileStep, Reconcile, ReconcileGet, ReconcileDelete,
              ReconcileAnswered, ReconcileGaveUp, CommitClear
<1>2. ASSUME NEW r \in Requests, HandlerStep(r)
      PROVE  \/ UNCHANGED storageVars \/ Commit
             \/ InsertUser(r) \/ InsertPrefs(r) \/ UpsertPrefs(r)
             \/ UpsertEntry(r) \/ DeleteEntry(r)
             \/ SavePending(r) \/ DeletePending(r) \/ DeleteLibrary(r)
             \/ DeletePrefs(r) \/ DeleteUser(r)
  BY <1>2 DEF HandlerStep, VerifyToken, RejectToken, SelectUser, RequeryUser,
              CommitUser, SelectPrefs, RequeryPrefs, CommitPrefs, FetchManga,
              CommitWrite, FirebaseDelete, FirebaseAnswered, FirebaseTimedOut,
              FirebaseFailed, CommitSave, CommitCleanup
<1>3. CASE \/ \E p \in Processes : FirebaseApplies(p) \/ FirebaseRaises(p)
           \/ \E r \in Requests : Receive(r) \/ RequestTimeout(r)
           \/ \E x \in Users : LateCallLands(x)
           \/ Boot \/ NextPending \/ Serve
  BY <1>3 DEF FirebaseApplies, FirebaseRaises, Receive, RequestTimeout,
              LateCallLands, Boot, NextPending, Serve
<1> QED
  BY <1>1, <1>2, <1>3 DEF Next

(* The tables that a step leaves durable.                                  *)
LEMMA DurableStep ==
  ASSUME IInv, Next, NEW u \in Users
  PROVE  /\ u \in disk.users /\ u \notin disk'.users => outcomes[u] # {}
         /\ u \in disk.prefs /\ u \notin disk'.prefs => outcomes[u] # {}
<1> USE DEF Execute, Commit, Reopen
<1>1. CASE UNCHANGED storageVars
  BY <1>1
<1>2. CASE Commit
  BY <1>2
<1>3. CASE \E r \in Requests : InsertUser(r) \/ InsertPrefs(r) \/ UpsertPrefs(r)
  BY <1>3 DEF InsertUser, InsertPrefs, UpsertPrefs
<1>4. CASE \E r \in Requests : UpsertEntry(r) \/ DeleteEntry(r)
  BY <1>4 DEF UpsertEntry, DeleteEntry
<1>5. CASE \E p \in Processes : ClearPending(p)
  BY <1>5 DEF ClearPending
<1>6. CASE \E r \in Requests : SavePending(r) \/ DeletePending(r) \/ DeleteLibrary(r)
  BY <1>6 DEF SavePending, DeletePending, DeleteLibrary
<1>7. CASE \E r \in Requests : DeletePrefs(r) \/ DeleteUser(r)
  BY <1>7 DEF DeletePrefs, DeleteUser
<1>8. CASE Crash
  BY <1>8 DEF Crash
<1> QED
  BY <1>1, <1>2, <1>3, <1>4, <1>5, <1>6, <1>7, <1>8, Writers

(* The users rows that a step of a living process leaves: an inserter is at
   work, a remover has its Firebase step behind it.                        *)
LEMMA RowsStep ==
  ASSUME IInv, Next, ~Crash, NEW u \in Users
  PROVE  /\ u \in db.users /\ u \notin db'.users => outcomes[u] # {}
         /\ u \in db'.users /\ u \notin db.users
              => \E r \in Requests : AtWork(r) /\ user[r] = u
<1> USE DEF Execute, Commit, AtWork
<1>1. CASE UNCHANGED storageVars
  BY <1>1
<1>2. CASE Commit
  BY <1>2
<1>3. CASE \E r \in Requests : InsertUser(r) \/ InsertPrefs(r) \/ UpsertPrefs(r)
  BY <1>3 DEF InsertUser, InsertPrefs, UpsertPrefs
<1>4. CASE \E r \in Requests : UpsertEntry(r) \/ DeleteEntry(r)
  BY <1>4 DEF UpsertEntry, DeleteEntry
<1>5. CASE \E p \in Processes : ClearPending(p)
  BY <1>5 DEF ClearPending
<1>6. CASE \E r \in Requests : SavePending(r) \/ DeletePending(r) \/ DeleteLibrary(r)
  BY <1>6 DEF SavePending, DeletePending, DeleteLibrary
<1>7. CASE \E r \in Requests : DeletePrefs(r) \/ DeleteUser(r)
  BY <1>7 DEF DeletePrefs, DeleteUser
<1> QED
  BY <1>1, <1>2, <1>3, <1>4, <1>5, <1>6, <1>7, Writers

(* What a step makes durable is what the requests see.                     *)
LEMMA CommittedStep ==
  ASSUME IInv, Next, ~Crash
  PROVE  disk' = disk \/ disk'.users = db'.users
<1> USE DEF Execute, Commit
<1>1. CASE UNCHANGED storageVars \/ Commit
  BY <1>1
<1>2. CASE \E r \in Requests : InsertUser(r) \/ InsertPrefs(r) \/ UpsertPrefs(r)
  BY <1>2 DEF InsertUser, InsertPrefs, UpsertPrefs
<1>3. CASE \E r \in Requests : UpsertEntry(r) \/ DeleteEntry(r)
  BY <1>3 DEF UpsertEntry, DeleteEntry
<1>4. CASE \E p \in Processes : ClearPending(p)
  BY <1>4 DEF ClearPending
<1>5. CASE \E r \in Requests : SavePending(r) \/ DeletePending(r) \/ DeleteLibrary(r)
  BY <1>5 DEF SavePending, DeletePending, DeleteLibrary
<1>6. CASE \E r \in Requests : DeletePrefs(r) \/ DeleteUser(r)
  BY <1>6 DEF DeletePrefs, DeleteUser
<1> QED
  BY <1>1, <1>2, <1>3, <1>4, <1>5, <1>6, Writers

(* Only the token check puts a request to work.                            *)
LEMMA AtWorkStep ==
  ASSUME IInv, Next, ~Crash, NEW r \in Requests, ~VerifyToken(r), AtWork(r)'
  PROVE  AtWork(r) /\ user'[r] = user[r]
<1> USE DEF AtWork
<1>1. ASSUME NEW p \in Processes, ReconcileStep(p)
      PROVE  AtWork(r) /\ user'[r] = user[r]
  BY <1>1 DEF ReconcileStep, Reconcile, ReconcileGet, ReconcileDelete, ReconcileAnswered,
              ReconcileGaveUp, ClearPending, CommitClear, AfterReconcile, Advance
<1>2. ASSUME NEW q \in Requests, HandlerStep(q)
      PROVE  AtWork(r) /\ user'[r] = user[r]
  <2>1. CASE q = r
    BY <1>2, <2>1 DEF HandlerStep, RejectToken, SelectUser, InsertUser, RequeryUser,
       CommitUser, SelectPrefs, InsertPrefs, RequeryPrefs, CommitPrefs, UpsertPrefs,
       FetchManga, UpsertEntry, DeleteEntry, CommitWrite, FirebaseDelete,
       FirebaseAnswered, FirebaseTimedOut, FirebaseFailed, SavePending, CommitSave,
       DeleteLibrary, DeletePrefs, DeleteUser, DeletePending, CommitCleanup,
       AfterBootstrap, AfterPrefs, Advance, Resolved, Reply
  <2>2. CASE q # r
    BY <1>2, <2>2 DEF HandlerStep, VerifyToken, RejectToken, SelectUser, InsertUser,
       RequeryUser, CommitUser, SelectPrefs, InsertPrefs, RequeryPrefs, CommitPrefs,
       UpsertPrefs, FetchManga, UpsertEntry, DeleteEntry, CommitWrite, FirebaseDelete,
       FirebaseAnswered, FirebaseTimedOut, FirebaseFailed, SavePending, CommitSave,
       DeleteLibrary, DeletePrefs, DeleteUser, DeletePending, CommitCleanup,
       AfterBootstrap, AfterPrefs, Advance, Resolved, Reply
  <2> QED
    BY <2>1, <2>2
<1>3. CASE \/ \E p \in Processes : FirebaseApplies(p) \/ FirebaseRaises(p)
           \/ \E q \in Requests : Receive(q) \/ RequestTimeout(q)
           \/ \E x \in Users : LateCallLands(x)
           \/ Boot \/ NextPending \/ Serve
  BY <1>3 DEF FirebaseApplies, FirebaseRaises, Receive, RequestTimeout, Reply,
              LateCallLands, Boot, NextPending, Serve
<1> QED
  BY <1>1, <1>2, <1>3 DEF Next

(* A failure that Firebase reports never costs local data: durable rows go
   only when the user is gone or the answer did not come in time.          *)
THEOREM EarnedErasure == Spec => ErasureIsEarned
<1>1. ASSUME IInv, [Next]_vars
      PROVE  [\A u \in Users :
                \/ u \in disk.users /\ u \notin disk'.users
                \/ u \in disk.prefs /\ u \notin disk'.prefs
                => account[u] = "gone" \/ outcomes[u] \cap {"timeout", "skipped"} # {}]_vars
  <2>1. CASE UNCHANGED vars
    BY <2>1
  <2>2. CASE Next
    <3>1. \A u \in Users : outcomes[u] # {}
            => account[u] = "gone" \/ outcomes[u] \cap {"timeout", "skipped"} # {}
      BY <1>1
    <3> QED
      BY <1>1, <2>2, <3>1, DurableStep
  <2> QED
    BY <1>1, <2>1, <2>2
<1> QED
  BY <1>1, Invariance, PTL DEF Spec, ErasureIsEarned

(* Each step of Accounts is a step of its contract, or changes nothing that
   the contract speaks of.                                                 *)
LEMMA ContractStep ==
  ASSUME IInv, Next, db' \in Tables, disk' \in Tables
  PROVE  [Contract!Next]_(Contract!vars)
<1> DEFINE Excused == {u \in Users : outcomes[u] \cap {"timeout", "skipped"} # {}}
<1> DEFINE LetIn == {user[r] : r \in {q \in Requests : AtWork(q)}}
<1> USE DEF Contract!Next, Contract!vars
<1>1. CASE \E p \in Processes : FirebaseApplies(p)
  <2>1. PICK p \in Processes : FirebaseApplies(p)
    BY <1>1
  <2>2. user[p] \in Users /\ user[p] \in requested
    BY <2>1 DEF FirebaseApplies
  <2>3. Contract!LeaveFirebase(user[p])
    BY <2>1, <2>2 DEF FirebaseApplies, Contract!LeaveFirebase, AtWork
  <2> QED
    BY <2>2, <2>3
<1>2. CASE \E u \in Users : LateCallLands(u)
  <2>1. PICK u \in Users : LateCallLands(u)
    BY <1>2
  <2>2. u \in requested
    BY <2>1 DEF LateCallLands
  <2>3. CASE account' = [account EXCEPT ![u] = "gone"]
    <3>1. Contract!LeaveFirebase(u)
      BY <2>1, <2>2, <2>3 DEF LateCallLands, Contract!LeaveFirebase, AtWork
    <3> QED
      BY <3>1
  <2>4. CASE UNCHANGED account
    BY <2>1, <2>4 DEF LateCallLands, AtWork
  <2> QED
    BY <2>1, <2>3, <2>4 DEF LateCallLands
<1>3. CASE \E r \in Requests : VerifyToken(r)
  <2>1. PICK r \in Requests : VerifyToken(r)
    BY <1>3
  <2>2. user[r] \in Users
    BY <2>1 DEF VerifyToken
  <2>3. PICK u \in Users : u = user[r]
    BY <2>2
  <2>4. account[u] = "live" /\ UNCHANGED <<account, outcomes, db, disk, user>>
    BY <2>1, <2>3 DEF VerifyToken
  <2>5. requested' = requested \cup {u} \/ requested' = requested
    BY <2>1, <2>3 DEF VerifyToken
  <2>6. \A q \in Requests : AtWork(q)' <=> AtWork(q) \/ q = r
    BY <2>1 DEF VerifyToken, AtWork
  <2>7. LetIn' = LetIn \cup {u}
    BY <2>3, <2>4, <2>6
  <2> HIDE DEF IInv, AtWork
  <2>8. Contract!Admit(u)
    BY <2>4, <2>5, <2>7 DEF Contract!Admit
  <2> QED
    BY <2>8
<1>4. CASE \E r \in Requests : FirebaseDelete(r) \/ FirebaseTimedOut(r) \/ FirebaseAnswered(r)
  <2>1. PICK r \in Requests : FirebaseDelete(r) \/ FirebaseTimedOut(r) \/ FirebaseAnswered(r)
    BY <1>4
  <2>2. /\ user[r] \in Users /\ user[r] \in requested
        /\ UNCHANGED <<account, requested, db, disk, user>>
    BY <2>1 DEF FirebaseDelete, FirebaseTimedOut, FirebaseAnswered, Advance, Resolved
  <2>3. \/ UNCHANGED outcomes
        \/ \E x \in Outcomes : outcomes' = [outcomes EXCEPT ![user[r]] = @ \cup {x}]
    BY <2>1 DEF FirebaseDelete, FirebaseTimedOut, FirebaseAnswered, Advance, Resolved
  <2>4. Excused' = Excused \/ Excused' = Excused \cup {user[r]}
    BY <2>2, <2>3
  <2>5. \A q \in Requests : AtWork(q)' <=> AtWork(q)
    BY <2>1 DEF FirebaseDelete, FirebaseTimedOut, FirebaseAnswered, Advance, AtWork
  <2>6. LetIn' = LetIn
    BY <2>2, <2>5
  <2> QED
    BY <2>2, <2>4, <2>6 DEF Contract!Excuse
<1>5. CASE UNCHANGED <<account, requested, outcomes>> /\ ~Crash
  <2>1. CASE \E r \in Requests : VerifyToken(r)
    BY <1>3, <2>1
  <2>2. CASE \A r \in Requests : ~VerifyToken(r)
    <3>1. LetIn' \subseteq LetIn
      BY <1>5, <2>2, AtWorkStep
    <3>2. \A u \in disk.users \ disk'.users : account[u] = "gone" \/ u \in Excused
      BY DurableStep
    <3>3. \A u \in db.users \ db'.users : account[u] = "gone" \/ u \in Excused
      BY <1>5, RowsStep
    <3>4. db'.users \subseteq db.users \cup LetIn
      BY <1>5, RowsStep
    <3>5. disk'.users \in {disk.users, db'.users}
      BY <1>5, CommittedStep
    <3> HIDE DEF IInv, AtWork
    <3>6. Contract!Work
      BY <1>5, <3>1, <3>2, <3>3, <3>4, <3>5 DEF Contract!Work, Contract!MayBeErased
    <3> QED
      BY <3>6
  <2> QED
    BY <2>1, <2>2
<1>6. ASSUME NEW p \in Processes, ReconcileStep(p)
      PROVE  UNCHANGED <<account, requested, outcomes>>
  BY <1>6 DEF ReconcileStep, Reconcile, ReconcileGet, ReconcileDelete, ReconcileAnswered,
              ReconcileGaveUp, ClearPending, CommitClear, AfterReconcile, Advance
<1>7. ASSUME NEW r \in Requests, HandlerStep(r)
      PROVE  \/ UNCHANGED <<account, requested, outcomes>>
             \/ VerifyToken(r) \/ FirebaseDelete(r) \/ FirebaseTimedOut(r) \/ FirebaseAnswered(r)
  BY <1>7 DEF HandlerStep, RejectToken, SelectUser, InsertUser, RequeryUser,
              CommitUser, SelectPrefs, InsertPrefs, RequeryPrefs, CommitPrefs, UpsertPrefs,
              FetchManga, UpsertEntry, DeleteEntry, CommitWrite, FirebaseFailed, SavePending,
              CommitSave, DeleteLibrary, DeletePrefs, DeleteUser, DeletePending, CommitCleanup,
              AfterBootstrap, AfterPrefs, Advance, Reply
<1>8. CASE Crash
  BY <1>8 DEF Crash, Reopen, AtWork, Contract!Restart
<1>9. CASE \/ \E p \in Processes : FirebaseRaises(p)
           \/ \E r \in Requests : Receive(r) \/ RequestTimeout(r)
           \/ Boot \/ NextPending \/ Serve
  BY <1>5, <1>8, <1>9 DEF FirebaseRaises, Receive, RequestTimeout, Reply, Boot, NextPending, Serve
<1>10. CASE UNCHANGED <<account, requested, outcomes>>
  BY <1>5, <1>8, <1>10
<1> HIDE DEF Contract!Next, Contract!vars
<1> QED
  BY <1>1, <1>2, <1>3, <1>4, <1>6, <1>7, <1>8, <1>9, <1>10 DEF Next

(* Accounts implements AccountContract for every set of users and requests
   and on both databases.                                                  *)
THEOREM Refinement == Spec => ImplementsContract
<1>1. Init => Contract!Init
  BY DEF Init, StorageInit, EmptyTables, Contract!Init, AtWork
<1>2. ASSUME IInv, IInv', [Next]_vars
      PROVE  [Contract!Next]_(Contract!vars)
  <2>1. CASE UNCHANGED vars
    BY <2>1 DEF vars, Contract!vars, AtWork
  <2>2. CASE Next
    BY <1>2, <2>2, ContractStep
  <2> QED
    BY <1>2, <2>1, <2>2
<1> QED
  BY <1>1, <1>2, Invariance, PTL DEF Spec, ImplementsContract, Contract!Spec

-----------------------------------------------------------------------------
(* The local cleanup.  Unless another request of its user works meanwhile,  *)
(* a deletion finds what its earlier statements removed still removed.      *)

HIDE DEF IInv, TypeOK, StorageTypeOK, StartupInv, ServesInv, CallInv, RequestedInv,
         FirebaseDeletionWasRequested, ConfirmedInv, ResolvedInv, BootstrappedInv,
         UncommittedInv, OrphansOnlyAfterDeletion, Entries, HasRows, Tables

\* What has been removed from the tables t at each label of the cleanup.
Cleaned(t, label, u) ==
    /\ label \in CleanupLabels \ {"delete_library"} => Entries(t, u) = {}
    /\ label \in {"delete_user", "delete_pending", "commit_cleanup"} => u \notin t.prefs
    /\ label \in {"delete_pending", "commit_cleanup"} => u \notin t.users

Undisturbed(r) == pc[r] \in DeletionLabels /\ ~overlap[r]

KindsInv == \A r \in Requests : AtWork(r) => (kind[r] = "delete" <=> pc[r] \in DeletionLabels)

AloneInv ==
    \A r, q \in Requests :
        Undisturbed(r) /\ AtWork(q) /\ user[q] = user[r] => kind[q] = "delete"

CleanedInv == \A r \in Requests : Undisturbed(r) => Cleaned(db, pc[r], user[r])

DurableInv == postgres => disk = db

CleanupInv == KindsInv /\ AloneInv /\ CleanedInv /\ DurableInv

\* u gets no rows.
NoNewRows(u) ==
    /\ u \in db'.users => u \in db.users
    /\ u \in db'.prefs => u \in db.prefs
    /\ Entries(db', u) \subseteq Entries(db, u)

LEMMA StillCleaned ==
  ASSUME NEW u, NEW label, Cleaned(db, label, u), NoNewRows(u)
  PROVE  Cleaned(db', label, u)
  BY DEF Cleaned, NoNewRows

LEMMA DurableKept ==
  ASSUME DurableInv,
         \/ UNCHANGED storageVars \/ Commit \/ Reopen
         \/ \E t \in {db'} : Execute(t)
  PROVE  DurableInv'
<1>1. CASE postgres
  BY <1>1 DEF DurableInv, Commit, Reopen, Execute
<1>2. CASE ~postgres
  BY <1>2 DEF DurableInv, Commit, Reopen, Execute
<1> QED
  BY <1>1, <1>2

\* Nothing happens to any request but p, and p stays at work at what it is doing.
LEMMA MoveKeeps ==
  ASSUME TypeOK, CleanupInv, NEW p \in Requests, NEW l \in Labels,
         AtWork(p), l \notin Resting \cup {"verify"},
         l \in DeletionLabels <=> pc[p] \in DeletionLabels,
         Goto(p, l), UNCHANGED <<user, overlap>>,
         \A q \in Requests : kind'[q] = "delete" <=> kind[q] = "delete",
         \A u : u # user[p] \/ pc[p] \in DeletionLabels => NoNewRows(u),
         Undisturbed(p) => Cleaned(db', l, user[p]),
         DurableInv'
  PROVE  CleanupInv'
<1>1. /\ pc' = [pc EXCEPT ![p] = l] /\ pc'[p] = l /\ p \in Processes
      /\ \A q \in Requests \ {p} : pc'[q] = pc[q]
      /\ \A q \in Requests : AtWork(q)' <=> AtWork(q)
      /\ \A q \in Requests : pc'[q] \in DeletionLabels <=> pc[q] \in DeletionLabels
  BY DEF TypeOK, AtWork
<1>2. KindsInv'
  BY <1>1 DEF CleanupInv, KindsInv
<1>3. AloneInv'
  BY <1>1 DEF CleanupInv, AloneInv, Undisturbed
<1>4. ASSUME NEW r \in Requests, Undisturbed(r)' PROVE Cleaned(db', pc'[r], user'[r])
  <2>1. Undisturbed(r)
    BY <1>1, <1>4 DEF Undisturbed
  <2>2. CASE r = p
    BY <1>1, <2>1, <2>2
  <2>3. CASE r # p
    <3>1. user[p] = user[r] => pc[p] \in DeletionLabels
      BY <2>1 DEF CleanupInv, KindsInv, AloneInv
    <3>2. NoNewRows(user[r])
      BY <3>1
    <3>3. Cleaned(db, pc[r], user[r])
      BY <2>1 DEF CleanupInv, CleanedInv
    <3> QED
      BY <1>1, <2>3, <3>2, <3>3, StillCleaned
  <2> QED
    BY <2>2, <2>3
<1> QED
  BY <1>2, <1>3, <1>4 DEF CleanupInv, CleanedInv

LEMMA AnswerKeeps ==
  ASSUME TypeOK, CleanupInv, NEW p \in Requests, NEW status \in Resting,
         Reply(p, status), UNCHANGED storageVars \/ Commit
  PROVE  CleanupInv'
<1>1. /\ pc' = [pc EXCEPT ![p] = status] /\ user' = [user EXCEPT ![p] = NoUser]
      /\ kind' = [kind EXCEPT ![p] = "none"] /\ overlap' = [overlap EXCEPT ![p] = FALSE]
      /\ pc \in [Processes -> Labels] /\ DOMAIN user = Processes /\ DOMAIN kind = Processes
      /\ DOMAIN overlap = Requests
  BY DEF Reply, TypeOK
<1>2. /\ ~AtWork(p)' /\ pc'[p] \notin DeletionLabels
      /\ \A q \in Requests \ {p} : /\ pc'[q] = pc[q] /\ user'[q] = user[q]
                                   /\ kind'[q] = kind[q] /\ overlap'[q] = overlap[q]
  BY <1>1 DEF AtWork
<1>3. db' = db
  BY DEF Commit
<1>4. KindsInv'
  BY <1>2 DEF CleanupInv, KindsInv, AtWork
<1>5. AloneInv'
  BY <1>2 DEF CleanupInv, AloneInv, Undisturbed, AtWork
<1>6. CleanedInv'
  BY <1>2, <1>3 DEF CleanupInv, CleanedInv, Undisturbed
<1>7. DurableInv'
  BY DurableKept DEF CleanupInv
<1> QED
  BY <1>4, <1>5, <1>6, <1>7 DEF CleanupInv

\* Nothing happens to the requests, and nobody gets rows.
LEMMA OutsideKeeps ==
  ASSUME CleanupInv, UNCHANGED overlap,
         \A q \in Requests : pc'[q] = pc[q] /\ user'[q] = user[q] /\ kind'[q] = kind[q],
         \A u : NoNewRows(u), DurableInv'
  PROVE  CleanupInv'
<1>1. KindsInv'
  BY DEF CleanupInv, KindsInv, AtWork
<1>2. AloneInv'
  BY DEF CleanupInv, AloneInv, Undisturbed, AtWork
<1>3. CleanedInv'
  BY StillCleaned DEF CleanupInv, CleanedInv, Undisturbed
<1> QED
  BY <1>1, <1>2, <1>3 DEF CleanupInv

LEMMA SameRows ==
  ASSUME db' = db
  PROVE  \A u : NoNewRows(u)
  BY DEF NoNewRows

LEMMA ReconcileKeeps ==
  ASSUME TypeOK, CleanupInv, NEW p \in Processes, ReconcileStep(p)
  PROVE  CleanupInv'
<1>1. \A u : NoNewRows(u)
  <2>1. CASE ClearPending(p)
    <3>1. db'.users = db.users /\ db'.prefs = db.prefs /\ db'.library = db.library
      BY <2>1 DEF ClearPending, Execute, TypeOK, StorageTypeOK, Tables
    <3> QED
      BY <3>1 DEF NoNewRows, Entries
  <2>2. CASE db' = db
    BY <2>2, SameRows
  <2> QED
    BY <2>1, <2>2 DEF ReconcileStep, Reconcile, ReconcileGet, ReconcileDelete,
       ReconcileAnswered, ReconcileGaveUp, CommitClear, Commit
<1>2. DurableInv'
  <2>1. UNCHANGED storageVars \/ Commit \/ \E t \in {db'} : Execute(t)
    BY DEF ReconcileStep, Reconcile, ReconcileGet, ReconcileDelete, ReconcileAnswered,
       ReconcileGaveUp, ClearPending, CommitClear, Execute
  <2> QED
    BY <2>1, DurableKept DEF CleanupInv
<1>3. pc[p] \in ReconcileLabels
  BY DEF ReconcileStep, Reconcile, ReconcileGet, ReconcileDelete, ReconcileAnswered,
     ReconcileGaveUp, ClearPending, CommitClear
<1>4. CASE p = Startup
  <2>1. /\ \E l \in Labels : Goto(p, l)
        /\ UNCHANGED overlap
        /\ \A q \in Processes \ {p} : kind'[q] = kind[q] /\ user'[q] = user[q]
    BY <1>4 DEF ReconcileStep, Reconcile, ReconcileGet, ReconcileDelete, ReconcileAnswered,
       ReconcileGaveUp, ClearPending, CommitClear, AfterReconcile, Advance, TypeOK
  <2>2. \A q \in Requests : pc'[q] = pc[q] /\ user'[q] = user[q] /\ kind'[q] = kind[q]
    BY <1>4, <2>1 DEF TypeOK
  <2> QED
    BY <1>1, <1>2, <2>1, <2>2, OutsideKeeps
<1>5. CASE p \in Requests
  <2>1. /\ \E l \in ReconcileLabels \cup {"firebase_delete"} : Goto(p, l)
        /\ UNCHANGED <<kind, user, overlap>>
    BY <1>5 DEF ReconcileStep, Reconcile, ReconcileGet, ReconcileDelete, ReconcileAnswered,
       ReconcileGaveUp, ClearPending, CommitClear, AfterReconcile, Advance
  <2>2. PICK l \in ReconcileLabels \cup {"firebase_delete"} : Goto(p, l)
    BY <2>1
  <2>3. /\ AtWork(p) /\ l \in Labels /\ l \notin Resting \cup {"verify"}
        /\ l \in DeletionLabels /\ pc[p] \in DeletionLabels
        /\ Cleaned(db', l, user[p])
    BY <1>3, <2>2 DEF AtWork, Cleaned
  <2> QED
    BY <1>1, <1>2, <1>5, <2>1, <2>2, <2>3, MoveKeeps
<1> QED
  BY <1>4, <1>5

LEMMA ArrivalKeeps ==
  ASSUME TypeOK, CleanupInv, NEW r \in Requests, Receive(r) \/ VerifyToken(r) \/ RejectToken(r)
  PROVE  CleanupInv'
<1>1. CASE Receive(r)
  <2>1. /\ pc'[r] = "verify" /\ UNCHANGED <<overlap, storageVars>>
        /\ \A q \in Requests \ {r} : pc'[q] = pc[q] /\ user'[q] = user[q] /\ kind'[q] = kind[q]
    BY <1>1 DEF Receive, TypeOK
  <2>2. KindsInv' /\ AloneInv'
    BY <2>1 DEF CleanupInv, KindsInv, AloneInv, Undisturbed, AtWork
  <2>3. CleanedInv'
    BY <2>1 DEF CleanupInv, CleanedInv, Undisturbed
  <2>4. DurableInv'
    BY <2>1, DurableKept DEF CleanupInv
  <2> QED
    BY <2>2, <2>3, <2>4 DEF CleanupInv
<1>2. CASE VerifyToken(r)
  <2>1. /\ pc[r] = "verify" /\ UNCHANGED <<kind, user, storageVars>>
        /\ pc'[r] = IF kind[r] = "delete" THEN "reconcile" ELSE "select_user"
        /\ \A q \in Requests \ {r} : pc'[q] = pc[q]
    BY <1>2 DEF VerifyToken, TypeOK
  <2>2. /\ ~overlap'[r] /\ kind[r] = "delete" =>
             \A x \in Requests \ {r} : AtWork(x) /\ user[x] = user[r] => kind[x] = "delete"
        /\ \A q \in Requests \ {r} : ~overlap'[q] =>
             /\ ~overlap[q]
             /\ kind[q] = "delete" /\ AtWork(q) /\ user[q] = user[r] => kind[r] = "delete"
    BY <1>2 DEF VerifyToken, Working, AtWork
  <2>3. KindsInv'
    BY <2>1 DEF CleanupInv, KindsInv, AtWork
  <2>4. AloneInv'
    <3> SUFFICES ASSUME NEW x \in Requests, NEW q \in Requests,
                        Undisturbed(x)', AtWork(q)', user[q] = user[x]
                 PROVE  kind[q] = "delete"
      BY <2>1 DEF AloneInv
    <3>1. CASE x = r
      BY <2>1, <2>2, <3>1 DEF Undisturbed, AtWork
    <3>2. CASE x # r
      <4>1. Undisturbed(x) /\ AtWork(x) /\ kind[x] = "delete"
        BY <2>1, <2>2, <3>2 DEF Undisturbed, AtWork, CleanupInv, KindsInv
      <4>2. CASE q = r
        BY <2>2, <3>2, <4>1, <4>2 DEF Undisturbed
      <4>3. CASE q # r
        BY <2>1, <4>1, <4>3 DEF AtWork, CleanupInv, AloneInv
      <4> QED
        BY <4>2, <4>3
    <3> QED
      BY <3>1, <3>2
  <2>5. CleanedInv'
    <3> SUFFICES ASSUME NEW x \in Requests, Undisturbed(x)'
                 PROVE  Cleaned(db, pc'[x], user[x])
      BY <2>1 DEF CleanedInv
    <3>1. CASE x = r
      BY <2>1, <3>1 DEF Undisturbed, Cleaned
    <3>2. CASE x # r
      BY <2>1, <2>2, <3>2 DEF Undisturbed, CleanupInv, CleanedInv
    <3> QED
      BY <3>1, <3>2
  <2>6. DurableInv'
    BY <2>1, DurableKept DEF CleanupInv
  <2> QED
    BY <2>3, <2>4, <2>5, <2>6 DEF CleanupInv
<1>3. CASE RejectToken(r)
  BY <1>3, AnswerKeeps DEF RejectToken
<1> QED
  BY <1>1, <1>2, <1>3

\* The handlers that bootstrap, read or write.
LEMMA WorkKeeps ==
  ASSUME TypeOK, CleanupInv, NEW r \in Requests,
         \/ SelectUser(r) \/ InsertUser(r) \/ RequeryUser(r) \/ CommitUser(r)
         \/ SelectPrefs(r) \/ InsertPrefs(r) \/ RequeryPrefs(r) \/ CommitPrefs(r)
         \/ UpsertPrefs(r)
         \/ FetchManga(r) \/ UpsertEntry(r) \/ DeleteEntry(r) \/ CommitWrite(r)
  PROVE  CleanupInv'
<1> DEFINE Writing == BootstrapLabels \cup PrefsLabels \cup LibraryLabels \cup {"commit_write"}
<1>1. pc[r] \in Writing
  BY DEF SelectUser, InsertUser, RequeryUser, CommitUser, SelectPrefs, InsertPrefs,
     RequeryPrefs, CommitPrefs, UpsertPrefs, FetchManga, UpsertEntry, DeleteEntry, CommitWrite
<1> DEFINE Answers == \E status \in Resting : Reply(r, status) /\ (UNCHANGED storageVars \/ Commit)
           GoesOn  == /\ \E l \in Writing : Goto(r, l)
                      /\ UNCHANGED <<user, overlap>>
                      /\ \/ UNCHANGED kind
                         \/ kind[r] = "me" /\ kind' = [kind EXCEPT ![r] = "me_handler"]
<1>2. Answers \/ GoesOn
  <2>1. ASSUME NEW l \in Writing, Advance(r, l) PROVE GoesOn
    BY <2>1 DEF Advance
  <2>2. ASSUME NEW status \in Resting, Reply(r, status), UNCHANGED storageVars \/ Commit
        PROVE  Answers
    BY <2>2
  <2>3. ASSUME AfterBootstrap(r), UNCHANGED storageVars \/ Commit PROVE Answers \/ GoesOn
    <3>1. CASE kind[r] = "me" /\ Goto(r, "select_user")
               /\ kind' = [kind EXCEPT ![r] = "me_handler"] /\ UNCHANGED <<user, historyVars>>
      BY <3>1
    <3> HIDE DEF Answers, GoesOn
    <3> QED
      BY <2>1, <2>2, <2>3, <3>1 DEF AfterBootstrap
  <2>4. ASSUME AfterPrefs(r), UNCHANGED storageVars \/ Commit PROVE Answers \/ GoesOn
    <3> HIDE DEF Answers, GoesOn
    <3> QED
      BY <2>1, <2>2, <2>4 DEF AfterPrefs
  <2> HIDE DEF Answers, GoesOn
  <2>5. CASE SelectUser(r) \/ InsertUser(r) \/ RequeryUser(r) \/ CommitUser(r)
    BY <2>1, <2>2, <2>3, <2>5 DEF SelectUser, InsertUser, RequeryUser, CommitUser
  <2>6. CASE SelectPrefs(r) \/ InsertPrefs(r) \/ RequeryPrefs(r) \/ CommitPrefs(r) \/ UpsertPrefs(r)
    BY <2>1, <2>2, <2>4, <2>6 DEF SelectPrefs, InsertPrefs, RequeryPrefs, CommitPrefs, UpsertPrefs
  <2>7. CASE FetchManga(r) \/ UpsertEntry(r) \/ DeleteEntry(r) \/ CommitWrite(r)
    BY <2>1, <2>2, <2>7 DEF FetchManga, UpsertEntry, DeleteEntry, CommitWrite
  <2> QED
    BY <2>5, <2>6, <2>7
<1>3. \A u : u # user[r] => NoNewRows(u)
  <2>1. CASE db' = db
    BY <2>1, SameRows
  <2>2. CASE \/ db' = [db EXCEPT !.users = @ \cup {user[r]}]
             \/ db' = [db EXCEPT !.prefs = @ \cup {user[r]}]
    <3>1. /\ db'.library = db.library
          /\ db'.users \subseteq db.users \cup {user[r]}
          /\ db'.prefs \subseteq db.prefs \cup {user[r]}
      BY <2>2 DEF TypeOK, StorageTypeOK, Tables
    <3> QED
      BY <3>1 DEF NoNewRows, Entries
  <2>3. CASE \E m \in Mangas : \/ db' = [db EXCEPT !.library = @ \cup {<<user[r], m>>}]
                               \/ db' = [db EXCEPT !.library = @ \ {<<user[r], m>>}]
    <3>1. /\ db'.users = db.users /\ db'.prefs = db.prefs
          /\ \E m \in Mangas : db'.library \subseteq db.library \cup {<<user[r], m>>}
      BY <2>3 DEF TypeOK, StorageTypeOK, Tables
    <3> QED
      BY <3>1 DEF NoNewRows, Entries
  <2> QED
    BY <2>1, <2>2, <2>3 DEF SelectUser, InsertUser, RequeryUser, CommitUser, SelectPrefs,
       InsertPrefs, RequeryPrefs, CommitPrefs, UpsertPrefs, FetchManga, UpsertEntry,
       DeleteEntry, CommitWrite, Execute, Commit
<1>4. DurableInv'
  <2>1. UNCHANGED storageVars \/ Commit \/ \E t \in {db'} : Execute(t)
    BY DEF SelectUser, InsertUser, RequeryUser, CommitUser, SelectPrefs, InsertPrefs,
       RequeryPrefs, CommitPrefs, UpsertPrefs, FetchManga, UpsertEntry, DeleteEntry,
       CommitWrite, Execute
  <2> QED
    BY <2>1, DurableKept DEF CleanupInv
<1>5. CASE Answers
  BY <1>5, AnswerKeeps
<1>6. CASE GoesOn
  <2>1. PICK l \in Writing : Goto(r, l)
    BY <1>6
  <2>2. /\ AtWork(r) /\ pc[r] \notin DeletionLabels /\ ~Undisturbed(r)
        /\ l \in Labels /\ l \notin Resting \cup {"verify"} /\ l \notin DeletionLabels
    BY <1>1, <2>1 DEF AtWork, Undisturbed
  <2>3. \A q \in Requests : kind'[q] = "delete" <=> kind[q] = "delete"
    BY <1>6 DEF TypeOK
  <2>4. \A u : u # user[r] \/ pc[r] \in DeletionLabels => NoNewRows(u)
    BY <1>3, <2>2
  <2> QED
    BY <1>4, <1>6, <2>1, <2>2, <2>3, <2>4, MoveKeeps
<1> QED
  BY <1>2, <1>5, <1>6

\* The deletion itself, after its reconciliation.
LEMMA DeletionKeeps ==
  ASSUME TypeOK, CleanupInv, NEW r \in Requests,
         \/ FirebaseDelete(r) \/ FirebaseAnswered(r) \/ FirebaseTimedOut(r)
         \/ FirebaseFailed(r) \/ SavePending(r) \/ CommitSave(r)
         \/ DeleteLibrary(r) \/ DeletePrefs(r) \/ DeleteUser(r)
         \/ DeletePending(r) \/ CommitCleanup(r)
  PROVE  CleanupInv'
<1>1. pc[r] \in FirebaseLabels \cup CleanupLabels
  BY DEF FirebaseDelete, FirebaseAnswered, FirebaseTimedOut, FirebaseFailed, SavePending,
     CommitSave, DeleteLibrary, DeletePrefs, DeleteUser, DeletePending, CommitCleanup
<1>2. Undisturbed(r) => Cleaned(db, pc[r], user[r])
  BY DEF CleanupInv, CleanedInv
<1>3. db \in Tables /\ db' = [users |-> db'.users, prefs |-> db'.prefs,
                              library |-> db'.library, pending |-> db'.pending]
  BY DEF FirebaseDelete, FirebaseAnswered, FirebaseTimedOut, FirebaseFailed, SavePending,
     CommitSave, DeleteLibrary, DeletePrefs, DeleteUser, DeletePending, CommitCleanup,
     Execute, Commit, TypeOK, StorageTypeOK, Tables
<1>4. db'.users \subseteq db.users /\ db'.prefs \subseteq db.prefs /\ db'.library \subseteq db.library
  BY <1>3 DEF FirebaseDelete, FirebaseAnswered, FirebaseTimedOut, FirebaseFailed, SavePending,
     CommitSave, DeleteLibrary, DeletePrefs, DeleteUser, DeletePending, CommitCleanup,
     Execute, Commit, Tables
<1>5. \A u : NoNewRows(u)
  BY <1>4 DEF NoNewRows, Entries
<1>6. DurableInv'
  <2>1. UNCHANGED storageVars \/ Commit \/ \E t \in {db'} : Execute(t)
    BY DEF FirebaseDelete, FirebaseAnswered, FirebaseTimedOut, FirebaseFailed, SavePending,
       CommitSave, DeleteLibrary, DeletePrefs, DeleteUser, DeletePending, CommitCleanup, Execute
  <2> QED
    BY <2>1, DurableKept DEF CleanupInv
<1>7. ASSUME NEW l \in FirebaseLabels \cup CleanupLabels, Goto(r, l),
             UNCHANGED <<kind, user, overlap>>, Undisturbed(r) => Cleaned(db', l, user[r])
      PROVE  CleanupInv'
  <2>1. /\ AtWork(r) /\ pc[r] \in DeletionLabels
        /\ l \in Labels /\ l \notin Resting \cup {"verify"} /\ l \in DeletionLabels
    BY <1>1, <1>7 DEF AtWork
  <2> QED
    BY <1>5, <1>6, <1>7, <2>1, MoveKeeps
<1>8. ASSUME NEW u, NEW l \in FirebaseLabels \cup {"delete_library"}
      PROVE  Cleaned(db', l, u)
  BY <1>8 DEF Cleaned
<1>9. CASE \/ FirebaseDelete(r) \/ FirebaseAnswered(r) \/ FirebaseTimedOut(r)
           \/ SavePending(r) \/ CommitSave(r) \/ FirebaseFailed(r)
  <2>1. \/ \E status \in Resting : Reply(r, status) /\ UNCHANGED storageVars
        \/ /\ \E l \in FirebaseLabels \cup {"delete_library"} : Goto(r, l)
           /\ UNCHANGED <<kind, user, overlap>>
    BY <1>9 DEF FirebaseDelete, FirebaseAnswered, FirebaseTimedOut, FirebaseFailed,
       SavePending, CommitSave, Advance, Resolved
  <2> QED
    BY <1>7, <1>8, <2>1, AnswerKeeps
<1>10. CASE DeleteLibrary(r)
  <2>1. Entries(db', user[r]) = {}
    <3>1. db'.library = db.library \ Entries(db, user[r])
      BY <1>3, <1>10 DEF DeleteLibrary, Execute, Tables
    <3> QED
      BY <3>1 DEF Entries
  <2>2. Cleaned(db', "delete_prefs", user[r])
    BY <2>1 DEF Cleaned
  <2> QED
    BY <1>7, <1>10, <2>2 DEF DeleteLibrary, Advance
<1>11. CASE DeletePrefs(r)
  <2>1. Undisturbed(r) => Cleaned(db', "delete_prefs", user[r])
    BY <1>2, <1>5, <1>11, StillCleaned DEF DeletePrefs
  <2>2. user[r] \notin db'.prefs
    BY <1>3, <1>11 DEF DeletePrefs, Execute, Tables
  <2>3. Undisturbed(r) => Cleaned(db', "delete_user", user[r])
    BY <2>1, <2>2 DEF Cleaned
  <2> QED
    BY <1>7, <1>11, <2>3 DEF DeletePrefs, Advance
<1>12. CASE DeleteUser(r)
  <2>1. CASE Reply(r, "failed") /\ UNCHANGED storageVars
    BY <2>1, AnswerKeeps
  <2>2. CASE Execute([db EXCEPT !.users = @ \ {user[r]}]) /\ Advance(r, "delete_pending")
    <3>1. Undisturbed(r) => Cleaned(db', "delete_user", user[r])
      BY <1>2, <1>5, <1>12, StillCleaned DEF DeleteUser
    <3>2. user[r] \notin db'.users
      BY <1>3, <2>2 DEF Execute, Tables
    <3>3. Undisturbed(r) => Cleaned(db', "delete_pending", user[r])
      BY <3>1, <3>2 DEF Cleaned
    <3> QED
      BY <1>7, <2>2, <3>3 DEF Advance
  <2> QED
    BY <1>12, <2>1, <2>2 DEF DeleteUser
<1>13. CASE DeletePending(r)
  <2>1. Undisturbed(r) => Cleaned(db', "delete_pending", user[r])
    BY <1>2, <1>5, <1>13, StillCleaned DEF DeletePending
  <2>2. Undisturbed(r) => Cleaned(db', "commit_cleanup", user[r])
    BY <2>1 DEF Cleaned
  <2> QED
    BY <1>7, <1>13, <2>2 DEF DeletePending, Advance
<1>14. CASE CommitCleanup(r)
  BY <1>14, AnswerKeeps DEF CommitCleanup
<1> QED
  BY <1>9, <1>10, <1>11, <1>12, <1>13, <1>14

LEMMA SurroundingsKeep ==
  ASSUME TypeOK, CleanupInv,
         \/ \E p \in Processes : FirebaseApplies(p) \/ FirebaseRaises(p)
         \/ \E r \in Requests : RequestTimeout(r)
         \/ \E u \in Users : LateCallLands(u)
         \/ Boot \/ NextPending \/ Serve \/ Crash
  PROVE  CleanupInv'
<1>1. CASE \E r \in Requests : RequestTimeout(r)
  BY <1>1, AnswerKeeps DEF RequestTimeout
<1>2. CASE Crash
  <2>1. \A r \in Requests : pc'[r] = "idle"
    BY <1>2 DEF Crash
  <2>2. KindsInv' /\ AloneInv' /\ CleanedInv'
    BY <2>1 DEF KindsInv, AloneInv, CleanedInv, AtWork, Undisturbed
  <2>3. DurableInv'
    BY <1>2, DurableKept DEF Crash, CleanupInv
  <2> QED
    BY <2>2, <2>3 DEF CleanupInv
<1>3. CASE \/ \E p \in Processes : FirebaseApplies(p) \/ FirebaseRaises(p)
           \/ \E u \in Users : LateCallLands(u)
           \/ Boot \/ NextPending \/ Serve
  <2>1. UNCHANGED <<storageVars, overlap>>
    BY <1>3 DEF FirebaseApplies, FirebaseRaises, LateCallLands, Boot, NextPending, Serve
  <2>2. \A q \in Requests : pc'[q] = pc[q] /\ user'[q] = user[q] /\ kind'[q] = kind[q]
    BY <1>3 DEF FirebaseApplies, FirebaseRaises, LateCallLands, Boot, NextPending, Serve, TypeOK
  <2>3. DurableInv'
    BY <2>1, DurableKept DEF CleanupInv
  <2> QED
    BY <2>1, <2>2, <2>3, SameRows, OutsideKeeps
<1> QED
  BY <1>1, <1>2, <1>3

LEMMA CleanupInvariance == Spec => []CleanupInv
<1>1. Init => CleanupInv
  BY DEF Init, StorageInit, CleanupInv, KindsInv, AloneInv, CleanedInv, DurableInv,
     AtWork, Undisturbed
<1>2. ASSUME TypeOK, CleanupInv, [Next]_vars
      PROVE  CleanupInv'
  <2>1. CASE UNCHANGED vars
    <3>1. UNCHANGED <<db, disk, postgres, pc, kind, user, overlap>>
      BY <2>1 DEF vars
    <3>2. DurableInv'
      BY <1>2, <3>1, DurableKept DEF CleanupInv
    <3> QED
      BY <1>2, <3>1, <3>2, SameRows, OutsideKeeps
  <2>2. CASE Next
    BY <1>2, <2>2, ReconcileKeeps, ArrivalKeeps, WorkKeeps, DeletionKeeps, SurroundingsKeep
       DEF Next, HandlerStep
  <2> QED
    BY <1>2, <2>1, <2>2
<1> QED
  BY <1>1, <1>2, TypeCorrectness, PTL DEF Spec

(* PostgreSQL refuses the removal of a users row only because of a request
   that worked at the same time: the order of the statements is safe.      *)
THEOREM SafeOrder == Spec => []ForeignKeySafeOrder
<1>1. CleanupInv => ForeignKeySafeOrder
  BY DEF CleanupInv, CleanedInv, Undisturbed, Cleaned, ForeignKeySafeOrder, StillReferenced
<1> QED
  BY <1>1, CleanupInvariance, PTL

\* Only its last commit ends a deletion well.
LEMMA OnlyCommitAnswers ==
  ASSUME TypeOK, Next, NEW r \in Requests, pc[r] = "commit_cleanup", pc'[r] = "done"
  PROVE  CommitCleanup(r)
<1>1. ASSUME NEW p \in Processes, ReconcileStep(p) PROVE FALSE
  <2>1. pc[p] \in ReconcileLabels /\ \E l \in Labels : pc' = [pc EXCEPT ![p] = l]
    BY <1>1 DEF ReconcileStep, Reconcile, ReconcileGet, ReconcileDelete, ReconcileAnswered,
       ReconcileGaveUp, ClearPending, CommitClear, AfterReconcile, Advance
  <2> QED
    BY <2>1 DEF TypeOK
<1>2. ASSUME NEW q \in Requests, HandlerStep(q) \/ Receive(q) \/ RequestTimeout(q),
             ~CommitCleanup(q)
      PROVE  FALSE
  <2>1. /\ \E l \in Labels : pc' = [pc EXCEPT ![q] = l]
        /\ pc[q] = "commit_cleanup" => pc' = [pc EXCEPT ![q] = "failed"]
    BY <1>2 DEF HandlerStep, Receive, RequestTimeout, VerifyToken, RejectToken, SelectUser,
       InsertUser, RequeryUser, CommitUser, SelectPrefs, InsertPrefs, RequeryPrefs, CommitPrefs,
       UpsertPrefs, FetchManga, UpsertEntry, DeleteEntry, CommitWrite, FirebaseDelete,
       FirebaseAnswered, FirebaseTimedOut, FirebaseFailed, SavePending, CommitSave,
       DeleteLibrary, DeletePrefs, DeleteUser, DeletePending, AfterBootstrap, AfterPrefs,
       Advance, Reply
  <2> QED
    BY <2>1 DEF TypeOK
<1>3. ASSUME \/ \E p \in Processes : FirebaseApplies(p) \/ FirebaseRaises(p)
             \/ \E u \in Users : LateCallLands(u)
             \/ Boot \/ NextPending \/ Serve \/ Crash
      PROVE  FALSE
  BY <1>3 DEF FirebaseApplies, FirebaseRaises, LateCallLands, Boot, NextPending, Serve, Crash, TypeOK
<1>4. PICK q \in Requests : CommitCleanup(q)
  BY <1>1, <1>2, <1>3 DEF Next
<1>5. q = r
  BY <1>4 DEF CommitCleanup, Reply, TypeOK
<1> QED
  BY <1>4, <1>5

(* A deletion that nobody disturbed and that is answered with 204 has left
   nothing of its user behind, on either database.                         *)
THEOREM DeletionErases == Spec => ErasedWhenAnswered
<1>1. ASSUME TypeOK, CleanupInv, [Next]_vars
      PROVE  [\A r \in Requests :
                pc[r] = "commit_cleanup" /\ pc'[r] = "done" /\ ~overlap[r]
                => ~HasRows(disk', user[r])]_vars
  <2>1. ASSUME Next, NEW r \in Requests,
               pc[r] = "commit_cleanup", pc'[r] = "done", ~overlap[r]
        PROVE  ~HasRows(disk', user[r])
    <3>1. Commit
      BY <1>1, <2>1, OnlyCommitAnswers DEF CommitCleanup
    <3>2. disk' = db
      BY <1>1, <3>1 DEF Commit, CleanupInv, DurableInv
    <3>3. Cleaned(db, "commit_cleanup", user[r])
      BY <1>1, <2>1 DEF CleanupInv, CleanedInv, Undisturbed
    <3> QED
      BY <3>2, <3>3 DEF Cleaned, HasRows
  <2> QED
    BY <1>1, <2>1
<1> QED
  BY <1>1, CleanupInvariance, TypeCorrectness, PTL DEF Spec, ErasedWhenAnswered
=============================================================================
