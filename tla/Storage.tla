------------------------------- MODULE Storage -------------------------------
(***************************************************************************)
(* The database behind app/core/db_adapter.py, seen through the statements *)
(* that the account code sends to it.                                      *)
(*                                                                         *)
(* `db' is what a statement sent now would read; `disk' is what survives a *)
(* crash.  SqliteAdapter shares ONE connection between all requests: a     *)
(* statement opens a transaction implicitly, everybody reads it, and any   *)
(* request's commit() commits everybody's statements.  Nothing ever rolls  *)
(* back.  PostgresAdapter takes a pooled connection per statement, each    *)
(* statement commits by itself, and commit() does nothing.                 *)
(*                                                                         *)
(* A table is abstracted to its set of primary keys.                       *)
(***************************************************************************)
CONSTANTS
    Users,      \* Firebase UIDs
    Mangas,     \* manga ids
    Databases   \* the settings of DATABASE_URL: TRUE PostgreSQL, FALSE SQLite

ASSUME DatabasesAssumption == Databases \subseteq BOOLEAN

VARIABLES
    db,         \* what a statement sent now would read
    disk,       \* what survives a crash
    postgres    \* TRUE: PostgresAdapter, FALSE: SqliteAdapter; never changes

storageVars == <<db, disk, postgres>>

Tables == [users   : SUBSET Users,
           prefs   : SUBSET Users,
           library : SUBSET (Users \X Mangas),
           pending : SUBSET Users]

EmptyTables == [users |-> {}, prefs |-> {}, library |-> {}, pending |-> {}]

StorageTypeOK == db \in Tables /\ disk \in Tables /\ postgres \in BOOLEAN

StorageInit == db = EmptyTables /\ disk = EmptyTables /\ postgres \in Databases

\* One statement, after which the tables read `t'.
Execute(t) ==
    /\ db' = t
    /\ disk' = IF postgres THEN t ELSE disk
    /\ UNCHANGED postgres

\* The commit() of the adapter in use.
Commit ==
    /\ db' = db
    /\ disk' = IF postgres THEN disk ELSE db
    /\ UNCHANGED postgres

\* The process is gone; the next one opens the file (or reconnects).
Reopen ==
    /\ db' = disk
    /\ UNCHANGED <<disk, postgres>>

(***************************************************************************)
(* Foreign keys: reading_preferences and user_library reference users.     *)
(* SQLite declares them but no PRAGMA foreign_keys turns them on, so only  *)
(* PostgreSQL refuses a child without its parent or the removal of a       *)
(* parent that still has children.                                         *)
(***************************************************************************)
Entries(t, u) == t.library \cap ({u} \X Mangas)

ParentMissing(u) == postgres /\ u \notin db.users

StillReferenced(u) == postgres /\ (u \in db.prefs \/ Entries(db, u) # {})

\* Is anything of u left in the tables t?
HasRows(t, u) == u \in t.users \/ u \in t.prefs \/ Entries(t, u) # {}
=============================================================================
