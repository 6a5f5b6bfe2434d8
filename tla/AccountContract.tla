-------------------------- MODULE AccountContract ---------------------------
(***************************************************************************)
(* What authentication and deletion promise together, whatever the         *)
(* database, the timeouts and the crashes: an account leaves Firebase only *)
(* after its owner asked; once it is gone nobody works for it any more who *)
(* was not let in before; users rows come only from requests that were let *)
(* in, and go only when the account is gone or Firebase is excused for not *)
(* having answered.                                                        *)
(*                                                                         *)
(* The excuse is delete_account's own ("local cleanup runs regardless").   *)
(* openspec feat-74 says otherwise: a Firebase timeout is a 502 and leaves *)
(* local data alone.                                                       *)
(***************************************************************************)
CONSTANT Users

VARIABLES
    account,    \* the Firebase accounts: "live" or "gone"
    asked,      \* users whose DELETE was authenticated
    excused,    \* users for whom a Firebase deletion ended without an answer
    letIn,      \* users for whom an authenticated request is at work
    visible,    \* users whose row the requests see
    durable     \* users whose row would survive a crash

vars == <<account, asked, excused, letIn, visible, durable>>

Init ==
    /\ account = [u \in Users |-> "live"]
    /\ asked = {} /\ excused = {} /\ letIn = {} /\ visible = {} /\ durable = {}

\* The token of a live account lets its owner in, maybe to delete it.
Admit(u) ==
    /\ account[u] = "live"
    /\ letIn' = letIn \cup {u}
    /\ asked' \in {asked, asked \cup {u}}
    /\ UNCHANGED <<account, excused, visible, durable>>

LeaveFirebase(u) ==
    /\ u \in asked
    /\ account' = [account EXCEPT ![u] = "gone"]
    /\ UNCHANGED <<asked, excused, letIn, visible, durable>>

Excuse(u) ==
    /\ u \in asked
    /\ excused' = excused \cup {u}
    /\ UNCHANGED <<account, asked, letIn, visible, durable>>

MayBeErased(u) == account[u] = "gone" \/ u \in excused

\* Requests write and end; a commit makes the writes of several of them
\* durable at once.
Work ==
    /\ letIn' \subseteq letIn
    /\ visible' \subseteq visible \cup letIn
    /\ durable' \in {durable, visible'}
    /\ \A u \in (visible \ visible') \cup (durable \ durable') : MayBeErased(u)
    /\ UNCHANGED <<account, asked, excused>>

Restart ==
    /\ letIn' = {}
    /\ visible' = durable
    /\ UNCHANGED <<account, asked, excused, durable>>

Next ==
    \/ Work \/ Restart
    \/ \E u \in Users : Admit(u) \/ LeaveFirebase(u) \/ Excuse(u)

Spec == Init /\ [][Next]_vars
=============================================================================
