------------------------------- MODULE Listing -------------------------------
(***************************************************************************)
(* What paging promises to a client: the pages it was sent, put together,  *)
(* are the beginning of one list without repetitions that does not change  *)
(* while the client walks along it, and it is told whether more is to come.*)
(* A client may begin anew whenever it likes, and may never reach the end. *)
(***************************************************************************)
EXTENDS Naturals, Sequences

CONSTANTS Clients, Titles

VARIABLES
    whole,      \* the list that each client walks along
    seen,       \* what it has been sent of it
    more,       \* is there more?
    onward      \* did the last page go on with the walk?

vars == <<whole, seen, more, onward>>

Init ==
    /\ whole = [c \in Clients |-> <<>>]
    /\ seen = [c \in Clients |-> <<>>]
    /\ more = [c \in Clients |-> FALSE]
    /\ onward = [c \in Clients |-> FALSE]

Distinct(list) == \A i, j \in DOMAIN list : i # j => list[i] # list[j]

\* A client has been sent the first n titles of the list.
Sent(c, list, n) ==
    /\ whole' = [whole EXCEPT ![c] = list]
    /\ seen' = [seen EXCEPT ![c] = SubSeq(list, 1, n)]
    /\ more' = [more EXCEPT ![c] = n < Len(list)]

\* A list may be begun at an offset behind its end.
Begin(c) ==
    /\ whole'[c] \in Seq(Titles) /\ Distinct(whole'[c])
    /\ \E n \in 0..Len(whole'[c]) : Sent(c, whole'[c], n)
    /\ onward' = [onward EXCEPT ![c] = FALSE]

\* A client that sends its cursor gets the titles that come next in its list.
Continue(c) ==
    /\ more[c]
    /\ \E n \in Len(seen[c]) + 1 .. Len(whole[c]) : Sent(c, whole[c], n)
    /\ onward' = [onward EXCEPT ![c] = TRUE]

Next == \E c \in Clients : Begin(c) \/ Continue(c)

Spec == Init /\ [][Next]_vars
=============================================================================
