------------------------------ MODULE MCPaging -------------------------------
(* Paging with small sets, for TLC.                                        *)
EXTENDS Paging

CONSTANTS t1, t2

Shelf == <<t1, t2>>

Class(rating, known) == [rating |-> rating, known |-> known]

\* Both titles have a demographic, or both lost it: then nobody under 18 may see t2.
EitherUpload ==
    {t1 :> Class("safe", known) @@ t2 :> Class("suggestive", known) : known \in BOOLEAN}

Query(age, groups, order) ==
    [age |-> age, preference |-> Null, groups |-> groups, order |-> order]

\* A guest and a reader of 16 with the same filters, and the latter with others.
SomeQueries ==
    {Query(Null, <<"named", "none">>, Null), Query(16, <<"named", "none">>, Null),
     [Query(16, <<"none">>, "popular") EXCEPT !.preference = "all"]}

Symmetric == Permutations(Clients)
=============================================================================
