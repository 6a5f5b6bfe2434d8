------------------------------- MODULE Memory --------------------------------
(***************************************************************************)
(* What the cache promises to those who read it: a value is remembered     *)
(* for Ttl ticks after it was written and not longer, the last value       *)
(* written is the one remembered, and a value is forgotten early only to   *)
(* make room in a memory that is full.                                     *)
(***************************************************************************)
EXTENDS Integers, FiniteSets

CONSTANTS Keys, Values, Ttl, MaxSize

VARIABLE memory     \* from the keys remembered to a value and the ticks left to it

Init == memory = <<>>

Known == DOMAIN memory

\* A value takes its place; what is forgotten for it leaves the memory full.
Remember(k) ==
    /\ k \in DOMAIN memory'
    /\ memory'[k].left = Ttl /\ memory'[k].value \in Values
    /\ DOMAIN memory' \subseteq Known \cup {k}
    /\ \A x \in DOMAIN memory' \ {k} : memory'[x] = memory[x]
    /\ Cardinality(DOMAIN memory') <= MaxSize
    /\ Known \subseteq DOMAIN memory' \/ Cardinality(DOMAIN memory') = MaxSize

Elapse ==
    memory' = [k \in {x \in Known : memory[x].left > 0} |->
                 [memory[k] EXCEPT !.left = @ - 1]]

Next == Elapse \/ \E k \in Keys : Remember(k)

Spec == Init /\ [][Next]_memory
=============================================================================
