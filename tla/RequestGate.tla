---------------------------- MODULE RequestGate -----------------------------
(***************************************************************************)
(* What the outbound limiter promises to MangaDex: every request goes out  *)
(* on a slot of its own that has come, slots are at least Interval apart,  *)
(* and nothing goes out while a cooldown lasts.                            *)
(***************************************************************************)
EXTENDS Naturals

CONSTANT Interval

VARIABLES
    now,        \* the clock
    cooldown,   \* no request before this time
    grants      \* the slots that requests went out on

vars == <<now, cooldown, grants>>

Apart(a, b) == a + Interval <= b \/ b + Interval <= a

Init == now \in Nat /\ cooldown = 0 /\ grants = {}

Elapse == now' \in Nat /\ now' > now /\ UNCHANGED <<cooldown, grants>>

Throttle == cooldown' \in Nat /\ cooldown' > cooldown /\ UNCHANGED <<now, grants>>

Grant(slot) ==
    /\ cooldown <= slot /\ slot <= now
    /\ \A g \in grants : Apart(slot, g)
    /\ grants' = grants \cup {slot}
    /\ UNCHANGED <<now, cooldown>>

Next == Elapse \/ Throttle \/ \E slot \in 0..now : Grant(slot)

Spec == Init /\ [][Next]_vars
=============================================================================
