--------------------------- MODULE UpstreamLimiter --------------------------
(***************************************************************************)
(* _MangaDexRateLimiter and MangaDexClient._get: callers reserve slots on  *)
(* a common schedule, sleep until theirs has come, look again at the       *)
(* cooldown, and reserve anew if a 429 moved it past their slot.           *)
(*                                                                         *)
(* The critical sections of the limiter hold no await, so each is a step.  *)
(* Time is counted in ticks; a sleeper may wake up to MaxLate ticks after  *)
(* its slot, because other tasks may hold the event loop.                  *)
(***************************************************************************)
EXTENDS Naturals

CONSTANTS
    Requests,       \* concurrent callers of _get, of all clients
    Interval,       \* _interval_seconds
    RetryAfters,    \* Retry-After values, already cut to _MAX_RETRY_AFTER_SECONDS
    MaxAhead,       \* bound: how far reservations may run ahead of the clock
    MaxLate,        \* bound: how long after its slot a sleeper wakes
    MaxTime         \* bound of the clock

ASSUME LimiterAssumption ==
    /\ Interval \in Nat \ {0}
    /\ RetryAfters \subseteq Nat
    /\ MaxAhead \in Nat /\ MaxLate \in Nat /\ MaxTime \in Nat

VARIABLES
    now,            \* loop.time()
    nextRequestAt,  \* _next_request_at
    cooldown,       \* _cooldown_until
    pc,             \* "idle", "sleeping" (in wait), "sent" (in client.get)
    slot,           \* scheduled_at of each caller, 0 outside wait
    grants          \* history: the slots on which wait() returned

vars == <<now, nextRequestAt, cooldown, pc, slot, grants>>

Later(a, b) == IF a >= b THEN a ELSE b

Apart(a, b) == a + Interval <= b \/ b + Interval <= a

\* The schedule starts at zero and the monotonic clock somewhere after it.
Init ==
    /\ now = Interval
    /\ nextRequestAt = 0 /\ cooldown = 0
    /\ pc = [r \in Requests |-> "idle"]
    /\ slot = [r \in Requests |-> 0]
    /\ grants = {}

-----------------------------------------------------------------------------
\* Leaving wait() ends the local variable scheduled_at.
Leave(r) == slot' = [slot EXCEPT ![r] = 0]

\* Mutant: a late schedule is not moved up to the clock.
Reserve_NoMax(r) ==
    /\ slot' = [slot EXCEPT ![r] = now]
    /\ nextRequestAt' = nextRequestAt + Interval

\* scheduled_at = max(now, _next_request_at), and the schedule moves on.
Reserve(r) ==
    /\ slot' = [slot EXCEPT ![r] = Later(now, nextRequestAt)]
    /\ nextRequestAt' = Later(now, nextRequestAt) + Interval

\* A caller enters wait().
Arrive(r) ==
    /\ pc[r] = "idle"
    /\ nextRequestAt <= now + MaxAhead
    /\ Reserve(r)
    /\ pc' = [pc EXCEPT ![r] = "sleeping"]
    /\ UNCHANGED <<now, cooldown, grants>>

\* Mutant: no second look at the cooldown after the sleep.
Release_NoRecheck(r) ==
    /\ pc[r] = "sleeping"
    /\ slot[r] <= now
    /\ pc' = [pc EXCEPT ![r] = "sent"]
    /\ grants' = grants \cup {slot[r]}
    /\ Leave(r)
    /\ UNCHANGED <<now, nextRequestAt, cooldown>>

\* Its slot has come and no cooldown covers it: wait() returns.
Release(r) ==
    /\ pc[r] = "sleeping"
    /\ slot[r] <= now
    /\ slot[r] >= cooldown
    /\ pc' = [pc EXCEPT ![r] = "sent"]
    /\ grants' = grants \cup {slot[r]}
    /\ Leave(r)
    /\ UNCHANGED <<now, nextRequestAt, cooldown>>

\* Mutant: the caller sleeps through the cooldown and keeps its slot's right.
Postpone_KeepsSlot(r) ==
    /\ pc[r] = "sleeping"
    /\ slot[r] <= now
    /\ slot[r] < cooldown
    /\ slot' = [slot EXCEPT ![r] = cooldown]
    /\ UNCHANGED <<now, nextRequestAt, cooldown, pc, grants>>

\* Mutant: the loop waits for a cooldown that nobody will lift.
Postpone_Stuck(r) ==
    /\ pc[r] = "sleeping"
    /\ slot[r] <= now
    /\ slot[r] < cooldown
    /\ UNCHANGED vars

\* Its slot has come but lies in the cooldown: reserve again.
Postpone(r) ==
    /\ pc[r] = "sleeping"
    /\ slot[r] <= now
    /\ slot[r] < cooldown
    /\ Reserve(r)
    /\ UNCHANGED <<now, cooldown, pc, grants>>

\* Any end of client.get but a 429 with a numeric Retry-After.
Respond(r) ==
    /\ pc[r] = "sent"
    /\ pc' = [pc EXCEPT ![r] = "idle"]
    /\ UNCHANGED <<now, nextRequestAt, cooldown, slot, grants>>

\* Mutant: the latest Retry-After wins, even if it ends an earlier cooldown.
Throttle_Overwrites(r) ==
    /\ pc[r] = "sent"
    /\ pc' = [pc EXCEPT ![r] = "idle"]
    /\ \E seconds \in RetryAfters :
         /\ cooldown' = now + seconds
         /\ nextRequestAt' = Later(nextRequestAt, now + seconds)
    /\ UNCHANGED <<now, slot, grants>>

\* Mutant: the cooldown does not move the schedule.
Throttle_KeepsSchedule(r) ==
    /\ pc[r] = "sent"
    /\ pc' = [pc EXCEPT ![r] = "idle"]
    /\ \E seconds \in RetryAfters : cooldown' = Later(cooldown, now + seconds)
    /\ UNCHANGED <<now, nextRequestAt, slot, grants>>

\* 429 with Retry-After: cooldown().
Throttle(r) ==
    /\ pc[r] = "sent"
    /\ pc' = [pc EXCEPT ![r] = "idle"]
    /\ \E seconds \in RetryAfters :
         /\ cooldown' = Later(cooldown, now + seconds)
         /\ nextRequestAt' = Later(nextRequestAt, cooldown')
    /\ UNCHANGED <<now, slot, grants>>

\* The caller is cancelled (the request timed out) while it sleeps; its slot
\* stays reserved.  Cancelled in client.get, it is a Respond.
Cancel(r) ==
    /\ pc[r] = "sleeping"
    /\ pc' = [pc EXCEPT ![r] = "idle"]
    /\ Leave(r)
    /\ UNCHANGED <<now, nextRequestAt, cooldown, grants>>

Tick ==
    /\ now < MaxTime
    /\ \A r \in Requests : pc[r] = "sleeping" => now < slot[r] + MaxLate
    /\ now' = now + 1
    /\ UNCHANGED <<nextRequestAt, cooldown, pc, slot, grants>>

\* The end of the bounded clock, when everybody has been served.
Finished ==
    /\ now = MaxTime
    /\ \A r \in Requests : pc[r] = "idle"
    /\ UNCHANGED vars

Next ==
    \/ \E r \in Requests :
         \/ Arrive(r) \/ Release(r) \/ Postpone(r)
         \/ Respond(r) \/ Throttle(r) \/ Cancel(r)
    \/ Tick
    \/ Finished

Spec == Init /\ [][Next]_vars

\* The clock runs and the event loop gets round to every sleeper.
Fairness == WF_vars(Tick) /\ \A r \in Requests : WF_vars(Release(r) \/ Postpone(r))

FairSpec == Spec /\ Fairness

-----------------------------------------------------------------------------
(* Properties.                                                             *)

\* The variables keep their types, and every slot that was given away lies
\* before the schedule (max and the addition in wait).
TypeOK ==
    /\ now \in Nat /\ nextRequestAt \in Nat /\ cooldown \in Nat
    /\ pc \in [Requests -> {"idle", "sleeping", "sent"}]
    /\ slot \in [Requests -> Nat]
    /\ \A r \in Requests : pc[r] # "sleeping" => slot[r] = 0
    /\ grants \in SUBSET Nat
    /\ \A r \in Requests : pc[r] = "sleeping" => slot[r] + Interval <= nextRequestAt
    /\ \A g \in grants : g + Interval <= nextRequestAt

Sleeping == {r \in Requests : pc[r] = "sleeping"}

\* No two requests share a slot or stand closer than Interval, whether they
\* went out or still wait, and whatever was postponed or cancelled in between
\* (wait reserves under the lock and releases outside it).
SlotsApart ==
    /\ \A r, s \in Sleeping : r # s => Apart(slot[r], slot[s])
    /\ \A r \in Sleeping, g \in grants : Apart(slot[r], g)
    /\ \A g, h \in grants : g # h => Apart(g, h)

\* wait() returns for nobody before the cooldown it was told about is over, not
\* even for callers that had their slot before the 429 arrived.
NoSendInCooldown ==
    [][\A r \in Requests :
         pc[r] # "sent" /\ pc'[r] = "sent" => cooldown <= now /\ cooldown' = cooldown]_vars

\* A slot reserved after a cooldown began lies behind its end: nobody spends more
\* than one further slot for each 429 (cooldown moves _next_request_at too).
OneSlotPerCooldown ==
    [][\A r \in Requests :
         pc'[r] = "sleeping" /\ (pc[r] # "sleeping" \/ slot'[r] # slot[r])
           => slot'[r] >= cooldown']_vars

\* A cooldown postpones but never starves: everybody who waits is released or
\* cancelled once MangaDex stops throttling (the loop in wait).
WaitersReleased == \A r \in Requests : pc[r] = "sleeping" ~> pc[r] # "sleeping"

Gate == INSTANCE RequestGate

\* The limiter implements the promise: slots of one's own, apart, in the past,
\* and outside the cooldown.
ImplementsGate == Gate!Spec
=============================================================================
