------------------------ MODULE UpstreamLimiterProofs -----------------------
(***************************************************************************)
(* Proofs about the outbound limiter: its slots stay apart whatever is     *)
(* postponed or cancelled, nothing is released during a cooldown, and it   *)
(* implements RequestGate.  The inductive invariant adds to TypeOK and     *)
(* SlotsApart that the schedule never lies before the cooldown's end.      *)
(***************************************************************************)
EXTENDS UpstreamLimiter, TLAPS

IInv == TypeOK /\ SlotsApart /\ cooldown <= nextRequestAt

\* Reserving keeps every slot in front of the schedule and away from the others,
\* and puts the new one behind the cooldown.
LEMMA ReserveStep ==
    ASSUME IInv, NEW r \in Requests, Reserve(r), pc' = [pc EXCEPT ![r] = "sleeping"],
           UNCHANGED <<now, cooldown, grants>>
    PROVE  IInv' /\ slot'[r] >= cooldown
<1> USE LimiterAssumption DEF IInv
<1> DEFINE new == Later(now, nextRequestAt)
<1>1. new \in Nat /\ new >= nextRequestAt /\ new >= now
  BY DEF TypeOK, Later
<1>2. /\ slot' = [slot EXCEPT ![r] = new]
      /\ nextRequestAt' = new + Interval
  BY DEF Reserve
<1>3. /\ slot' \in [Requests -> Nat]
      /\ slot'[r] = new
      /\ \A s \in Requests : s # r => slot'[s] = slot[s] /\ pc'[s] = pc[s]
      /\ pc' \in [Requests -> {"idle", "sleeping", "sent"}] /\ pc'[r] = "sleeping"
  BY <1>1, <1>2 DEF TypeOK
<1>4. /\ \A s \in Requests : pc[s] = "sleeping" => slot[s] + Interval <= new
      /\ \A g \in grants : g \in Nat /\ g + Interval <= new
  BY <1>1 DEF TypeOK
<1>5. TypeOK'
  BY <1>1, <1>2, <1>3, <1>4 DEF TypeOK
<1>6. SlotsApart'
  <2>1. \A s \in Sleeping', q \in Sleeping' : s # q => Apart(slot'[s], slot'[q])
    <3> SUFFICES ASSUME NEW s \in Sleeping', NEW q \in Sleeping', s # q
                 PROVE  Apart(slot'[s], slot'[q])
      OBVIOUS
    <3>1. CASE s = r
      BY <3>1, <1>3, <1>4 DEF Apart, Sleeping
    <3>2. CASE q = r
      BY <3>2, <1>3, <1>4 DEF Apart, Sleeping
    <3>3. CASE s # r /\ q # r
      BY <3>3, <1>3 DEF SlotsApart, Sleeping
    <3> QED BY <3>1, <3>2, <3>3
  <2>2. \A s \in Sleeping', g \in grants' : Apart(slot'[s], g)
    <3> SUFFICES ASSUME NEW s \in Sleeping', NEW g \in grants PROVE Apart(slot'[s], g)
      OBVIOUS
    <3>1. CASE s = r
      BY <3>1, <1>3, <1>4 DEF Apart
    <3>2. CASE s # r
      BY <3>2, <1>3 DEF SlotsApart, Sleeping
    <3> QED BY <3>1, <3>2
  <2>3. \A g \in grants', h \in grants' : g # h => Apart(g, h)
    BY DEF SlotsApart
  <2> QED BY <2>1, <2>2, <2>3 DEF SlotsApart
<1>7. cooldown' <= nextRequestAt' /\ slot'[r] >= cooldown
  BY <1>1, <1>2, <1>3 DEF TypeOK
<1> QED BY <1>5, <1>6, <1>7

\* Releasing adds to the grants a slot that stood apart from all of them.
LEMMA ReleaseStep ==
    ASSUME IInv, NEW r \in Requests, Release(r)
    PROVE  IInv'
<1> USE LimiterAssumption DEF IInv, Release, Leave
<1>1. /\ r \in Sleeping /\ slot[r] \in Nat
      /\ Sleeping' = Sleeping \ {r}
      /\ \A s \in Sleeping' : slot'[s] = slot[s]
  BY DEF TypeOK, Sleeping
<1>2. TypeOK'
  BY <1>1 DEF TypeOK, Sleeping
<1>3. SlotsApart'
  <2>1. \A s \in Sleeping', q \in Sleeping' : s # q => Apart(slot'[s], slot'[q])
    BY <1>1 DEF SlotsApart
  <2>2. \A s \in Sleeping', g \in grants' : Apart(slot'[s], g)
    BY <1>1 DEF SlotsApart
  <2>3. \A g \in grants', h \in grants' : g # h => Apart(g, h)
    BY <1>1 DEF SlotsApart, Apart
  <2> QED BY <2>1, <2>2, <2>3 DEF SlotsApart
<1> QED BY <1>2, <1>3

\* A caller that leaves without a grant takes nothing with it.
LEMMA LeaveStep ==
    ASSUME IInv, NEW r \in Requests, pc' = [pc EXCEPT ![r] = "idle"],
           slot' = [slot EXCEPT ![r] = 0],
           UNCHANGED <<now, grants>>,
           nextRequestAt' \in Nat, nextRequestAt' >= nextRequestAt,
           cooldown' \in Nat, cooldown' <= nextRequestAt'
    PROVE  IInv'
<1> USE LimiterAssumption DEF IInv
<1>1. /\ Sleeping' = Sleeping \ {r}
      /\ \A s \in Sleeping' : slot'[s] = slot[s]
      /\ slot' \in [Requests -> Nat]
      /\ \A s \in Requests : pc'[s] # "sleeping" => slot'[s] = 0
  BY DEF TypeOK, Sleeping
<1>2. TypeOK'
  <2>1. \A s \in Requests : pc'[s] = "sleeping" => slot'[s] + Interval <= nextRequestAt'
    BY <1>1 DEF TypeOK, Sleeping
  <2>2. \A g \in grants' : g + Interval <= nextRequestAt'
    BY DEF TypeOK
  <2>3. pc' \in [Requests -> {"idle", "sleeping", "sent"}]
    BY DEF TypeOK
  <2> QED BY <1>1, <2>1, <2>2, <2>3 DEF TypeOK
<1>3. SlotsApart'
  BY <1>1 DEF SlotsApart
<1> QED BY <1>2, <1>3

\* A 429 moves the cooldown and the schedule forward, never back.
LEMMA ThrottleBounds ==
    ASSUME IInv, NEW r \in Requests, Throttle(r)
    PROVE  /\ cooldown' \in Nat /\ cooldown' >= cooldown
           /\ nextRequestAt' \in Nat /\ nextRequestAt' >= nextRequestAt
           /\ cooldown' <= nextRequestAt'
<1>1. PICK seconds \in RetryAfters :
        /\ cooldown' = Later(cooldown, now + seconds)
        /\ nextRequestAt' = Later(nextRequestAt, cooldown')
  BY DEF Throttle
<1>2. seconds \in Nat /\ now \in Nat /\ cooldown \in Nat /\ nextRequestAt \in Nat
  BY LimiterAssumption DEF IInv, TypeOK
<1> QED BY <1>1, <1>2 DEF Later

LEMMA InitInv == Init => IInv
BY LimiterAssumption DEF Init, IInv, TypeOK, SlotsApart, Sleeping

LEMMA NextInv == IInv /\ [Next]_vars => IInv'
<1> SUFFICES ASSUME IInv, [Next]_vars PROVE IInv'
  OBVIOUS
<1>1. ASSUME NEW r \in Requests, Arrive(r) PROVE IInv'
  BY <1>1, ReserveStep DEF Arrive
<1>2. ASSUME NEW r \in Requests, Release(r) PROVE IInv'
  BY <1>2, ReleaseStep
<1>3. ASSUME NEW r \in Requests, Postpone(r) PROVE IInv'
  <2>1. pc' = [pc EXCEPT ![r] = "sleeping"]
    BY <1>3 DEF Postpone, IInv, TypeOK
  <2> QED BY <1>3, <2>1, ReserveStep DEF Postpone
<1>4. ASSUME NEW r \in Requests, Respond(r) PROVE IInv'
  <2>1. /\ nextRequestAt' \in Nat /\ nextRequestAt' >= nextRequestAt
        /\ cooldown' \in Nat /\ cooldown' <= nextRequestAt'
    BY <1>4 DEF Respond, IInv, TypeOK
  <2>2. slot' = [slot EXCEPT ![r] = 0]
    BY <1>4 DEF Respond, IInv, TypeOK
  <2> QED BY <1>4, <2>1, <2>2, LeaveStep DEF Respond
<1>5. ASSUME NEW r \in Requests, Throttle(r) PROVE IInv'
  <2>1. slot' = [slot EXCEPT ![r] = 0]
    BY <1>5 DEF Throttle, IInv, TypeOK
  <2> QED BY <1>5, <2>1, LeaveStep, ThrottleBounds DEF Throttle
<1>6. ASSUME NEW r \in Requests, Cancel(r) PROVE IInv'
  <2>1. /\ nextRequestAt' \in Nat /\ nextRequestAt' >= nextRequestAt
        /\ cooldown' \in Nat /\ cooldown' <= nextRequestAt'
    BY <1>6 DEF Cancel, IInv, TypeOK
  <2> QED BY <1>6, <2>1, LeaveStep DEF Cancel, Leave
<1>7. CASE Tick
  BY <1>7 DEF Tick, IInv, TypeOK, SlotsApart, Sleeping
<1>8. CASE UNCHANGED vars
  BY <1>8 DEF vars, IInv, TypeOK, SlotsApart, Sleeping
<1> QED BY <1>1, <1>2, <1>3, <1>4, <1>5, <1>6, <1>7, <1>8 DEF Next, Finished

\* The inductive invariant holds throughout (wait, cooldown).
THEOREM Invariance == Spec => []IInv
BY InitInv, NextInv, PTL DEF Spec

\* The schedule stays ahead of every slot it gave away (wait).
THEOREM TypeCorrectness == Spec => []TypeOK
<1>1. IInv => TypeOK
  BY DEF IInv
<1> QED BY <1>1, Invariance, PTL

\* No two requests share a slot or stand closer than the interval, for any
\* number of callers, postponed or not (wait).
THEOREM SlotsStayApart == Spec => []SlotsApart
<1>1. IInv => SlotsApart
  BY DEF IInv
<1> QED BY <1>1, Invariance, PTL

\* What a step does to a caller that is released, and to one that waits.
LEMMA StepCases ==
    ASSUME IInv, [Next]_vars, NEW r \in Requests
    PROVE  /\ pc[r] # "sent" /\ pc'[r] = "sent" => Release(r)
           /\ pc'[r] = "sleeping" /\ (pc[r] # "sleeping" \/ slot'[r] # slot[r])
                => Arrive(r) \/ Postpone(r)
<1> DEFINE Good == /\ pc[r] # "sent" /\ pc'[r] = "sent" => Release(r)
                   /\ pc'[r] = "sleeping" /\ (pc[r] # "sleeping" \/ slot'[r] # slot[r])
                        => Arrive(r) \/ Postpone(r)
<1>1. ASSUME NEW q \in Requests,
             Arrive(q) \/ Release(q) \/ Postpone(q) \/ Respond(q) \/ Throttle(q) \/ Cancel(q)
      PROVE  Good
  <2>1. CASE q # r
    <3>1. pc'[r] = pc[r] /\ slot'[r] = slot[r]
      BY <1>1, <2>1 DEF Arrive, Release, Postpone, Respond, Throttle, Cancel, Leave, Reserve,
                        IInv, TypeOK
    <3> QED BY <3>1
  <2>2. CASE q = r
    BY <1>1, <2>2 DEF Arrive, Release, Postpone, Respond, Throttle, Cancel, IInv, TypeOK
  <2> QED BY <2>1, <2>2
<1>2. CASE Tick \/ UNCHANGED vars
  BY <1>2 DEF Tick, vars
<1> QED BY <1>1, <1>2 DEF Next, Finished

\* wait() returns for nobody during a cooldown (the check under the second lock).
THEOREM CooldownRespected == Spec => NoSendInCooldown
<1>1. ASSUME IInv, [Next]_vars, NEW r \in Requests, pc[r] # "sent" /\ pc'[r] = "sent"
      PROVE  cooldown <= now /\ cooldown' = cooldown
  <2>1. Release(r)
    BY <1>1, StepCases
  <2> QED BY <1>1, <2>1 DEF Release, IInv, TypeOK
<1>2. IInv /\ [Next]_vars =>
        [\A r \in Requests :
           pc[r] # "sent" /\ pc'[r] = "sent" => cooldown <= now /\ cooldown' = cooldown]_vars
  BY <1>1
<1> QED BY <1>2, Invariance, PTL DEF Spec, NoSendInCooldown

\* A caller spends at most one further slot for each cooldown (cooldown moves
\* _next_request_at).
THEOREM SlotsNotWasted == Spec => OneSlotPerCooldown
<1>1. ASSUME IInv, [Next]_vars, NEW r \in Requests,
             pc'[r] = "sleeping" /\ (pc[r] # "sleeping" \/ slot'[r] # slot[r])
      PROVE  slot'[r] >= cooldown'
  <2>1. Arrive(r) \/ Postpone(r)
    BY <1>1, StepCases
  <2>2. Reserve(r) /\ pc' = [pc EXCEPT ![r] = "sleeping"]
        /\ UNCHANGED <<now, cooldown, grants>>
    BY <1>1, <2>1 DEF Arrive, Postpone, IInv, TypeOK
  <2>3. slot'[r] >= cooldown
    BY <1>1, <2>2, ReserveStep
  <2> QED BY <2>2, <2>3
<1>2. IInv /\ [Next]_vars =>
        [\A r \in Requests :
           pc'[r] = "sleeping" /\ (pc[r] # "sleeping" \/ slot'[r] # slot[r])
             => slot'[r] >= cooldown']_vars
  BY <1>1
<1> QED BY <1>2, Invariance, PTL DEF Spec, OneSlotPerCooldown

\* The limiter implements the promise of RequestGate: Release is its Grant, Tick
\* its Elapse, a 429 its Throttle, and the rest stutters.
THEOREM Refinement == Spec => ImplementsGate
<1>1. Init => Gate!Init
  BY LimiterAssumption DEF Init, Gate!Init
<1>2. IInv /\ [Next]_vars => [Gate!Next]_Gate!vars
  <2> SUFFICES ASSUME IInv, [Next]_vars PROVE Gate!Next \/ UNCHANGED Gate!vars
    BY DEF Gate!vars
  <2> USE DEF Gate!vars, Gate!Next
  <2>1. ASSUME NEW r \in Requests, Arrive(r) \/ Postpone(r) \/ Respond(r) \/ Cancel(r)
        PROVE  UNCHANGED Gate!vars
    BY <2>1 DEF Arrive, Postpone, Respond, Cancel
  <2>2. ASSUME NEW r \in Requests, Release(r) PROVE Gate!Next
    <3>1. /\ slot[r] \in 0..now /\ cooldown <= slot[r]
          /\ \A g \in grants : Gate!Apart(slot[r], g)
      BY <2>2 DEF Release, IInv, TypeOK, SlotsApart, Sleeping, Apart, Gate!Apart
    <3>2. Gate!Grant(slot[r])
      BY <2>2, <3>1 DEF Release, Gate!Grant
    <3> QED BY <3>1, <3>2
  <2>3. ASSUME NEW r \in Requests, Throttle(r) PROVE Gate!Next \/ UNCHANGED Gate!vars
    <3>1. cooldown' \in Nat /\ cooldown' >= cooldown /\ cooldown \in Nat
      BY <2>3, ThrottleBounds DEF IInv, TypeOK
    <3>2. CASE cooldown' = cooldown
      BY <3>2, <2>3 DEF Throttle
    <3>3. CASE cooldown' > cooldown
      BY <3>1, <3>3, <2>3 DEF Throttle, Gate!Throttle
    <3> QED BY <3>1, <3>2, <3>3
  <2>4. CASE Tick
    BY <2>4 DEF Tick, Gate!Elapse, IInv, TypeOK
  <2>5. CASE UNCHANGED vars
    BY <2>5 DEF vars
  <2> QED BY <2>1, <2>2, <2>3, <2>4, <2>5 DEF Next, Finished
<1> QED BY <1>1, <1>2, Invariance, PTL DEF Spec, ImplementsGate, Gate!Spec
=============================================================================
