------------------------ MODULE MangaDexCallsProofs -------------------------
(***************************************************************************)
(* Proofs about the calls of the routes.  They step as the limiter does,   *)
(* so that all that UpstreamLimiterProofs shows holds for them as well,    *)
(* and the time of a tags call is accounted for: what it did not stand in  *)
(* line it spent on at most two attempts and one backoff.                  *)
(***************************************************************************)
EXTENDS MangaDexCalls, UpstreamLimiterProofs

HasTags(todo) == \E i \in DOMAIN todo : todo[i] = "tags"

\* The account of a tags call.
TagsAccount(c) ==
    /\ c.todo = <<"tags">> /\ c.attempt \in 0..1
    /\ c.attempt = 0 => c.delay = 0
    /\ ~c.trickled =>
         c.spent + c.delay <=
           c.asleep + c.quiet + (IF c.attempt = 0 THEN 0 ELSE HttpTimeout + Delay(0))

Consistent(c, at) ==
    /\ c \in CallRecord
    /\ at # "idle" => c.todo # <<>> /\ c.delay = 0
    /\ c.asleep <= c.spent
    /\ HasTags(c.todo) => TagsAccount(c)

CallsInv ==
    /\ call \in [Requests -> CallRecord]
    /\ \A r \in Requests : Consistent(call[r], pc[r])

LEMMA DelayRange == \A attempt \in 0..DefaultRetries : Delay(attempt) \in 0..MaxDelay
<1> SUFFICES ASSUME NEW attempt \in 0..DefaultRetries PROVE Delay(attempt) \in 0..MaxDelay
  OBVIOUS
<1> DEFINE product == BaseDelay * 2^attempt
<1>1. BaseDelay \in Nat /\ MaxDelay \in Nat /\ 2^attempt \in Nat
  BY CallsAssumption, PowersAssumption
<1>2. product \in Nat
  <2> HIDE DEF product
  <2> DEFINE power == 2^attempt
  <2>1. power \in Nat
    BY <1>1
  <2>2. BaseDelay * power \in Nat
    <3> HIDE DEF power
    <3> QED BY <1>1, <2>1
  <2> QED BY <2>2 DEF product
<1>3. Least(product, MaxDelay) \in 0..MaxDelay
  <2> HIDE DEF product
  <2> QED BY <1>1, <1>2 DEF Least
<1> QED BY <1>3 DEF Delay

LEMMA NoCallConsistent == \A at \in {"idle"} : Consistent(NoCall, at) /\ NoCall.todo = <<>>
BY CallsAssumption DEF NoCall, Consistent, CallRecord, HasTags

\* The record after a call that ended.
LEMMA NextConsistent ==
    ASSUME NEW c, Consistent(c, "sent")
    PROVE  Consistent(AfterCall(c), "idle")
<1>1. c \in CallRecord /\ c.todo \in Seq(CallKinds) /\ c.todo # <<>>
  BY DEF Consistent, CallRecord
<1>2. CASE Len(c.todo) = 1
  BY <1>2, NoCallConsistent DEF AfterCall
<1>3. CASE Len(c.todo) # 1
  <2> DEFINE d == [c EXCEPT !.todo = Tail(@), !.attempt = 0, !.quiet = 0]
  <2>1. Tail(c.todo) \in Seq(CallKinds) /\ \A i \in DOMAIN Tail(c.todo) :
          i + 1 \in DOMAIN c.todo /\ Tail(c.todo)[i] = c.todo[i + 1]
    BY <1>1
  <2>2. ~HasTags(c.todo)
    <3>1. Len(<<"tags">>) = 1
      OBVIOUS
    <3> QED BY <1>3, <3>1 DEF Consistent, TagsAccount
  <2>3. ~HasTags(Tail(c.todo))
    BY <2>1, <2>2 DEF HasTags
  <2>4. /\ d \in CallRecord /\ d.todo = Tail(c.todo)
        /\ d.asleep = c.asleep /\ d.spent = c.spent
    <3> DEFINE d1 == [c EXCEPT !.todo = Tail(@)]
               d2 == [d1 EXCEPT !.attempt = 0]
    <3>1. d1 \in CallRecord /\ d1.todo = Tail(c.todo) /\ d1.asleep = c.asleep /\ d1.spent = c.spent
      BY <1>1, <2>1 DEF CallRecord
    <3>2. d = [d2 EXCEPT !.quiet = 0]
      OBVIOUS
    <3> HIDE DEF d1
    <3>3. d2 \in CallRecord /\ d2.todo = d1.todo /\ d2.asleep = d1.asleep /\ d2.spent = d1.spent
      BY <3>1, CallsAssumption DEF CallRecord
    <3> HIDE DEF d2, d
    <3>4. 0 \in 0..HttpTimeout
      BY CallsAssumption
    <3> QED BY <3>1, <3>2, <3>3, <3>4 DEF CallRecord
  <2>5. c.asleep <= c.spent
    BY DEF Consistent
  <2> HIDE DEF d
  <2>6. Consistent(d, "idle")
    BY <2>3, <2>4, <2>5 DEF Consistent
  <2> QED BY <1>3, <2>6 DEF AfterCall, d
<1> QED BY <1>2, <1>3

\* The record after an attempt that is made again.
LEMMA RetryConsistent ==
    ASSUME NEW c, Consistent(c, "sent"), c.attempt < MaxRetries(Head(c.todo))
    PROVE  Consistent(AfterBackoff(c), "idle")
<1> DEFINE d == AfterBackoff(c)
<1>1. c \in CallRecord /\ c.delay = 0 /\ c.asleep <= c.spent
  BY DEF Consistent
<1>2. c.attempt + 1 \in 0..DefaultRetries
  BY <1>1, CallsAssumption DEF CallRecord, MaxRetries
<1>3. Delay(c.attempt) \in 0..MaxDelay
  BY <1>1, DelayRange DEF CallRecord
<1>4. /\ d \in CallRecord
      /\ d.todo = c.todo /\ d.attempt = c.attempt + 1 /\ d.delay = Delay(c.attempt)
      /\ d.quiet = 0 /\ d.spent = c.spent /\ d.asleep = c.asleep /\ d.trickled = c.trickled
  <2> DEFINE d1 == [c EXCEPT !.attempt = @ + 1]
             d2 == [d1 EXCEPT !.delay = Delay(c.attempt)]
  <2>1. /\ d1 \in CallRecord /\ d1.todo = c.todo /\ d1.attempt = c.attempt + 1
        /\ d1.spent = c.spent /\ d1.asleep = c.asleep /\ d1.trickled = c.trickled
    BY <1>1, <1>2 DEF CallRecord
  <2>2. d = [d2 EXCEPT !.quiet = 0]
    BY DEF AfterBackoff
  <2> HIDE DEF d1
  <2>3. /\ d2 \in CallRecord /\ d2.todo = d1.todo /\ d2.attempt = d1.attempt
        /\ d2.delay = Delay(c.attempt)
        /\ d2.spent = d1.spent /\ d2.asleep = d1.asleep /\ d2.trickled = d1.trickled
    BY <1>3, <2>1 DEF CallRecord
  <2> HIDE DEF d2, d
  <2>4. 0 \in 0..HttpTimeout
    BY CallsAssumption
  <2> QED BY <2>1, <2>2, <2>3, <2>4 DEF CallRecord
<1>5. ASSUME HasTags(c.todo) PROVE TagsAccount(d)
  <2>1. TagsAccount(c)
    BY <1>5 DEF Consistent
  <2>2. c.attempt = 0
    BY <2>1 DEF TagsAccount, MaxRetries
  <2>3. c.quiet \in 0..HttpTimeout /\ c.spent \in Nat /\ c.asleep \in Nat /\ HttpTimeout \in Nat
        /\ Delay(0) \in Nat
    BY <1>1, <1>3, <2>2, CallsAssumption DEF CallRecord
  <2>4. ~c.trickled => c.spent <= c.asleep + c.quiet
    BY <1>1, <2>1, <2>2, <2>3 DEF TagsAccount
  <2>5. d.attempt = 1 /\ d.delay = Delay(0)
    BY <1>4, <2>2
  <2>6. ~d.trickled => d.spent + d.delay <= d.asleep + d.quiet + (HttpTimeout + Delay(0))
    BY <1>4, <2>3, <2>4, <2>5
  <2> HIDE DEF d
  <2> QED BY <1>4, <2>1, <2>5, <2>6 DEF TagsAccount
<1> HIDE DEF d
<1>6. Consistent(d, "idle")
  BY <1>1, <1>4, <1>5 DEF Consistent
<1> QED BY <1>6 DEF d

\* What a tick does to each field of an active request.
LEMMA ElapsedFields ==
    ASSUME NEW r \in Requests, call[r] \in CallRecord, call[r].spent < Patience,
           call[r].asleep <= call[r].spent,
           pc[r] = "sent" => call[r].quiet < HttpTimeout
    PROVE  /\ Elapsed(r) \in CallRecord
           /\ Elapsed(r).todo = call[r].todo /\ Elapsed(r).attempt = call[r].attempt
           /\ Elapsed(r).trickled = call[r].trickled
           /\ Elapsed(r).spent = call[r].spent + 1
           /\ Elapsed(r).asleep =
                IF Kind(r) = "tags" /\ (pc[r] = "sleeping" \/ (pc[r] = "idle" /\ call[r].delay = 0))
                  THEN call[r].asleep + 1 ELSE call[r].asleep
           /\ Elapsed(r).delay = IF call[r].delay > 0 THEN call[r].delay - 1 ELSE 0
           /\ Elapsed(r).quiet = IF pc[r] = "sent" THEN call[r].quiet + 1 ELSE call[r].quiet
<1> DEFINE c == call[r]
           inLine == Kind(r) = "tags" /\ (pc[r] = "sleeping" \/ (pc[r] = "idle" /\ call[r].delay = 0))
           asleep == IF inLine THEN c.asleep + 1 ELSE c.asleep
           delay == IF c.delay > 0 THEN c.delay - 1 ELSE 0
           quiet == IF pc[r] = "sent" THEN c.quiet + 1 ELSE c.quiet
           d1 == [c EXCEPT !.spent = @ + 1]
           d2 == [d1 EXCEPT !.asleep = asleep]
           d3 == [d2 EXCEPT !.delay = delay]
           d4 == [d3 EXCEPT !.quiet = quiet]
<1>1. Elapsed(r) = d4
  BY DEF Elapsed
<1>2. /\ c \in CallRecord /\ c.spent < Patience /\ c.asleep <= c.spent
      /\ pc[r] = "sent" => c.quiet < HttpTimeout
  OBVIOUS
<1> HIDE DEF c, inLine
<1>3. /\ c.spent + 1 \in 0..Patience /\ asleep \in 0..Patience
      /\ delay \in 0..MaxDelay /\ quiet \in 0..HttpTimeout
  <2>1. /\ c.spent \in 0..Patience /\ c.asleep \in 0..Patience
        /\ c.delay \in 0..MaxDelay /\ c.quiet \in 0..HttpTimeout
    BY <1>2 DEF CallRecord
  <2>2. Patience \in Nat /\ MaxDelay \in Nat /\ HttpTimeout \in Nat
    BY CallsAssumption
  <2>3. c.spent + 1 \in 0..Patience
    BY <1>2, <2>1, <2>2
  <2>4. asleep \in 0..Patience
    BY <1>2, <2>1, <2>2
  <2>5. delay \in 0..MaxDelay
    BY <2>1, <2>2
  <2>6. quiet \in 0..HttpTimeout
    BY <1>2, <2>1, <2>2
  <2> QED BY <2>3, <2>4, <2>5, <2>6
<1> HIDE DEF asleep, delay, quiet
<1>4. /\ d1 \in CallRecord /\ d1.todo = c.todo /\ d1.attempt = c.attempt
      /\ d1.trickled = c.trickled /\ d1.spent = c.spent + 1
  BY <1>2, <1>3 DEF CallRecord
<1> HIDE DEF d1
<1>5. /\ d2 \in CallRecord /\ d2.todo = c.todo /\ d2.attempt = c.attempt
      /\ d2.trickled = c.trickled /\ d2.spent = c.spent + 1 /\ d2.asleep = asleep
  BY <1>3, <1>4 DEF CallRecord
<1> HIDE DEF d2
<1>6. /\ d3 \in CallRecord /\ d3.todo = c.todo /\ d3.attempt = c.attempt
      /\ d3.trickled = c.trickled /\ d3.spent = c.spent + 1 /\ d3.asleep = asleep
      /\ d3.delay = delay
  BY <1>3, <1>5 DEF CallRecord
<1> HIDE DEF d3
<1>7. /\ d4 \in CallRecord /\ d4.todo = c.todo /\ d4.attempt = c.attempt
      /\ d4.trickled = c.trickled /\ d4.spent = c.spent + 1 /\ d4.asleep = asleep
      /\ d4.delay = delay /\ d4.quiet = quiet
  BY <1>3, <1>6 DEF CallRecord
<1> HIDE DEF d4
<1> QED BY <1>1, <1>7 DEF c, inLine, asleep, delay, quiet

LEMMA ElapsedConsistent ==
    ASSUME NEW r \in Requests, Consistent(call[r], pc[r]), Active(r), call[r].spent < Patience,
           pc[r] \in {"idle", "sleeping", "sent"},
           pc[r] = "sent" => call[r].quiet < HttpTimeout
    PROVE  Consistent(Elapsed(r), pc[r])
<1> DEFINE c == call[r]
           d == Elapsed(r)
<1>1. c \in CallRecord /\ c.asleep <= c.spent /\ (pc[r] # "idle" => c.delay = 0)
  BY DEF Consistent
<1>2. /\ d \in CallRecord /\ d.todo = c.todo /\ d.attempt = c.attempt
      /\ d.trickled = c.trickled /\ d.spent = c.spent + 1
      /\ d.asleep = IF Kind(r) = "tags" /\ (pc[r] = "sleeping" \/ (pc[r] = "idle" /\ c.delay = 0))
                       THEN c.asleep + 1 ELSE c.asleep
      /\ d.delay = IF c.delay > 0 THEN c.delay - 1 ELSE 0
      /\ d.quiet = IF pc[r] = "sent" THEN c.quiet + 1 ELSE c.quiet
  BY <1>1, ElapsedFields
<1>3. c.todo # <<>>
  BY DEF Active
<1>4. ASSUME HasTags(c.todo) PROVE TagsAccount(c) /\ Kind(r) = "tags"
  <2>1. TagsAccount(c)
    BY <1>4 DEF Consistent
  <2>2. Head(<<"tags">>) = "tags"
    OBVIOUS
  <2> QED BY <2>1, <2>2 DEF TagsAccount, Kind
<1> HIDE DEF c, d
<1>5. d.asleep <= d.spent
  BY <1>1, <1>2 DEF CallRecord
<1>6. ASSUME HasTags(c.todo) PROVE TagsAccount(d)
  <2> DEFINE first == IF c.attempt = 0 THEN 0 ELSE HttpTimeout + Delay(0)
  <2>1. TagsAccount(c) /\ Kind(r) = "tags"
    BY <1>4, <1>6
  <2>2. first \in Nat
    BY DelayRange, CallsAssumption
  <2>3. ~c.trickled => c.spent + c.delay <= c.asleep + c.quiet + first
    BY <2>1 DEF TagsAccount
  <2> HIDE DEF first
  <2>4. ~d.trickled => d.spent + d.delay <= d.asleep + d.quiet + first
    <3>1. /\ c.spent \in Nat /\ c.asleep \in Nat /\ c.delay \in Nat /\ c.quiet \in Nat
      BY <1>1, CallsAssumption DEF CallRecord
    <3>2. CASE pc[r] = "sent"
      BY <1>1, <1>2, <2>2, <2>3, <3>1, <3>2
    <3>3. CASE pc[r] = "sleeping" \/ (pc[r] = "idle" /\ c.delay = 0)
      BY <1>1, <1>2, <2>1, <2>2, <2>3, <3>1, <3>3
    <3>4. CASE pc[r] = "idle" /\ c.delay # 0
      BY <1>2, <2>2, <2>3, <3>1, <3>4
    <3> QED BY <3>2, <3>3, <3>4
  <2>5. d.attempt = 0 => d.delay = 0
    BY <1>2, <2>1 DEF TagsAccount
  <2> QED BY <1>2, <2>1, <2>4, <2>5 DEF TagsAccount, first
<1>7. Consistent(d, pc[r])
  BY <1>1, <1>2, <1>3, <1>5, <1>6 DEF Consistent
<1> QED BY <1>7 DEF d

\* One request takes a step of its own.
LEMMA OneMoves ==
    ASSUME TypeOK, CallsInv, NEW r \in Requests, NEW new, NEW at \in {"idle", "sleeping", "sent"},
           Consistent(new, at), call' = [call EXCEPT ![r] = new], pc' = [pc EXCEPT ![r] = at]
    PROVE  CallsInv'
<1>1. new \in CallRecord
  BY DEF Consistent
<1>2. call' \in [Requests -> CallRecord]
  BY <1>1 DEF CallsInv
<1>3. \A s \in Requests : Consistent(call'[s], pc'[s])
  <2> SUFFICES ASSUME NEW s \in Requests PROVE Consistent(call'[s], pc'[s])
    OBVIOUS
  <2>1. call'[s] = (IF s = r THEN new ELSE call[s]) /\ pc'[s] = (IF s = r THEN at ELSE pc[s])
    BY DEF CallsInv, TypeOK
  <2> QED BY <2>1 DEF CallsInv
<1> QED BY <1>2, <1>3 DEF CallsInv

\* The shapes in which the ends of a call leave its record.
LEMMA CallEnds ==
    ASSUME CallsInv, NEW r \in Requests, pc[r] = "sent",
           NextCall(r) \/ CallFails(r) \/ Retry(r)
    PROVE  \E new : Consistent(new, "idle") /\ call' = [call EXCEPT ![r] = new]
<1>1. Consistent(call[r], "sent")
  BY DEF CallsInv
<1>2. CASE NextCall(r)
  <2>1. call' = [call EXCEPT ![r] = AfterCall(call[r])]
    BY <1>2 DEF NextCall
  <2> QED BY <1>1, <2>1, NextConsistent
<1>3. CASE call' = [call EXCEPT ![r] = NoCall]
  BY <1>3, NoCallConsistent
<1>4. CASE /\ call[r].attempt < MaxRetries(Kind(r))
           /\ call' = [call EXCEPT ![r] = AfterBackoff(call[r])]
  <2>1. Consistent(AfterBackoff(call[r]), "idle")
    BY <1>1, <1>4, RetryConsistent DEF Kind
  <2> QED BY <1>4, <2>1
<1> QED BY <1>2, <1>3, <1>4 DEF CallFails, Retry

LEMMA BeginConsistent ==
    ASSUME NEW route \in Routes
    PROVE  Consistent([NoCall EXCEPT !.todo = route], "sleeping")
<1> DEFINE d == [NoCall EXCEPT !.todo = route]
<1>1. route \in Seq(CallKinds) /\ route # <<>>
  BY CallsAssumption
<1>2. NoCall \in CallRecord
  BY NoCallConsistent DEF Consistent
<1>3. NoCall.attempt = 0 /\ NoCall.delay = 0 /\ NoCall.quiet = 0 /\ NoCall.spent = 0
      /\ NoCall.asleep = 0
  BY DEF NoCall
<1> HIDE DEF NoCall
<1>4. /\ d \in CallRecord /\ d.todo = route /\ d.attempt = 0 /\ d.delay = 0 /\ d.quiet = 0
      /\ d.spent = 0 /\ d.asleep = 0
  BY <1>1, <1>2, <1>3 DEF CallRecord
<1>5. HasTags(route) => route = <<"tags">>
  BY CallsAssumption DEF HasTags
<1> HIDE DEF d
<1>6. Consistent(d, "sleeping")
  BY <1>1, <1>4, <1>5 DEF Consistent, TagsAccount
<1> QED BY <1>6 DEF d

LEMMA TrickleConsistent ==
    ASSUME NEW r \in Requests, Consistent(call[r], "sent")
    PROVE  Consistent(Heard(call[r]), "sent")
<1> DEFINE c == call[r]
           d1 == [c EXCEPT !.quiet = 0]
           d == [d1 EXCEPT !.trickled = Kind(r) = "tags"]
<1>1. c \in CallRecord /\ c.todo # <<>> /\ c.delay = 0 /\ c.asleep <= c.spent
  BY DEF Consistent
<1>2. ASSUME HasTags(c.todo) PROVE TagsAccount(c) /\ Kind(r) = "tags"
  <2>1. TagsAccount(c)
    BY <1>2 DEF Consistent
  <2>2. Head(<<"tags">>) = "tags"
    OBVIOUS
  <2> QED BY <2>1, <2>2 DEF TagsAccount, Kind
<1>3. 0 \in 0..HttpTimeout /\ (Kind(r) = "tags") \in BOOLEAN
  BY CallsAssumption
<1> HIDE DEF c
<1>4. /\ d1 \in CallRecord /\ d1.todo = c.todo /\ d1.attempt = c.attempt /\ d1.delay = c.delay
      /\ d1.spent = c.spent /\ d1.asleep = c.asleep
  BY <1>1, <1>3 DEF CallRecord
<1> HIDE DEF d1
<1>5. /\ d \in CallRecord /\ d.todo = c.todo /\ d.attempt = c.attempt /\ d.delay = c.delay
      /\ d.spent = c.spent /\ d.asleep = c.asleep /\ (d.trickled <=> Kind(r) = "tags")
  BY <1>3, <1>4 DEF CallRecord
<1> HIDE DEF d
<1>6. Consistent(d, "sent")
  BY <1>1, <1>2, <1>5 DEF Consistent, TagsAccount
<1> QED BY <1>6 DEF d, d1, c, Heard, Kind

\* Every step of the routes is one of the limiter, or none of its business, and
\* keeps the account of the calls.
LEMMA CallsStep == TypeOK /\ CallsInv /\ [CallsNext]_callsVars => CallsInv' /\ [Next]_vars
<1> SUFFICES ASSUME TypeOK, CallsInv, [CallsNext]_callsVars PROVE CallsInv' /\ [Next]_vars
  OBVIOUS
<1>1. ASSUME NEW r \in Requests, Begin(r) PROVE CallsInv' /\ [Next]_vars
  <2>1. PICK route \in Routes : call' = [call EXCEPT ![r] = [NoCall EXCEPT !.todo = route]]
    BY <1>1 DEF Begin
  <2>2. Arrive(r) /\ pc' = [pc EXCEPT ![r] = "sleeping"]
    BY <1>1 DEF Begin, Arrive
  <2>3. CallsInv'
    BY <2>1, <2>2, BeginConsistent, OneMoves
  <2> QED BY <2>2, <2>3 DEF Next
<1>2. ASSUME NEW r \in Requests, Resume(r) PROVE CallsInv' /\ [Next]_vars
  <2>1. Arrive(r) /\ pc' = [pc EXCEPT ![r] = "sleeping"] /\ call' = [call EXCEPT ![r] = call[r]]
    BY <1>2 DEF Resume, Arrive, CallsInv
  <2>2. Consistent(call[r], "sleeping")
    BY <1>2 DEF Resume, Active, CallsInv, Consistent
  <2>3. CallsInv'
    BY <2>1, <2>2, OneMoves
  <2> QED BY <2>1, <2>3 DEF Next
<1>3. ASSUME NEW r \in Requests, Wait(r) PROVE CallsInv' /\ [Next]_vars
  <2>1. /\ Release(r) \/ Postpone(r)
        /\ pc[r] = "sleeping" /\ call' = [call EXCEPT ![r] = call[r]]
    BY <1>3 DEF Wait, Release, Postpone, CallsInv
  <2>2. PICK at \in {"sleeping", "sent"} : pc' = [pc EXCEPT ![r] = at]
    BY <2>1 DEF Release, Postpone, TypeOK
  <2>3. Consistent(call[r], at)
    BY <2>1, <2>2 DEF CallsInv, Consistent
  <2>4. CallsInv'
    BY <2>1, <2>2, <2>3, OneMoves
  <2> QED BY <2>1, <2>4 DEF Next
<1>4. ASSUME NEW r \in Requests,
             Succeeds(r) \/ Fails(r) \/ Refused(r) \/ FailsForNow(r) \/ AttemptTimeout(r)
      PROVE  CallsInv' /\ [Next]_vars
  <2>1. /\ Respond(r) \/ Throttle(r)
        /\ NextCall(r) \/ CallFails(r) \/ Retry(r)
    BY <1>4 DEF Succeeds, Fails, Refused, FailsForNow, AttemptTimeout
  <2>2. pc[r] = "sent" /\ pc' = [pc EXCEPT ![r] = "idle"]
    BY <2>1 DEF Respond, Throttle
  <2>3. CallsInv'
    BY <2>1, <2>2, CallEnds, OneMoves
  <2> QED BY <2>1, <2>3 DEF Next
<1>5. ASSUME NEW r \in Requests, Trickle(r) PROVE CallsInv' /\ [Next]_vars
  <2>1. pc[r] = "sent" /\ pc' = [pc EXCEPT ![r] = "sent"]
    BY <1>5 DEF Trickle, vars, TypeOK
  <2>2. call' = [call EXCEPT ![r] = Heard(call[r])]
    BY <1>5 DEF Trickle
  <2>3. CallsInv'
    BY <2>1, <2>2, TrickleConsistent, OneMoves DEF CallsInv
  <2> QED BY <1>5, <2>3 DEF Trickle
<1>6. ASSUME NEW r \in Requests, RequestTimeout(r) PROVE CallsInv' /\ [Next]_vars
  <2>1. /\ Cancel(r) \/ Respond(r) \/ UNCHANGED vars
        /\ pc' = [pc EXCEPT ![r] = "idle"]
    BY <1>6 DEF RequestTimeout, Cancel, Respond, vars, TypeOK
  <2>2. CallsInv'
    BY <1>6, <2>1, NoCallConsistent, OneMoves DEF RequestTimeout
  <2> QED BY <2>1, <2>2 DEF Next
<1>7. ASSUME CallsTick PROVE CallsInv' /\ [Next]_vars
  <2>1. Tick /\ pc' = pc
    BY <1>7 DEF CallsTick, Tick
  <2>2. call' = [r \in Requests |-> IF Active(r) THEN Elapsed(r) ELSE call[r]]
    BY <1>7 DEF CallsTick
  <2>3. \A r \in Requests : Consistent(call'[r], pc'[r])
    <3> SUFFICES ASSUME NEW r \in Requests PROVE Consistent(call'[r], pc[r])
      BY <2>1
    <3>1. CASE Active(r)
      <4>1. Consistent(Elapsed(r), pc[r])
        BY <1>7, <3>1, ElapsedConsistent DEF CallsTick, CallsInv, TypeOK
      <4> QED BY <2>2, <3>1, <4>1
    <3>2. CASE ~Active(r)
      BY <2>2, <3>2 DEF CallsInv
    <3> QED BY <3>1, <3>2
  <2>4. call' \in [Requests -> CallRecord]
    <3>1. \A r \in Requests : call'[r] \in CallRecord
      BY <2>3 DEF Consistent
    <3>2. call' = [r \in Requests |-> call'[r]]
      BY <2>2
    <3> QED BY <3>1, <3>2
  <2> QED BY <2>1, <2>3, <2>4 DEF CallsInv, Next
<1>8. CASE CallsFinished \/ UNCHANGED callsVars
  <2>1. UNCHANGED <<vars, call>>
    BY <1>8 DEF CallsFinished, Finished, callsVars
  <2> QED BY <2>1 DEF CallsInv, vars
<1> QED BY <1>1, <1>2, <1>3, <1>4, <1>5, <1>6, <1>7, <1>8 DEF CallsNext

LEMMA CallsInitInv == CallsInit => CallsInv
<1>1. ASSUME CallsInit, NEW r \in Requests PROVE Consistent(call[r], pc[r])
  BY <1>1, NoCallConsistent DEF CallsInit, Init
<1>2. ASSUME CallsInit PROVE call \in [Requests -> CallRecord]
  BY <1>2, NoCallConsistent DEF CallsInit, Consistent
<1> QED BY <1>1, <1>2 DEF CallsInv

\* Whatever routes do and however their calls fail, the limiter steps only as
\* UpstreamLimiter says, so that its theorems hold for the calls (_get under
\* with_retry under TimeoutMiddleware).
THEOREM LimiterRefined == CallsSpec => ImplementsLimiter
<1>1. TypeOK /\ CallsInv /\ IInv /\ [CallsNext]_callsVars => CallsInv' /\ IInv' /\ [Next]_vars
  BY CallsStep, NextInv
<1>2. CallsInit => Init /\ IInv /\ CallsInv
  BY CallsInitInv, InitInv DEF CallsInit
<1>3. IInv => TypeOK
  BY DEF IInv
<1> QED BY <1>1, <1>2, <1>3, PTL DEF CallsSpec, Spec, ImplementsLimiter

\* The account of the calls is right throughout.
THEOREM CallsInvariance == CallsSpec => [](TypeOK /\ CallsInv)
<1>1. TypeOK /\ CallsInv /\ [CallsNext]_callsVars => CallsInv'
  BY CallsStep
<1> QED BY <1>1, CallsInitInv, LimiterRefined, TypeCorrectness, PTL
         DEF CallsSpec, ImplementsLimiter

\* Requests wait and are under way only within a route, and no clock of theirs
\* runs over, for any routes and any number of requests.
THEOREM CallsTypeCorrectness == CallsSpec => []CallsTypeOK
<1>1. TypeOK /\ CallsInv => CallsTypeOK
  BY DEF CallsTypeOK, CallsInv, Consistent, Active
<1> QED BY <1>1, CallsInvariance, PTL

\* A tags request is cut off only for the time it stood in line or for an answer
\* that trickled, whatever the lengths of timeouts and delays (get_tags).
THEOREM TagsAnswerInTime == CallsSpec => TagsInTime
<1>1. ASSUME CallsInv, NEW r \in Requests, RequestTimeout(r), Kind(r) = "tags"
      PROVE  call[r].trickled \/ call[r].asleep + TagsBudget >= Patience
  <2> DEFINE c == call[r]
  <2>1. Consistent(c, pc[r]) /\ c \in CallRecord
    BY <1>1 DEF CallsInv
  <2>2. c.todo # <<>> /\ c.spent = Patience /\ Head(c.todo) = "tags"
    BY <1>1 DEF RequestTimeout, Active, Kind
  <2>3. HasTags(c.todo)
    <3>1. c.todo \in Seq(CallKinds)
      BY <2>1 DEF CallRecord
    <3>2. 1 \in DOMAIN c.todo /\ c.todo[1] = "tags"
      BY <2>2, <3>1
    <3> QED BY <3>2 DEF HasTags
  <2>4. TagsAccount(c)
    BY <2>1, <2>3 DEF Consistent
  <2>5. /\ c.spent \in Nat /\ c.asleep \in Nat /\ c.delay \in Nat /\ c.quiet \in 0..HttpTimeout
        /\ HttpTimeout \in Nat /\ Delay(0) \in Nat /\ Patience \in Nat
    BY <2>1, DelayRange, CallsAssumption DEF CallRecord
  <2> HIDE DEF c
  <2>6. ~c.trickled => c.asleep + (HttpTimeout + Delay(0) + HttpTimeout) >= Patience
    <3>1. CASE c.attempt = 0
      BY <2>2, <2>4, <2>5, <3>1 DEF TagsAccount
    <3>2. CASE c.attempt # 0
      BY <2>2, <2>4, <2>5, <3>2 DEF TagsAccount
    <3> QED BY <3>1, <3>2
  <2>7. c.trickled \/ c.asleep + TagsBudget >= Patience
    BY <2>6 DEF TagsBudget
  <2> QED BY <2>7 DEF c
<1>2. CallsInv => [\A r \in Requests :
        RequestTimeout(r) /\ Kind(r) = "tags" =>
          call[r].trickled \/ call[r].asleep + TagsBudget >= Patience]_callsVars
  BY <1>1
<1> QED BY <1>2, CallsInvariance, PTL DEF CallsSpec, TagsInTime
=============================================================================
