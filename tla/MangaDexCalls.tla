---------------------------- MODULE MangaDexCalls ----------------------------
(***************************************************************************)
(* What a route does with MangaDex: one call after the other, each of them *)
(* under with_retry, each attempt of a call through the limiter, and all   *)
(* of it under TimeoutMiddleware.  The steps are those of UpstreamLimiter; *)
(* `call' adds where in its route, call and attempt each request is.       *)
(*                                                                         *)
(* An attempt ends with an answer, with an error, or when httpx has heard  *)
(* nothing for HttpTimeout; what trickles in starts that time anew.  Only  *)
(* the limit of the request ends an attempt that goes on trickling.        *)
(***************************************************************************)
EXTENDS UpstreamLimiter, Sequences

CONSTANTS
    Routes,         \* the calls that routes make, as sequences of kinds
    HttpTimeout,    \* httpx.Timeout(10.0) in main.py, in ticks
    DefaultRetries, \* DEFAULT_MAX_RETRIES
    BaseDelay,      \* DEFAULT_BASE_DELAY
    MaxDelay,       \* DEFAULT_MAX_DELAY
    Patience,       \* settings.request_timeout_seconds
    Horizon         \* bound: requests arrive and MangaDex throttles until then

CallKinds == {"plain", "tags", "statistics"}

ASSUME CallsAssumption ==
    /\ Routes \subseteq Seq(CallKinds) \ {<<>>}
    /\ \A route \in Routes : (\E i \in DOMAIN route : route[i] = "tags") => route = <<"tags">>
    /\ DefaultRetries \in Nat \ {0}
    /\ HttpTimeout \in Nat \ {0} /\ BaseDelay \in Nat /\ MaxDelay \in Nat
    /\ Patience \in Nat /\ Horizon \in Nat

VARIABLE call       \* of each request: its calls to come and what they took so far

callsVars == <<vars, call>>

Least(a, b) == IF a <= b THEN a ELSE b

NoCall == [todo |-> <<>>, attempt |-> 0, delay |-> 0, quiet |-> 0,
           spent |-> 0, asleep |-> 0, trickled |-> FALSE]

CallsInit == Init /\ call = [r \in Requests |-> NoCall]

Active(r) == call[r].todo # <<>>

Kind(r) == Head(call[r].todo)

\* Mutant: get_tags has the default number of retries.
MaxRetries_Default(kind) == DefaultRetries

\* max_retries of the method.
MaxRetries(kind) == IF kind = "tags" THEN 1 ELSE DefaultRetries

\* The backoff after a failed attempt.
Delay(attempt) == Least(BaseDelay * 2^attempt, MaxDelay)

\* Arithmetic that the provers lack.
ASSUME PowersAssumption == \A attempt \in 0..DefaultRetries : 2^attempt \in Nat

-----------------------------------------------------------------------------
\* A request arrives and its route makes its first call.
Begin(r) ==
    /\ ~Active(r) /\ now <= Horizon
    /\ Arrive(r)
    /\ \E route \in Routes : call' = [call EXCEPT ![r] = [NoCall EXCEPT !.todo = route]]

\* Mutant: a retry goes out without a slot of its own.
Resume_Unpaced(r) ==
    /\ Active(r) /\ pc[r] = "idle" /\ call[r].delay = 0
    /\ pc' = [pc EXCEPT ![r] = "sent"]
    /\ UNCHANGED <<now, nextRequestAt, cooldown, slot, grants, call>>

\* After its backoff, or for the next call of its route, it gets in line again.
Resume(r) ==
    /\ Active(r) /\ pc[r] = "idle" /\ call[r].delay = 0
    /\ Arrive(r)
    /\ UNCHANGED call

\* wait() returns, or goes round once more.
Wait(r) ==
    /\ Release(r) \/ Postpone(r)
    /\ UNCHANGED call

\* The call has ended well and the route makes its next one, if there is one.
AfterCall(c) ==
    IF Len(c.todo) = 1 THEN NoCall
    ELSE [c EXCEPT !.todo = Tail(@), !.attempt = 0, !.quiet = 0]

NextCall(r) == call' = [call EXCEPT ![r] = AfterCall(@)]

\* The call has ended in an exception: get_statistics swallows it, get_tags of the
\* service answers with its built-in tags, and any other route ends with it.
CallFails(r) ==
    IF Kind(r) = "statistics" THEN NextCall(r) ELSE call' = [call EXCEPT ![r] = NoCall]

Succeeds(r) == Respond(r) /\ NextCall(r)

\* An error that with_retry passes on, a 429 without Retry-After among them.
Fails(r) == Respond(r) /\ CallFails(r)

\* 429 with Retry-After: the cooldown begins and the call is given up.
Refused(r) ==
    /\ now <= Horizon
    /\ Throttle(r)
    /\ CallFails(r)

\* The attempt failed in a way that with_retry takes for transient.  The exception
\* of a statistics call never reaches it.
AfterBackoff(c) == [c EXCEPT !.attempt = @ + 1, !.delay = Delay(c.attempt), !.quiet = 0]

Retry(r) ==
    IF Kind(r) # "statistics" /\ call[r].attempt < MaxRetries(Kind(r))
      THEN call' = [call EXCEPT ![r] = AfterBackoff(@)]
      ELSE CallFails(r)

\* 500, 502, 503, 504 or ConnectError.
FailsForNow(r) == Respond(r) /\ Retry(r)

\* httpx.TimeoutException.
AttemptTimeout(r) ==
    /\ call[r].quiet = HttpTimeout
    /\ Respond(r) /\ Retry(r)

\* The clock of httpx starts anew.
Heard(c) == [c EXCEPT !.quiet = 0, !.trickled = Head(c.todo) = "tags"]

\* MangaDex accepts the connection or sends a part of its answer.
Trickle(r) ==
    /\ pc[r] = "sent" /\ call[r].quiet > 0
    /\ call' = [call EXCEPT ![r] = Heard(@)]
    /\ UNCHANGED vars

\* TimeoutMiddleware cancels the request, wherever it is.
RequestTimeout(r) ==
    /\ Active(r) /\ call[r].spent = Patience
    /\ \/ Cancel(r)
       \/ Respond(r)
       \/ pc[r] = "idle" /\ UNCHANGED vars
    /\ call' = [call EXCEPT ![r] = NoCall]

\* A tick later: the clocks of httpx, of the backoff and of the middleware run.
Elapsed(r) ==
    [call[r] EXCEPT
       !.spent  = @ + 1,
       !.asleep = IF Kind(r) = "tags" /\ (pc[r] = "sleeping" \/ (pc[r] = "idle" /\ call[r].delay = 0))
                    THEN @ + 1 ELSE @,
       !.delay  = IF @ > 0 THEN @ - 1 ELSE 0,
       !.quiet  = IF pc[r] = "sent" THEN @ + 1 ELSE @]

CallsTick ==
    /\ \A r \in Requests :
         /\ pc[r] = "sent" => call[r].quiet < HttpTimeout
         /\ Active(r) => call[r].spent < Patience
    /\ Tick
    /\ call' = [r \in Requests |-> IF Active(r) THEN Elapsed(r) ELSE call[r]]

CallsFinished == Finished /\ (\A r \in Requests : ~Active(r)) /\ UNCHANGED call

CallsNext ==
    \/ \E r \in Requests :
         \/ Begin(r) \/ Resume(r) \/ Wait(r)
         \/ Succeeds(r) \/ Fails(r) \/ Refused(r) \/ FailsForNow(r)
         \/ AttemptTimeout(r) \/ Trickle(r) \/ RequestTimeout(r)
    \/ CallsTick
    \/ CallsFinished

CallsSpec == CallsInit /\ [][CallsNext]_callsVars

\* The clock runs and the event loop gets round to every timer.
CallsFairness ==
    /\ WF_callsVars(CallsTick)
    /\ \A r \in Requests :
         WF_callsVars(Wait(r)) /\ WF_callsVars(AttemptTimeout(r)) /\ WF_callsVars(RequestTimeout(r))

FairCallsSpec == CallsSpec /\ CallsFairness

-----------------------------------------------------------------------------
(* Properties.                                                             *)

CallRecord == [todo : Seq(CallKinds), attempt : 0..DefaultRetries, delay : 0..MaxDelay,
               quiet : 0..HttpTimeout, spent : 0..Patience, asleep : 0..Patience,
               trickled : BOOLEAN]

\* A request waits, is under way or between two attempts only within a route, and
\* no clock of it runs over.
CallsTypeOK ==
    /\ TypeOK
    /\ call \in [Requests -> CallRecord]
    /\ \A r \in Requests : pc[r] # "idle" => Active(r) /\ call[r].delay = 0

\* Two attempts and the backoff between them.
TagsBudget == HttpTimeout + Delay(0) + HttpTimeout

\* However MangaDex fails, the tags answer, with the built-in ones if need be, before
\* the request is cut off, but for the time they stand in line and for answers that
\* trickle ("The default 3-retry budget (~33s) exceeds the app-level 30s request
\* timeout, producing a 504 before the fallback").
TagsInTime ==
    [][\A r \in Requests :
         RequestTimeout(r) /\ Kind(r) = "tags" =>
           call[r].trickled \/ call[r].asleep + TagsBudget >= Patience]_callsVars

\* With all that routes do, the limiter steps only as UpstreamLimiter says.
ImplementsLimiter == Spec
=============================================================================
