------------------------------ MODULE Pipeline ------------------------------
(***************************************************************************)
(* create_app: what happens to a request on its way through the layers of  *)
(* middleware.  Each connection carries one request at a time; the layers  *)
(* share nothing but the store of the rate limiter.                        *)
(*                                                                         *)
(* Which layers a response passes, and which waits the timer of            *)
(* TimeoutMiddleware covers, depends on the order of the layers alone.     *)
(***************************************************************************)
EXTENDS InboundLimiter, Sequences

CONSTANTS
    Conns,          \* connections
    MaxBody,        \* max_bytes, in chunks
    Patience        \* settings.request_timeout_seconds

ASSUME PipelineAssumption == MaxBody \in Nat /\ Patience \in Nat

VARIABLE conn       \* of each connection: where its request is

pipelineVars == <<storeVars, conn>>

\* Mutant: the body is read outside the timer.
Layers_BodyOutside ==
    <<"app", "cors", "timeout", "body", "limiter", "security", "errors">>

\* Mutant: the security headers are added first, so innermost.
Layers_HeadersInside ==
    <<"app", "security", "cors", "body", "timeout", "limiter", "errors">>

\* From the inside out: add_middleware puts each layer around those before it, and
\* the handler of unhandled exceptions stands around them all.
Layers == <<"app", "cors", "body", "timeout", "limiter", "security", "errors">>

Outside(a, b) == \E i, j \in DOMAIN Layers : j < i /\ Layers[i] = a /\ Layers[j] = b

\* Responses that bring the security headers themselves: _error_413, _error_504 and
\* handle_unhandled (without settings.debug).
BringsHeaders == {"body", "timeout", "errors"}

NoRequest == [stage |-> "free", at |-> "app", got |-> 0, spent |-> 0,
              begun |-> 0, headers |-> FALSE]

Reading == [NoRequest EXCEPT !.stage = "reading", !.at = "body"]

PipelineInit == StoreInit /\ conn = [c \in Conns |-> NoRequest]

-----------------------------------------------------------------------------
\* The request of c is at a layer, which the timer covers or not.
Timed(c) == conn[c].stage # "free" /\ Outside("timeout", conn[c].at)

\* A layer begins a response, which passes all that stands around the layer.
Answered(r, layer) ==
    [r EXCEPT !.stage = "answering", !.at = layer, !.got = 0, !.begun = @ + 1,
              !.headers = layer \in BringsHeaders \/ Outside("security", layer)]

Begins(c, layer) == conn' = [conn EXCEPT ![c] = Answered(@, layer)]

\* Bound: requests come in as long as their timer ends on the bounded clock.
Idle(c) == conn[c].stage = "free" /\ now + Patience <= MaxTime

\* A request comes in and the limiter answers 429.
Refused(c, k) ==
    /\ Idle(c)
    /\ Refuse(k)
    /\ conn' = [conn EXCEPT ![c] = Answered(NoRequest, "limiter")]

\* Mutant: the admission is not recorded.
Admitted_Unrecorded(c, k) ==
    /\ Idle(c)
    /\ Cardinality(Purged(k)) < Limits[k]
    /\ log' = [log EXCEPT ![k] = @ \cup {Entry(k)}]
    /\ conn' = [conn EXCEPT ![c] = Reading]
    /\ UNCHANGED <<now, buckets>>

\* A request comes in and the limiter lets it pass; either its Content-Length is too
\* large, or its body is awaited.
Admitted(c, k) ==
    /\ Idle(c)
    /\ Admit(k)
    /\ \/ conn' = [conn EXCEPT ![c] = Reading]
       \/ conn' = [conn EXCEPT ![c] = Answered(Reading, "body")]

\* A part of the body is kept, and the whole of it is handed to the route.
Kept(r) == [r EXCEPT !.got = @ + 1]

Handed(r) == [r EXCEPT !.stage = "handling", !.at = "app"]

\* Mutant: the part that is too much is kept.
Chunk_OffByOne(c) ==
    /\ conn[c].stage = "reading"
    /\ IF conn[c].got > MaxBody
         THEN Begins(c, "body")
         ELSE \/ conn' = [conn EXCEPT ![c] = Kept(@)]
              \/ conn' = [conn EXCEPT ![c] = Handed(Kept(@))]
    /\ UNCHANGED storeVars

\* Another part of the body arrives, maybe the last one.
Chunk(c) ==
    /\ conn[c].stage = "reading"
    /\ IF conn[c].got = MaxBody
         THEN Begins(c, "body")
         ELSE \/ conn' = [conn EXCEPT ![c] = Kept(@)]
              \/ conn' = [conn EXCEPT ![c] = Handed(Kept(@))]
    /\ UNCHANGED storeVars

\* The client is gone, or has nothing (more) to send: the loop over the body ends.
BodyEnds(c) ==
    /\ conn[c].stage = "reading"
    /\ conn' = [conn EXCEPT ![c] = Handed(@)]
    /\ UNCHANGED storeVars

\* The route, or one of its exception handlers, answers.
Answer(c) ==
    /\ conn[c].stage = "handling"
    /\ Begins(c, "app")
    /\ UNCHANGED storeVars

\* An exception without a handler leaves all layers behind; TimeoutMiddleware takes
\* one that is a TimeoutError for its own.
Raise(c) ==
    /\ conn[c].stage = "handling"
    /\ Begins(c, "errors") \/ Begins(c, "timeout")
    /\ UNCHANGED storeVars

\* The body of the response is out.
Complete(c) ==
    /\ conn[c].stage = "answering"
    /\ conn' = [conn EXCEPT ![c] = NoRequest]
    /\ UNCHANGED storeVars

\* TimeoutMiddleware cancels what it stands around and answers 504.  If a response
\* had begun, the server refuses the second one and closes the connection.
Expire(c) ==
    /\ Timed(c) /\ conn[c].spent = Patience
    /\ Begins(c, "timeout")
    /\ UNCHANGED storeVars

\* Time passes, and no timer lets it pass by.
PipelineTick ==
    /\ \A c \in Conns : Timed(c) => conn[c].spent < Patience
    /\ StoreTick
    /\ conn' = [c \in Conns |-> IF Timed(c) THEN [conn[c] EXCEPT !.spent = @ + 1] ELSE conn[c]]

\* The end of the bounded clock.
PipelineEnd == now = MaxTime /\ UNCHANGED pipelineVars

PipelineNext ==
    \/ \E c \in Conns :
         \/ \E k \in Keys : Refused(c, k) \/ Admitted(c, k)
         \/ Chunk(c) \/ BodyEnds(c) \/ Answer(c) \/ Raise(c) \/ Complete(c) \/ Expire(c)
    \/ PipelineTick
    \/ PipelineEnd

PipelineSpec == PipelineInit /\ [][PipelineNext]_pipelineVars

\* Only the clock and the timer can be relied on: clients send when they like and
\* routes take the time they take.
FairPipelineSpec ==
    PipelineSpec /\ WF_pipelineVars(PipelineTick) /\ \A c \in Conns : WF_pipelineVars(Expire(c))

-----------------------------------------------------------------------------
(* Properties.                                                             *)

LayerNames == {"app", "cors", "body", "timeout", "limiter", "security", "errors"}

Requests == [stage : {"free", "reading", "handling", "answering"}, at : LayerNames,
             got : 0..MaxBody, spent : 0..Patience, begun : 0..2, headers : BOOLEAN]

\* A request is read by the body limit, handled by a route, and answered once, or
\* twice if the timer struck while a response of the route was on its way; no more
\* than MaxBody of a body is ever kept.
PipelineTypeOK ==
    /\ StoreTypeOK
    /\ conn \in [Conns -> Requests]
    /\ \A c \in Conns :
         /\ conn[c].stage = "reading" => conn[c].at = "body" /\ conn[c].begun = 0
         /\ conn[c].stage = "handling" => conn[c].at = "app" /\ conn[c].begun = 0
         /\ conn[c].stage = "answering" => conn[c].begun > 0
         /\ conn[c].begun = 2 => conn[c].at = "timeout" /\ conn[c].spent = Patience

\* Every response carries the security headers, whichever layer made it, the
\* refusals of the limiter and the answers to unhandled exceptions included ("adds
\* security headers to every HTTP response").
HeadersEverywhere == \A c \in Conns : conn[c].begun > 0 => conn[c].headers

\* A request that was let in gets an answer, even if its body never comes or its
\* route never ends.
RequestsAnswered ==
    \A c \in Conns : conn[c].stage \in {"reading", "handling"} ~> conn[c].stage = "answering"

\* Between them the connections use the store only as InboundLimiter says.
ImplementsStore == StoreSpec
=============================================================================
