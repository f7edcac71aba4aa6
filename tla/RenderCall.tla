----------------------------- MODULE RenderCall -----------------------------
(***************************************************************************)
(* One render call: the builder its caller configures, the behaviour it    *)
(* carries (handlers, middleware, writer), and Render, with the event it   *)
(* dispatches and what reaches the client.  A builder may be configured    *)
(* again and rendered again.                                               *)
(*                                                                         *)
(* A step is one call on the builder, one stage of Render, one middleware  *)
(* or one handler.  What a stage does is the subject of other modules;     *)
(* here it passes or fails.  Handlers and middleware are the consumer's,   *)
(* but for the built-in responder: a handler is given the writer, and a    *)
(* middleware the whole behaviour.                                         *)
(***************************************************************************)
EXTENDS Events, SequencesExt

CONSTANTS
    Writer,               \* response writers
    NoWriter,
    Code,                 \* status codes a consumer asks for
    Registered,           \* the handlers a consumer registers
    Middleware,           \* a consumer's middleware
    DefaultMiddleware,    \* the bundler's, in the order registered
    DefaultHandlers,      \* the bundler's: sequence of <<type, mode, handler>>
    HandledType,          \* the types a consumer registers for
    MaxCalls, MaxRenders  \* bounds on the calls that configure and on renders

(* What a consumer's code does to the response before it returns, perhaps an    *)
(* error: nothing, a Write, a WriteHeader of its own, or a CommitStatus.        *)
Actor == [does : {"nothing", "body"}, code : {0}, err : BOOLEAN]
           \cup [does : {"header", "commit"}, code : Code, err : BOOLEAN]
Handler == Actor \cup [does : {"responder", "default"}, code : {0}, err : {FALSE}]

(* A middleware may add a handler, too. *)
MiddlewareFn == Actor \cup [does : {"adds"}, code : {0}, err : BOOLEAN]

CodeHandler(c) == [does |-> "commit", code |-> c, err |-> FALSE]
Responder == [does |-> "responder", code |-> 0, err |-> FALSE]
Mode == {"replace", "prefix", "postfix"}

(* The codes are those net/http takes for the status of a response. *)
ASSUME CallAssumption ==
    /\ NoWriter \notin Writer
    /\ Code \subseteq 200 .. 999
    /\ Registered \subseteq Actor
    /\ Middleware \subseteq MiddlewareFn
    /\ Range(DefaultMiddleware) \subseteq MiddlewareFn
    /\ DefaultMiddleware \in Seq(Range(DefaultMiddleware))
    /\ DefaultHandlers \in Seq(EventType \X Mode \X Handler)
    /\ HandledType \subseteq EventType
    /\ MaxCalls \in Nat /\ MaxRenders \in Nat

VARIABLES
    handlers,    \* HandlerMap: the chain of each type
    middleware, writer, committed,  \* of the RequestBehaviour
    faults,      \* found by Prepare: an inline source, props that do not fit
    stage,       \* of render0; "built" while the builder is with its caller
    event,       \* the event under dispatch, or the last one dispatched
    lineage,     \* the types whose handlers have still to run
    chain,       \* what is left of those of the type under way
    running,     \* middleware still to run
    failed,      \* whether Render returns an error
    client,      \* what each writer has sent: its status, the headers CommitStatus
                 \* wrote, bodies
    calls, renders,
    asked, fresh, ran   \* history: the writer last asked for; whether it was unused
                        \* when Render began; the middleware and handlers that ran since

behaviour == <<handlers, middleware, writer, committed>>
progress == <<stage, event, lineage, chain, running, failed>>
history == <<asked, fresh, ran>>
vars == <<behaviour, faults, progress, client, calls, renders, history>>

NoEvent == "none"
Stages == <<"ctx", "source", "types", "marshal", "lookup", "cache", "verify", "bundling",
            "read", "entry", "temp", "bundle", "middleware", "assemble", "transmit">>

-----------------------------------------------------------------------------
(* Registration. *)

(* AddType, by mode. *)
Added(hs, t, mode, h) ==
    [hs EXCEPT ![t] = CASE mode = "replace" -> <<h>>
                        [] mode = "prefix"  -> <<h>> \o @
                        [] mode = "postfix" -> @ \o <<h>>]

(* NewRequestData: a responder for every listed type. *)
Responders == [t \in EventType |-> IF t \in Concrete THEN <<Responder>> ELSE <<>>]

(* The defaults, applied one after the other. *)
Seeded(hs) ==
    LET upTo[n \in 0 .. Len(DefaultHandlers)] ==
          IF n = 0 THEN hs
          ELSE Added(upTo[n - 1], DefaultHandlers[n][1], DefaultHandlers[n][2], DefaultHandlers[n][3])
    IN  upTo
WithDefaults(hs) == Seeded(hs)[Len(DefaultHandlers)]

RenderInit ==
    /\ handlers = WithDefaults(Responders) /\ middleware = DefaultMiddleware
    /\ writer = NoWriter /\ committed = FALSE
    /\ faults \in {{}, {"source"}, {"types"}}
    /\ stage = "built" /\ event = NoEvent
    /\ lineage = {} /\ chain = <<>> /\ running = <<>>
    /\ failed = FALSE
    /\ client = [w \in Writer |-> [status |-> 0, commits |-> 0, bodies |-> 0]]
    /\ calls = 0 /\ renders = 0
    /\ asked = NoWriter /\ fresh = FALSE /\ ran = <<>>

Configuring ==
    /\ stage \in {"built", "done"} /\ calls < MaxCalls
    /\ calls' = calls + 1 /\ stage' = "built"
    /\ UNCHANGED <<faults, event, lineage, chain, running, failed, client, renders, fresh, ran>>

(* Mutant: the defaults are applied over what the call had. *)
SeedsOver ==
    /\ Configuring
    /\ handlers' = WithDefaults(handlers) /\ middleware' = middleware \o DefaultMiddleware
    /\ committed' = FALSE
    /\ UNCHANGED <<writer, asked>>

(* The behaviour starts again from the defaults, for the same request. *)
SetHTTPBehaviour ==
    /\ Configuring
    /\ handlers' = WithDefaults(Responders) /\ middleware' = DefaultMiddleware
    /\ committed' = FALSE
    /\ UNCHANGED <<writer, asked>>

(* AlterHTTPBehaviour and the builder it hands out. *)
Upon(t, mode, h) ==
    /\ Configuring
    /\ handlers' = Added(handlers, t, mode, h)
    /\ UNCHANGED <<middleware, writer, committed, asked>>

CodeUpon(t, c) == Upon(t, "prefix", CodeHandler(c))

With(m) ==
    /\ Configuring
    /\ middleware' = Append(middleware, m)
    /\ UNCHANGED <<handlers, writer, committed, asked>>

(* Whether a status was committed stays as it was for the writer before. *)
ForRequest(w) ==
    /\ Configuring
    /\ writer' = w /\ asked' = w
    /\ UNCHANGED <<handlers, middleware, committed>>

-----------------------------------------------------------------------------
(* Render. *)

Render ==
    /\ stage \in {"built", "done"} /\ renders < MaxRenders
    /\ renders' = renders + 1
    /\ stage' = "ctx" /\ event' = NoEvent /\ failed' = FALSE
    /\ ran' = <<>>
    /\ fresh' = (~committed /\ writer # NoWriter /\ client[writer].status = 0)
    /\ UNCHANGED <<behaviour, faults, lineage, chain, running, client, calls, asked>>

Rest == <<behaviour, faults, client, calls, renders, history>>

After(s) == Stages[1 + CHOOSE i \in 1 .. Len(Stages) - 1 : Stages[i] = s]

MayPass(s) == s \notin faults

(* A cache hit goes on to the middleware, a miss through the build. *)
Pass ==
    /\ stage \in Range(Stages) \ {"middleware", "transmit"} /\ MayPass(stage)
    /\ stage' \in {After(stage)} \cup (IF stage = "cache" THEN {"middleware"} ELSE {})
    /\ running' = IF stage' = "middleware" THEN middleware ELSE running
    /\ UNCHANGED <<event, lineage, chain, failed, Rest>>

(* WriteHeader and Write, as net/http has them: the first status is sent. *)
Sent(c, code) == [c EXCEPT !.status = IF @ = 0 THEN code ELSE @]
Written(c) == [Sent(c, 200) EXCEPT !.bodies = @ + 1]

(* CommitStatus, of a writer that is bound. *)
Committed(c, code) == IF committed THEN c ELSE [Sent(c, code) EXCEPT !.commits = @ + 1]

(* What one of the consumer's does to the response, and that it ran. *)
Told(c, a) ==
    CASE a.does = "body"   -> Written(c)
      [] a.does = "header" -> Sent(c, a.code)
      [] a.does = "commit" -> Committed(c, a.code)
      [] OTHER             -> c

Tells(a) ==
    /\ client' = IF writer = NoWriter THEN client ELSE [client EXCEPT ![writer] = Told(@, a)]
    /\ committed' = (committed \/ (a.does = "commit" /\ writer # NoWriter))
    /\ ran' = Append(ran, a)
    /\ UNCHANGED <<middleware, writer, faults, event, calls, renders, asked, fresh>>

(* Each is handed the behaviour; the list is the one there was at the start. *)
RunMiddleware ==
    LET m == Head(running) IN
    /\ stage = "middleware" /\ running # <<>>
    /\ Tells(m)
    /\ IF m.does = "adds"
       THEN \E t \in HandledType, mode \in Mode, h \in Registered : handlers' = Added(handlers, t, mode, h)
       ELSE UNCHANGED handlers
    /\ IF m.err THEN failed' = TRUE /\ stage' = "done" /\ running' = <<>>
                ELSE running' = Tail(running) /\ UNCHANGED <<failed, stage>>
    /\ UNCHANGED <<lineage, chain>>

MiddlewareDone ==
    /\ stage = "middleware" /\ running = <<>>
    /\ stage' = "assemble"
    /\ UNCHANGED <<event, lineage, chain, running, failed, Rest>>

(* Errors that no event reports, beside a middleware's. *)
FailSilently ==
    /\ stage \in {"ctx", "assemble"}
    /\ failed' = TRUE /\ stage' = "done"
    /\ UNCHANGED <<event, lineage, chain, running, Rest>>

EventOf(s) ==
    CASE s = "source"             -> "AnonymousSource"
      [] s = "types"              -> "CompPropsInsufficient"
      [] s = "marshal"            -> "PropsMarshaling"
      [] s \in {"lookup", "verify"} -> "RegistryLookup"
      [] s \in {"read", "entry"}  -> "EntryGeneration"
      [] s = "temp"               -> "TempEntryWrite"
      [] s \in {"bundling", "bundle"} -> "CompBundling"
      [] s = "transmit"           -> "TransmitRenderedTemplate"

Dispatch(e) ==
    /\ event' = e /\ lineage' = Ancestry[e] /\ chain' = <<>>
    /\ stage' = "dispatch"
    /\ UNCHANGED <<running, Rest>>

(* Mutant: an error that was dispatched is taken to be handled. *)
FailHandled ==
    /\ stage \in Range(Stages) \ {"ctx", "cache", "middleware", "assemble", "transmit"}
    /\ stage \in {"source", "types"} => stage \in faults
    /\ failed' = FALSE
    /\ Dispatch(EventOf(stage))

(* emitEvent: the error is returned whatever becomes of the event. *)
Fail ==
    /\ stage \in Range(Stages) \ {"ctx", "cache", "middleware", "assemble", "transmit"}
    /\ stage \in {"source", "types"} => stage \in faults
    /\ failed' = TRUE
    /\ Dispatch(EventOf(stage))

Transmit ==
    /\ stage = "transmit"
    /\ failed' = FALSE
    /\ Dispatch(EventOf(stage))

-----------------------------------------------------------------------------
(* Dispatch: the handlers of one type after the other run in turn, until one *)
(* returns an error.                                                         *)

(* Mutant: the widest category comes first. *)
WidestFirst ==
    /\ stage = "dispatch" /\ chain = <<>>
    /\ \E t \in lineage :
          /\ \A u \in lineage : ~Narrower(t, u)
          /\ lineage' = lineage \ {t} /\ chain' = handlers[t]
    /\ UNCHANGED <<stage, event, running, failed, Rest>>

NextType ==
    /\ stage = "dispatch" /\ chain = <<>>
    /\ \E t \in lineage :
          /\ \A u \in lineage : ~Narrower(u, t)
          /\ lineage' = lineage \ {t} /\ chain' = handlers[t]
    /\ UNCHANGED <<stage, event, running, failed, Rest>>

HandlerNext == stage = "dispatch" /\ chain # <<>> /\ UNCHANGED <<handlers, running>>

Continue == chain' = Tail(chain) /\ UNCHANGED <<lineage, stage, failed>>
Stop == chain' = <<>> /\ lineage' = {} /\ stage' = "done" /\ failed' = TRUE

(* The built-in responder.  Its write may find the client gone. *)
Respond ==
    /\ HandlerNext /\ Head(chain) = Responder
    /\ ran' = Append(ran, Responder)
    /\ IF writer = NoWriter
       THEN Continue /\ UNCHANGED <<client, committed>>
       ELSE /\ committed' = TRUE
            /\ \/ /\ client' = [client EXCEPT ![writer] = Written(Committed(@, HTTPCode(event)))]
                  /\ Continue
               \/ /\ client' = [client EXCEPT ![writer] = Committed(@, HTTPCode(event))]
                  /\ Stop
    /\ UNCHANGED <<middleware, writer, faults, event, calls, renders, asked, fresh>>

(* Mutant: a handler's error is noted and the next handler runs. *)
ErrorContinues ==
    /\ HandlerNext /\ Head(chain).err
    /\ Tells(Head(chain))
    /\ failed' = TRUE /\ chain' = Tail(chain) /\ UNCHANGED <<lineage, stage>>

(* One of the others: its error ends the dispatch. *)
HandlerFails == HandlerNext /\ Head(chain).err /\ Tells(Head(chain)) /\ Stop

HandlerReturns ==
    HandlerNext /\ Head(chain) # Responder /\ ~Head(chain).err /\ Tells(Head(chain)) /\ Continue

Dispatched ==
    /\ stage = "dispatch" /\ chain = <<>> /\ lineage = {}
    /\ stage' = "done"
    /\ UNCHANGED <<event, lineage, chain, running, failed, Rest>>

RenderNext ==
    \/ SetHTTPBehaviour
    \/ \E t \in HandledType :
          \/ \E mode \in Mode, h \in Registered : Upon(t, mode, h)
          \/ \E c \in Code : CodeUpon(t, c)
    \/ \E m \in Middleware : With(m)
    \/ \E w \in Writer : ForRequest(w)
    \/ Render \/ Pass \/ RunMiddleware \/ MiddlewareDone \/ FailSilently \/ Fail \/ Transmit
    \/ NextType \/ Respond \/ HandlerFails \/ HandlerReturns \/ Dispatched

RenderSpec == RenderInit /\ [][RenderNext]_vars

-----------------------------------------------------------------------------
(* Properties. *)

Defaults(sq) == Cardinality({i \in DOMAIN sq : sq[i].does = "default"})

(* However often a call starts over, alters itself or renders, the bundler's   *)
(* defaults are registered once, its middleware runs first, and the writer     *)
(* that answers is the one the caller named last.                              *)
StartsOver ==
    /\ \A t \in EventType : Defaults(handlers[t]) <= Defaults(WithDefaults(Responders)[t])
    /\ IsPrefix(DefaultMiddleware, middleware)
    /\ \A i \in Len(DefaultMiddleware) + 1 .. Len(middleware) : middleware[i] \in Middleware
    /\ writer = asked

Answering == stage = "done" /\ event # NoEvent /\ fresh

(* Whose turn shows in the answer: it says something, or it ends the dispatch. *)
Effective(a) == a.err \/ a.does \in {"body", "header", "commit", "responder"}
FirstEffective(sq, i) == Effective(sq[i]) /\ \A j \in 1 .. i - 1 : ~Effective(sq[j])
StatusBy(a) ==
    CASE a.does = "responder"            -> HTTPCode(event)
      [] a.does \in {"header", "commit"} -> a.code
      [] a.does = "body"                 -> 200
      [] OTHER                           -> 0

(* The middleware comes before the one event that follows it. *)
Before == IF event = "TransmitRenderedTemplate" THEN middleware ELSE <<>>

(* Whoever speaks first decides the status: the middleware in its order, then   *)
(* the event's own handlers as they are by then, before those of any category;  *)
(* and CommitStatus writes one header at most, for however many.  Not so for an *)
(* event in no list: what is registered for its type never runs.                *)
OwnTypeDecides ==
    Answering =>
        /\ client[writer].commits <= 1
        /\ \A i \in DOMAIN Before :
              FirstEffective(Before, i) => client[writer].status = StatusBy(Before[i])
        /\ event \notin Unlisted /\ (\A i \in DOMAIN Before : ~Effective(Before[i])) =>
             \A i \in DOMAIN handlers[event] :
                FirstEffective(handlers[event], i) => client[writer].status = StatusBy(handlers[event][i])

(* The first middleware or handler that fails is the last to run, and its error *)
(* comes back.                                                                  *)
ErrorStops ==
    /\ \A i \in 1 .. Len(ran) - 1 : ~ran[i].err
    /\ stage = "done" /\ (\E a \in Range(ran) : a.err) => failed

(* Render returns without an error only when the page was transmitted, and     *)
(* then with a body, if the consumer left the built-in responder in place.     *)
SuccessIsTransmitted ==
    stage = "done" /\ ~failed =>
        /\ event = "TransmitRenderedTemplate"
        /\ fresh /\ Responder \in Range(handlers[event]) => client[writer].bodies >= 1

(* events.go: every event the library emits has a built-in responder. *)
EveryEventAnswered ==
    /\ Answering
    /\ \A t \in EventType : handlers[t] = WithDefaults(Responders)[t]
    /\ \A i \in DOMAIN middleware : ~Effective(middleware[i])
    => client[writer].status = HTTPCode(event)
=============================================================================
