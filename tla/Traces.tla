------------------------------- MODULE Traces -------------------------------
(***************************************************************************)
(* The tracing module of pkg/traces/traces.go: its start hook reads the    *)
(* configuration, builds a tracer provider with one span processor for     *)
(* each configured exporter, publishes it and adds a filter to the API     *)
(* server; the filter wraps every request in a span; the stop hook shuts   *)
(* the provider down.  Register gives the two hooks to the process.        *)
(*                                                                         *)
(* prepare stores tracerProvider, propagators and tracer together, so the  *)
(* three fields are one variable here.  Attributes, names and headers of   *)
(* spans are left out: a span is open or ended, with or without a status.  *)
(***************************************************************************)
EXTENDS Integers, Sequences, FiniteSets, SequencesExt

CONSTANTS
    Requests,  \* the requests that reach the API server
    NIL

\* The exporters, in the order prepare creates them.
Exporters == <<"otel", "jaeger", "stdout">>

\* What start reads: which exporters are configured (Otel and Jaeger not
\* nil, Debug set) and whether Attributes has entries.
Config == [otel : BOOLEAN, jaeger : BOOLEAN, stdout : BOOLEAN, attributes : BOOLEAN]

\* newConfig: the configuration of a process that configures nothing.
NewConfig == [otel |-> FALSE, jaeger |-> FALSE, stdout |-> FALSE, attributes |-> FALSE]

\* What start meets: whether the configuration can be read, the resource
\* built, the HTTP client of the jaeger exporter made and each exporter
\* created, and whether the context has an API server.
Environment ==
    [read : BOOLEAN, resource : BOOLEAN, httpClient : BOOLEAN,
     fails : SUBSET ToSet(Exporters), server : BOOLEAN]

\* hookOps: the hooks of the module, by the action of the process that
\* runs them.
HookOps == {"start", "stop"}

\* A tracer provider: its exporters and the attributes of its resource.
Provider ==
    [exporters : SUBSET ToSet(Exporters) \ {{}},
     resource  : SUBSET {"process", "host", "service", "attributes"}]

VARIABLES
    registered,  \* the hooks of the module the process has
    phase,     \* "init", then "started" or "failed" (what start returned),
               \* then "stopped"
    config,    \* p.config
    provider,  \* p.tracerProvider, p.propagators, p.tracer: the provider,
               \* NIL before prepare stores them
    global,    \* the provider otel.SetTracerProvider was given
    running,   \* the exporters that were created and not shut down
    filter,    \* whether the API server has the filter
    handler,   \* handler[r]: where request r is: "waiting", "running"
               \* (in chain.ProcessFilter), "returned" or "panicked"
    span,      \* span[r]: "none", "open", "ended"
    status,    \* status[r]: whether the filter set the status of the span
    crashed    \* a request dereferenced a nil tracer

vars == <<registered, phase, config, provider, global, running, filter, handler, span, status, crashed>>

TypeOK ==
    /\ registered \subseteq HookOps
    /\ phase \in {"init", "started", "failed", "stopped"}
    /\ config \in Config \cup {NIL}
    /\ provider \in Provider \cup {NIL}
    /\ global \in Provider \cup {NIL}
    /\ running \subseteq ToSet(Exporters)
    /\ filter \in BOOLEAN
    /\ handler \in [Requests -> {"waiting", "running", "returned", "panicked"}]
    /\ span \in [Requests -> {"none", "open", "ended"}]
    /\ status \in [Requests -> BOOLEAN]
    /\ crashed \in BOOLEAN

Init ==
    /\ registered = {}
    /\ phase = "init"
    /\ config = NIL
    /\ provider = NIL
    /\ global = NIL
    /\ running = {}
    /\ filter = FALSE
    /\ handler = [r \in Requests |-> "waiting"]
    /\ span = [r \in Requests |-> "none"]
    /\ status = [r \in Requests |-> FALSE]
    /\ crashed = FALSE

-----------------------------------------------------------------------------
\* Register: the start and the stop hook are given to the process, which
\* runs them when it starts and stops.  Bound: a binary registers the
\* module once.
Register ==
    /\ registered = {}
    /\ registered' = HookOps
    /\ UNCHANGED <<phase, config, provider, global, running, filter, handler, span, status,
                   crashed>>

\* c.Read(p.name, cf): what the process configures, over newConfig().
Read(file) == IF file = NIL THEN NewConfig ELSE file

\* resource: the process, the host and the service name, and the
\* configured attributes when there are any.
Resource(cf) ==
    {"process", "host", "service"} \cup IF cf.attributes THEN {"attributes"} ELSE {}

\* newOtelExporter and newJaegerExporter: whether the exporter is made;
\* the jaeger exporter needs its HTTP client first.
NewExporter(env) ==
    [otel   |-> "otel" \notin env.fails,
     jaeger |-> env.httpClient /\ "jaeger" \notin env.fails,
     stdout |-> "stdout" \notin env.fails]

\* The exporters prepare is to create, in its order.
Wanted(cf) == SelectSeq(Exporters, LAMBDA e : cf[e])

\* prepare: the exporters it creates before it returns, all that are
\* wanted or those before the first that fails, and whether it got to
\* store the provider.
Prepare(cf, env) ==
    LET wanted == Wanted(cf)
        failed == SelectInSeq(wanted, LAMBDA e : ~NewExporter(env)[e])
    IN IF ~env.resource THEN [created |-> <<>>, ok |-> FALSE]
       ELSE IF failed # 0 THEN [created |-> SubSeq(wanted, 1, failed - 1), ok |-> FALSE]
       ELSE [created |-> wanted, ok |-> TRUE]

\* A start that goes on with nothing to export to.
NothingConfiguredIsPrepared(cf) == FALSE

\* cf.Otel == nil && cf.Jaeger == nil && !cf.Debug
NothingConfigured(cf) == Wanted(cf) = <<>>

\* A start that adds the filter before it prepares.
FilterAddedFirst(prepared, env) == env.server

\* start adds the filter after prepare succeeded, when the context has an
\* API server.
FilterAdded(prepared, env) == prepared /\ env.server

\* start, when the configuration cannot be read (the error is returned)
\* and when nothing is configured (nil is returned): p is left as it was.
StartIdle(cf, env) ==
    /\ "start" \in registered /\ phase = "init"
    /\ ~env.read \/ NothingConfigured(cf)
    /\ phase' = IF env.read THEN "started" ELSE "failed"
    /\ UNCHANGED <<registered, config, provider, global, running, filter, handler, span,
                   status, crashed>>

\* start with something configured: p.config is set, prepare creates the
\* exporters and, unless one fails, stores and publishes the provider;
\* then the filter is added.
StartTracing(cf, env) ==
    LET p    == Prepare(cf, env)
        made == [exporters |-> ToSet(p.created), resource |-> Resource(cf)]
    IN /\ "start" \in registered /\ phase = "init"
       /\ env.read /\ ~NothingConfigured(cf)
       /\ config' = cf
       /\ running' = running \cup ToSet(p.created)
       /\ provider' = IF p.ok THEN made ELSE provider
       /\ global' = IF p.ok THEN made ELSE global
       /\ filter' = FilterAdded(p.ok, env)
       /\ phase' = IF p.ok THEN "started" ELSE "failed"
       /\ UNCHANGED <<registered, handler, span, status, crashed>>

\* A stop that returns without shutting the provider down.
ShutDownNothing(p) == {}

\* The exporters tracerProvider.Shutdown shuts down: those of the
\* provider's span processors.
ShutDown(p) == p.exporters

\* stop, after start has returned whatever it returned.
Stop ==
    /\ "stop" \in registered /\ phase \in {"started", "failed"}
    /\ phase' = "stopped"
    /\ running' = IF provider # NIL THEN running \ ShutDown(provider) ELSE running
    /\ UNCHANGED <<registered, config, provider, global, filter, handler, span, status,
                   crashed>>

\* The filter, up to chain.ProcessFilter: the span is started with
\* p.tracer, which must not be nil.
FilterEnter(r) ==
    /\ filter /\ ~crashed
    /\ handler[r] = "waiting"
    /\ IF provider = NIL \/ config = NIL
       THEN crashed' = TRUE /\ UNCHANGED <<handler, span>>
       ELSE /\ span' = [span EXCEPT ![r] = "open"]
            /\ handler' = [handler EXCEPT ![r] = "running"]
            /\ UNCHANGED crashed
    /\ UNCHANGED <<registered, phase, config, provider, global, running, filter, status>>

\* A span that is ended by the last statement of the filter.
SpanAfterPanicNotDeferred == "open"

\* defer span.End(): the span is ended when the chain panics, too.
SpanAfterPanic == "ended"

\* chain.ProcessFilter returns: the status is set and the span ended.
ChainReturns(r) ==
    /\ handler[r] = "running"
    /\ handler' = [handler EXCEPT ![r] = "returned"]
    /\ span' = [span EXCEPT ![r] = "ended"]
    /\ status' = [status EXCEPT ![r] = TRUE]
    /\ UNCHANGED <<registered, phase, config, provider, global, running, filter, crashed>>

\* chain.ProcessFilter panics: the rest of the filter is skipped.
ChainPanics(r) ==
    /\ handler[r] = "running"
    /\ handler' = [handler EXCEPT ![r] = "panicked"]
    /\ span' = [span EXCEPT ![r] = SpanAfterPanic]
    /\ UNCHANGED <<registered, phase, config, provider, global, running, filter, status,
                   crashed>>

\* The handler of a request finishes, one way or the other.
ChainEnds(r) == ChainReturns(r) \/ ChainPanics(r)

Next ==
    \/ Register
    \/ \E file \in Config \cup {NIL}, env \in Environment :
          StartIdle(Read(file), env) \/ StartTracing(Read(file), env)
    \/ Stop
    \/ \E r \in Requests : FilterEnter(r) \/ ChainEnds(r)

\* Every handler finishes: the server runs each request in a goroutine of
\* its own, and the Go scheduler starves none.
Fairness == \A r \in Requests : WF_vars(ChainEnds(r))

Spec == Init /\ [][Next]_vars /\ Fairness

-----------------------------------------------------------------------------
(* Properties.                                                             *)

\* The filter never meets a nil tracer: on every path through start on
\* which the filter is added, prepare has stored the configuration, the
\* propagators and the tracer the filter dereferences on each request.
FilterHasItsTracer ==
    /\ ~crashed
    /\ filter => config # NIL /\ provider # NIL /\ global = provider

\* After a start that returned nil and a stop, no exporter is left
\* running: stop shuts down the provider, and the provider has every
\* exporter that prepare created.
CleanStartAndStopLeaveNothingRunning ==
    [][phase = "started" /\ phase' = "stopped" => running' = {}]_vars

\* Every span the filter starts is ended, whether the handler returns or
\* panics (defer span.End()).
EverySpanEnds ==
    \A r \in Requests : span[r] = "open" ~> span[r] = "ended"
=============================================================================
