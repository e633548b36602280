------------------------------- MODULE Startup -------------------------------
(***************************************************************************)
(* The start of a server process: the start hooks of the modules linked    *)
(* into a binary run one at a time in the order of their Priority and      *)
(* SubPriority, each with the process context, and the first that returns  *)
(* an error ends the start.                                                *)
(*                                                                         *)
(* From the source: the init hooks and the factories of the RBAC and ABAC  *)
(* registrations (pkg/authorization/register), the start hooks of the two  *)
(* example binaries (examples/all, examples/hello) and the Start of the    *)
(* tracing example.  The hook runner, the hooks that put the database and  *)
(* the servers into the context and the hook that assembles the authorizer *)
(* chain are outside the repository; the values of options.PRI_M_* are not *)
(* known, so every assignment in SubPriorities is considered, and hooks of *)
(* one rank run in either order.                                           *)
(***************************************************************************)
EXTENDS Integers, Sequences, FiniteSets, SequencesExt

CONSTANTS
    PRI_SYS_INIT, PRI_MODULE,  \* proc.PRI_SYS_INIT, proc.PRI_MODULE
    SubPriorities,             \* the assignments of options.PRI_M_* considered
    Binaries,                  \* the sets of hooks a binary may link
    ModeLists,                 \* the authorization modes a configuration may name
    NIL

\* What a hook from outside the repository puts into the context.
Attributes == {"db", "apiserver", "grpc"}

\* The modules examples/all starts, in the order of its start.
AppModules == <<"session", "tracing", "user", "authn", "authz">>

Hooks == Attributes \cup {"opentracing", "rbac", "abac", "authz", "app", "hello"}

ASSUME /\ PRI_SYS_INIT < PRI_MODULE
       /\ \A b \in Binaries : b \subseteq Hooks

VARIABLES
    binary,       \* the hooks of this binary
    pri,          \* options.PRI_M_* of this build
    modes,        \* the configured authorization modes
    pending,      \* the hooks that have not run
    ctx,          \* the attributes of the process context
    rbacCtx,      \* _auth.ctx of the RBAC registration: what it held, or NIL
    configured,   \* the registrations whose _auth.config is set
    chain,        \* the modes of the assembled authorizer chain, NIL for none
    opentracing,  \* opentracing.IsGlobalTracerRegistered()
    routes,       \* the modules whose routes are installed
    phase         \* "starting", "serving", "failed" (a hook returned an
                  \* error) or "crashed" (a nil dereference)

vars == <<binary, pri, modes, pending, ctx, rbacCtx, configured, chain, opentracing,
          routes, phase>>

TypeOK ==
    /\ binary \in Binaries /\ pri \in SubPriorities /\ modes \in ModeLists
    /\ pending \subseteq binary
    /\ ctx \subseteq Attributes
    /\ rbacCtx \in SUBSET Attributes \cup {NIL}
    /\ configured \subseteq {"rbac", "abac"}
    /\ chain \in ModeLists \cup {NIL}
    /\ opentracing \in BOOLEAN
    /\ routes \subseteq ToSet(AppModules) \cup {"hello"}
    /\ phase \in {"starting", "serving", "failed", "crashed"}

Init ==
    /\ binary \in Binaries /\ pri \in SubPriorities /\ modes \in ModeLists
    /\ pending = binary
    /\ ctx = {} /\ rbacCtx = NIL /\ configured = {} /\ chain = NIL
    /\ opentracing = FALSE /\ routes = {} /\ phase = "starting"

-----------------------------------------------------------------------------
\* An init hook that asks for the rank after the authz module's.
RbacRankAfterAuthz(p) == <<PRI_SYS_INIT, p.authz + 1>>

\* hookOps of the RBAC registration: "authz's submodule, should be loaded
\* before the authz module".
RbacRank(p) == <<PRI_SYS_INIT, p.authz - 1>>

\* hookOps of the ABAC registration.
AbacRank(p) == <<PRI_SYS_INIT, p.authz - 1>>

\* hookOps of examples/all and of examples/hello: no SubPriority.
AppRank == <<PRI_MODULE, 0>>
HelloRank == <<PRI_MODULE, 0>>

\* Priority and SubPriority of each hook.
Rank(h) ==
    CASE h = "rbac"        -> RbacRank(pri)
      [] h = "abac"        -> AbacRank(pri)
      [] h = "app"         -> AppRank
      [] h = "hello"       -> HelloRank
      [] h = "opentracing" -> <<PRI_SYS_INIT, pri.tracing>>
      [] OTHER             -> <<PRI_SYS_INIT, pri[h]>>

Earlier(a, b) == a[1] < b[1] \/ (a[1] = b[1] /\ a[2] < b[2])

\* The hook runner takes a hook that no hook still to run ranks before.
Runs(h) ==
    /\ phase = "starting"
    /\ h \in pending
    /\ \A k \in pending : ~Earlier(Rank(k), Rank(h))
    /\ pending' = pending \ {h}

\* The start is over when every hook has returned nil.
Then(ok) == IF ~ok THEN "failed" ELSE IF pending' = {} THEN "serving" ELSE "starting"

\* A hook from outside the repository: it puts the database or a server
\* into the context, or registers the opentracing tracer, or fails.
External(h, ok) ==
    /\ Runs(h)
    /\ ctx' = IF ok /\ h \in Attributes THEN ctx \cup {h} ELSE ctx
    /\ opentracing' = (opentracing \/ (ok /\ h = "opentracing"))
    /\ phase' = Then(ok)
    /\ UNCHANGED <<binary, pri, modes, rbacCtx, configured, chain, routes>>

\* authModule.init of the RBAC registration: the configuration is read and
\* kept together with the context the hook was given.
RbacInit(ok) ==
    /\ Runs("rbac")
    /\ configured' = IF ok THEN configured \cup {"rbac"} ELSE configured
    /\ rbacCtx' = IF ok THEN ctx ELSE rbacCtx
    /\ phase' = Then(ok)
    /\ UNCHANGED <<binary, pri, modes, ctx, chain, opentracing, routes>>

\* authModule.init of the ABAC registration: the configuration is read and
\* kept.
AbacInit(ok) ==
    /\ Runs("abac")
    /\ configured' = IF ok THEN configured \cup {"abac"} ELSE configured
    /\ phase' = Then(ok)
    /\ UNCHANGED <<binary, pri, modes, ctx, rbacCtx, chain, opentracing, routes>>

\* The RBAC factory looks the database up in _auth.ctx; a nil context
\* cannot be asked.
RbacFactory ==
    IF rbacCtx = NIL THEN "panic" ELSE IF "db" \in rbacCtx THEN "ok" ELSE "error"

\* The ABAC factory reads _auth.config.PolicyFile and loads the file.
AbacFactory(fileOK) ==
    IF "abac" \notin configured THEN "panic" ELSE IF fileOK THEN "ok" ELSE "error"

\* What the factory registered for a mode returns; a mode whose
\* registration is not linked has no factory.
Factory(mode, fileOK) ==
    CASE mode = "RBAC" /\ "rbac" \in binary -> RbacFactory
      [] mode = "ABAC" /\ "abac" \in binary -> AbacFactory(fileOK)
      [] OTHER -> IF mode \in {"AlwaysAllow", "AlwaysDeny"} THEN "ok" ELSE "error"

\* A chain that keeps the authorizers made before a factory failed.
AssembledPartly(bad) == SubSeq(modes, 1, IF bad = 0 THEN Len(modes) ELSE bad - 1)

\* The chain has an authorizer for every mode, or there is none.
Assembled(bad) == IF bad = 0 THEN modes ELSE chain

\* The hook of the authz module: the chain is assembled from the factories
\* of the configured modes, in their order, up to the first that fails.
AuthzStart(fileOK) ==
    LET bad == SelectInSeq(modes, LAMBDA m : Factory(m, fileOK) # "ok") IN
    /\ Runs("authz")
    /\ chain' = Assembled(bad)
    /\ phase' = IF bad # 0 /\ Factory(modes[bad], fileOK) = "panic"
                THEN "crashed" ELSE Then(bad = 0)
    /\ UNCHANGED <<binary, pri, modes, ctx, rbacCtx, configured, opentracing, routes>>

\* Module.Start of the tracing example: it wants the API server, the grpc
\* server and a registered opentracing tracer before it installs its routes.
TracingStarts == {"apiserver", "grpc"} \subseteq ctx /\ opentracing

\* A start that returns nil after its last module, whatever that returned.
StartReturnsNilAtTheEnd(fails) == fails \subseteq {Last(AppModules)}

\* start returns nil when every module started.
StartReturnsNil(fails) == fails = {}

\* start of examples/all: the modules are started in order and the first
\* error is returned; those started before it keep their routes.
Started(fails) ==
    LET bad == SelectInSeq(AppModules, LAMBDA m : m \in fails) IN
    ToSet(IF bad = 0 THEN AppModules ELSE SubSeq(AppModules, 1, bad - 1))

AppStart(fails) ==
    /\ Runs("app")
    /\ "tracing" \in fails <=> ~TracingStarts
    /\ routes' = routes \cup Started(fails)
    /\ phase' = Then(StartReturnsNil(fails))
    /\ UNCHANGED <<binary, pri, modes, ctx, rbacCtx, configured, chain, opentracing>>

\* start of examples/hello: the routes are installed on the API server of
\* the context, and without one the start fails.
HelloStart ==
    /\ Runs("hello")
    /\ routes' = IF "apiserver" \in ctx THEN routes \cup {"hello"} ELSE routes
    /\ phase' = Then("apiserver" \in ctx)
    /\ UNCHANGED <<binary, pri, modes, ctx, rbacCtx, configured, chain, opentracing>>

Next ==
    \/ \E ok \in BOOLEAN :
          \/ \E h \in Attributes \cup {"opentracing"} : External(h, ok)
          \/ RbacInit(ok)
          \/ AbacInit(ok)
          \/ AuthzStart(ok)
    \/ \E fails \in SUBSET ToSet(AppModules) : AppStart(fails)
    \/ HelloStart

Spec == Init /\ [][Next]_vars

-----------------------------------------------------------------------------
(* Properties.                                                             *)

\* No factory runs before the init hook of its registration: the RBAC
\* factory never asks a nil _auth.ctx for the database and the ABAC factory
\* never reads the PolicyFile of a nil _auth.config, whatever the ranks of
\* the other modules are and whichever modes are configured ("authz's
\* submodule, should be loaded before the authz module": SubPriority
\* PRI_M_AUTHZ - 1).
FactoriesFindTheirRegistration == phase # "crashed"

\* A binary that serves has everything it was started for: the routes of
\* every module of its start hook on an API server that is in the context
\* (a start that fails half way never serves the routes it installed), and
\* each configured authorizer in the chain, RBAC only with the database in
\* the context its init hook kept (p.ctx = ctx of rbac.go: a database that
\* is put into the process context after that hook is not in _auth.ctx).
ServingIsComplete ==
    phase = "serving" =>
        /\ "hello" \in binary => "hello" \in routes /\ "apiserver" \in ctx
        /\ "app" \in binary => routes = ToSet(AppModules) /\ TracingStarts
        /\ "authz" \in binary =>
              /\ chain = modes
              /\ "RBAC" \in ToSet(modes) => rbacCtx # NIL /\ "db" \in rbacCtx
=============================================================================
