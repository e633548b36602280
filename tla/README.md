# TLA+ models of the apiserver policy engine and its runtime modules

This directory holds the TLA+ specifications of the repository, the TLC
configurations that model-check them, and `PROJECT.json`, which lists the
components, the runs, the mutants that show each property can fail, the
source lines every definition models, the findings and the hazards.

Run a configuration from this directory with

    tlc -workers 2 -config MCSelector.cfg MCSelector

## 1. The system

The repository is an API server's authorization core and the runtime
modules around it.  A request reaches the HTTP mux, passes the tracing
filter, is authenticated (a service account is a username of a fixed
form), and is authorized by a chain of authorizers.  The RBAC authorizer
reads roles and bindings from a policy store through per-kind listers; the
store accepts an object only after the validator of its kind found no
error.  Store queries are narrowed by label selectors.  The database handles
behind the store come from the database set.

| Part | Source | State | Operations | Talks to |
|------|--------|-------|------------|----------|
| Label selector | `staging/labels/selector.go` | a slice of requirements, each a query and a slice of arguments; slices share backing arrays | `Everything`, `Nothing`, `NewSelector`, `NewRequirement`, `Add`, `DeepCopy*`, `Requirements`, `Empty`, `String`, `SelectorFromSet` | callers that keep the slices they passed in or got back; the listers |
| Policy validators | `pkg/api/rbac/validation.go` | none | eleven `Validate*` functions | the admission layer |
| Policy store, admission | outside the repository | four tables of named objects | create, update, delete, `Get`, `List` | validators, listers |
| Policy listers | `pkg/listers/rolebinding.go`; the other three outside the repository | none | `List`, `Get` (of the table `cluster_role`) | the store, the RBAC authorizer, which is given it at `rbac.go:76` |
| RBAC and ABAC authorizers, chain | outside the repository | per request: position in the chain, bindings still to resolve; the static policy list of ABAC | `Authorize` | the listers |
| Service account names | `pkg/authentication/serviceaccount/util.go` | none | `MakeUsername`, `MatchesUsername`, `SplitUsername`, `MakeGroupNames`, `UserInfo`, `IsServiceAccountToken` | authenticators, subject matching |
| Database set | `pkg/db/db.go` | a map from name to open database, shared by every handle | `NewDB`, `GetDB`, `Close` | `orm.Open`, every module that stores |
| Path recorder mux | `modules/apiserver/mux/pathrecorder.go` | the listed paths, the stack of each registration, the `http.ServeMux` | `Handle`, `HandleFunc`, `UnlistedHandle`, `UnlistedHandleFunc`, `ListedPaths` | modules registering routes, the index page |
| Tracing module | `pkg/traces/traces.go` | configuration, tracer provider with its resource and exporters, the installed filter | `Register`, `start`, `resource`, `prepare`, the two exporter constructors, `stop`, the request filter | the process hooks, the API server, every request |
| Authorizer registration | `pkg/authorization/register/{rbac,abac}` | the kept context and configuration | init hooks, factories | process hooks, the chain builder |
| Example binaries | `examples/all/app.go`, `examples/hello/apiserver-hello-world.go` | the routes installed | the start hooks | process hooks, the API server of the context |
| Tracing example | `examples/all/tracing/tracing.go` | per request: the spans started, the grpc connection | `Start`, the handlers `a`, `a1`, `b`, `b1`, `c`, `C1` | the API server, its own server over HTTP, the grpc server |
| Generated client model | `examples/gen-sdk/client/openapi` | objects of three strings that callers share by pointer; holders of a pointer and a flag | constructors, getters, Ok getters, setters, `MarshalJSON`; of the holder `Get`, `Set`, `IsSet`, `Unset`, `MarshalJSON`, `UnmarshalJSON` | `encoding/json`, callers of the client |
| Declarations, TokenReview client | `pkg/apis`, `pkg/authentication/authenticator` | none of their own | | |

What makes these parts hard to test, and what a model checker reaches, is
listed part by part under `hazards` in `PROJECT.json`, each at the line
where it bites.  In short:

* selectors alias: `NewRequirement` keeps the caller's argument slice and
  `Requirements` hands out the selector's own array, so a write anywhere
  can change a selector elsewhere, and `Add` and `DeepCopy` are what
  protects against it;
* the store is only as well formed as the validators make it over every
  sequence of create, update and delete; `RoleRef` must never change;
* an authorization reads the store in several calls while the store is
  written; roles referred to by bindings may be gone; the lister of role
  bindings hands the engine the rows of another table;
* the database set shares one map between all handles, and `NewDB` fails
  half way;
* the path recorder has no lock;
* the tracing filter dereferences fields that only a successful `prepare`
  sets, and must end its span when the handler panics;
* the factories of the authorizers read what only the init hooks set, and
  the order of hooks is decided by ranks declared module by module;
* the handlers of the tracing example return from several places and wait
  for calls that may not be answered by whom they expect;
* a holder of the generated client keeps the pointer it was given, and a
  JSON document is decoded into the object behind it, over what is there.

## 2. The modules

| Module | Models | How state and actions correspond to the code |
|--------|--------|----------------------------------------------|
| `Selector` | the label selector | Go slices are cells of two heaps (requirement arrays, argument arrays); a selector is a cell and a length. Each constructor and method is an action on a slot of an owner (a goroutine); `WriteArg` and `WriteRequirement` are the writes Go lets a caller make through a slice it shares with a selector. |
| `RbacValidation` | the validators | each validator is an operator from an object to its `field.ErrorList`, a sequence of error type and field path, built in the order of the code. |
| `PolicyStore` | store, admission, role binding lister | `store[table][name]`; `Create` and `Update` are guarded by the validator of the kind returning no error; the role binding lister is the table its queries name. |
| `Authorizer` | RBAC and ABAC authorizers and the chain over `PolicyStore` | one evaluation in steps: `Authorize`, then for ABAC the one step `AbacDecides` over the constant `Policy`, for RBAC `ListRoleBindings`, `ListClusterRoleBindings`, one `Resolve` per binding, `NoOpinion`; `StoreFails` and `Cancel` at any step; `Admission` is any step of `PolicyStore` in between. `Listed(kind)` is what the lister of a kind returns: for role bindings the rows of `RoleBindingListerList`, each as `AsRoleBinding` has it, for the other kinds the stored objects. `ListedReference` is the decision read off one state of the store through the listers, `Reference` the decision the specification gives for the stored bindings. |
| `ServiceAccount` | service account names | strings are sequences; each function is an operator written after the code (`MatchesUsername` slices prefix, namespace and separator off in turn; `SplitUsername` splits at every separator and wants exactly two parts). A caller makes one call at a time with any arguments. |
| `ServerDB` | the database set | `pool[h]` is whether the database opened for entry `h` is open; `NewDB` is one action that skips, opens, fails and registers as the loop does; `GetDB` returns a handle sharing the map; `Close` closes what the map holds. |
| `PathRecorderMux` | the path recorder | a registration is four steps, one for each access to the unlocked fields: `TrackCallers`, `MuxHandle`, `AppendRead`, `AppendWrite`; `ListedPaths` is one step. |
| `PathRegistry` | what the path recorder promises | the abstract specification: `served[p]` is who registered path `p`, `listed` the paths to show; a registration is the single step `Register`, a refused one the single step `Refuse`. |
| `Traces` | the tracing module | `Register` gives the process the hooks of `HookOps`; `StartIdle` and `StartTracing` are the paths through `start`, over the configuration `Read` leaves in `NewConfig` (`Prepare` says how far `prepare` gets, `NewExporter` which exporter can be made, `Resource` what the resource holds); `provider` is the three fields `prepare` stores together; `Stop`; a request is `FilterEnter` followed by `ChainReturns` or `ChainPanics`. |
| `Startup` | the start of a process | `pending` is the set of hooks still to run; a hook runs when no pending hook ranks before it (`Rank` is `Priority` and `SubPriority` of its `hookOps`). `RbacInit` and `AbacInit` are the init hooks, `RbacFactory` and `AbacFactory` what the factories return when `AuthzStart` assembles the chain, `AppStart` and `HelloStart` the start hooks of the two binaries, `TracingStarts` the three conditions of the tracing example's `Start`. |
| `TracingExample` | the handlers of the tracing example | `inv` is the sequence of handler invocations (each a goroutine with a program counter), `spans` the sequence of spans with parent and open flag. `Enter` is the first statement of every handler; `A1Enter`, `A1Leave`, `AReturn` are `a`; `BClientFails`, `BCall` and `Answered` are `b`; `CDialFails`, `CDial`, `CCall` and `Answered` are `c`; `Returns` is a return with what was deferred. |
| `CreateUserInput` | the generated client model | `heap[c]` is the object at cell `c`, a pointer is a cell or `NIL`; `nullable[h]` is a holder. Each constructor, setter and method of the holder is an action; a setter on a nil pointer panics; `WriteThrough` is the write Go lets a caller make through the `*string` of an Ok getter. `NullableMarshalJSON` puts a document on `wire`, `Receive` puts a peer's there, `UnmarshalJSON` decodes it into a holder. `Marshal` and `Unmarshal` are `encoding/json` for a pointer to this struct. |
| `ExampleServer` | a process from start to requests | the composition: the steps of `Startup`, then, once the process serves and the tracing routes are installed, the steps of `TracingExample`. |

`MC*.tla` modules give the constants their values for TLC.

### Refinement

`PathRecorderMux` instantiates `PathRegistry` under the mapping

    served <- [p \in Paths |-> IF p \in Unreturned THEN NIL ELSE mux[p]]
    listed <- exposedPaths

where `Unreturned` is the set of paths whose registration has passed
`mux.Handle` and not yet assigned the append.  `ImplementsPathRegistry` is
the abstract specification `Registry!Spec`, checked as a property of the
`pathrecorder` run: with one registering goroutine every step of the
recorder is a `Register`, a `Refuse` or a stuttering step of the registry,
so a registration is atomic to its caller.  The mapping hides the handler
of a path until its registration returns; the steps before are stuttering
steps.  With two registrars the recorder does not implement the registry
(finding 2).

### Composition

`ExampleServer` instantiates `Startup` and `TracingExample` over disjoint
variables.  A step is a step of the start, or, when `Serves` holds, a step
of a handler; the properties of both parts are checked in the product.
The hook runner, the hooks of the database, the servers and the
opentracing tracer, and the hook that assembles the chain are outside the
repository and modelled from the specification.  The values of
`options.PRI_M_*` are outside the repository, too: `pri` is chosen in
`Init` from every injective assignment of five ranks, and hooks of equal
rank run in either order, so what holds, holds for every build.

`Authorizer` instantiates `PolicyStore`, which extends `RbacValidation`:
the validators of the source decide what the engine can find in the store.
The authorizers, the chain, the store and its admission are not in the
repository; they are modelled from the specification and marked
`spec_modelled` in the map.  The one lister of the source is the lister
of role bindings, and `Authorizer` lists role bindings through it, as the
factory at `rbac.go:76` wires it: the engine is handed the rows of
`cluster_role`.  The storage layer that decodes a row into a
`*rbac.RoleBinding` is outside the repository; `AsRoleBinding` gives the
binding the name of the row and neither subjects nor a role reference,
which a cluster role does not have, and a decode that fails is the store
error `StoreFails` models at every step.  Either way no role binding is
ever a candidate (finding 4).

## 3. The runs

Passing runs (TLC explores the whole state space, no error):

| Run | Configuration | Distinct states | What it shows |
|-----|---------------|-----------------|---------------|
| `selector_aliasing` | `MCSelector.cfg` | 69,759 | two goroutines build, add to, copy and write through selectors that share arrays: `Add` never changes a selector that exists (`AddIsNonMutating`); no write of anyone reaches a deep copy (`CopiesAreIndependent`); a deep copy has the `String`, `Empty` and nil-ness of its original (`CopyEqualsOriginal`) |
| `policy_admission` | `MCPolicyStore.cfg` | 24,192 | over every sequence of valid and invalid requests: stored Roles have well-shaped rules, stored bindings have legal references and subjects, and no step changes the `roleRef` of a binding that exists (`RoleRefIsImmutable`, an action property) |
| `authorizer` | `MCAuthorizer.cfg` | 219,126 | with admission between any two steps of an evaluation, and role bindings read through the lister of the source: on a store that held still the decision in steps is the decision read off the listers at once, and nothing the listers return and no store error makes it more permissive than the stored bindings are (`QuietDecisionIsTheListedReference`); every request is decided (`EveryRequestIsDecided`, liveness) |
| `serviceaccount_names` | `MCServiceAccount.cfg` | 128,831 | `MatchesUsername` is equality with `MakeUsername` for all strings; `SplitUsername` returns only pairs that make the username it was given, and recovers namespace and name from the username of `UserInfo` |
| `serverdb` | `MCServerDB.cfg` | 3,838 | `GetDB` answers for exactly the configured names with the database of the last entry of each name; `Close` through any handle closes every registered database |
| `pathrecorder` | `MCPathRecorderMux.cfg` | 1,798 | with one registering goroutine and a reader: the list has each served path once, no registered path is missing, the stack reported before a double registration panics is the first registrant's, `ListedPaths` sorts a copy, and the recorder implements `PathRegistry` (`ImplementsPathRegistry`) |
| `traces` | `MCTraces.cfg` | 529 | the filter is installed only with its tracer, propagators and configuration set; a start that returned nil followed by stop leaves no exporter running; every span is ended, also when the handler panics (liveness) |
| `sdk_model` | `MCCreateUserInput.cfg` | 63,672 | callers build objects, share them between two holders, set fields, marshal a holder and unmarshal its document or a peer's: after `UnmarshalJSON` of a document `MarshalJSON` wrote, the getters return what was written, whatever the holder held before (`RoundTripRestoresTheValue`); `UnmarshalJSON` into a holder that is not set changes no object that exists (`DecodeIntoUnsetIsFresh`); both are action properties |
| `startup` | `MCExampleServer.cfg` | 530,836 | both binaries under every ranking of the hooks, four mode lists and a failure of any hook, then two requests: no factory meets a nil context or configuration (`FactoriesFindTheirRegistration`); a process that serves has every route of its start hook and its whole chain, RBAC with the database in the context its init hook kept (`ServingIsComplete`); a handler that returned left no span and no connection open (`ReturnedHandlersLeaveNothingOpen`); the span of `a1` is under the span of `a` and finished before it (`A1IsUnderA`); every request returns (`EveryRequestReturns`, liveness) |

Runs that end in a violation, each of one property that a comment, an
interface or the specification states:

| Run | Property | Finding |
|-----|----------|---------|
| `serverdb_leak` | `EveryOpenDatabaseCanBeClosed` | 1 |
| `pathrecorder_race` | `NoListedRegistrationIsLost` | 2 |
| `authorizer_torn_read` | `AllowWasGrantedByTheStore` | 3 |

Finding 4 is told of the passing run `authorizer`: its property is
stated of what the listers return, because that is what the program
decides from.

Every property of a passing run has a mutant in `PROJECT.json`: a variant
of a modelled definition, written next to it in the module, that changes
it the way a slip in the code would (an append in place, a shallow copy, a
dropped scope check, a filter added before `prepare`, a span ended without
`defer`, an init hook ranked after the module that calls its factory, an
authorizer without an opinion that passes over the next one, a
handler that passes on the context of its request instead of its own, a
`MarshalJSON` that omits empty members, an `Unset` that keeps the
pointer).
Under each mutant TLC finds the property violated.

## 4. Findings

1. `db.go:65` — when an `orm.Open` fails, the databases `NewDB` opened
   before stay open and unreachable; a second entry of one name (line 68)
   does the same to the first.
2. `pathrecorder.go:77` — `append` to `m.exposedPaths` is not atomic and
   not locked: two concurrent registrations lose a path from the list.
3. `register/rbac/rbac.go:74` — the RBAC authorizer reads bindings and
   roles in separate calls with no snapshot: an ALLOW can rest on a binding
   as it was before a revocation and a role as it is after a later grant,
   which no state of the store ever permitted.  The specification demands
   this of a cache and is silent about a single evaluation.

4. `rolebinding.go:31,37` — the role binding lister queries the table
   `cluster_role`.  RBAC, which is given this lister, never sees a role
   binding: a request that a stored RoleBinding grants is denied.
   `QuietDecisionIsTheReference`, the decision section 4.4 gives for the
   stored bindings, fails under `MCAuthorizerLister.cfg` after a Role and
   a RoleBinding are created and the bound caller asks; of the lister
   alone, `RoleBindingListerReadsRoleBindings` fails under
   `MCPolicyStoreLister.cfg`.  The `authorizer` run shows what is left
   to hold: the chain is never more permissive than the stored bindings.

Further disagreements between the code and its own words are modelled and
can be reproduced with the configuration named; they are kept out of the
runs of `PROJECT.json` because reading the line shows them:

* `validation.go:54` — `ValidateClusterRole` returns nil without looking
  at the rules; a ClusterRole with a rule without verbs, or of both
  shapes, is stored (`StoredClusterRolesAreWellShaped` under
  `MCPolicyStoreClusterRole.cfg`).  The engine's matching then ignores
  such a rule: the `authorizer` run has one in its store.
* `selector.go:285` — `SelectorFromValidatedSet` ends with the comment
  "sort to have deterministic string representation" and sorts nothing:
  the `String` of a selector of two or more labels follows Go's map
  iteration order (`FromSetStringIsSorted` under `MCSelectorSorted.cfg`).
* `db.go:61` — `ConnMaxIdletime` is passed to `orm.WithConnMaxLifetime`
  (`SettingsAreTheConfigured` under `MCServerDBIdle.cfg`).
* `tracing.go:129` — the route is described as "b -> b1" and `b` asks for
  `/traceing/b1`, which no route serves: `b` never reaches `b1` and
  returns the error of its call (`BCallsB1` under
  `MCExampleServerB1.cfg`).
* `tracing.go:148` — `c` drops the context that has its span and calls
  `C1` with the context of its request: in the trace of "c -> C1(grpc)"
  the span of `C1` is beside the span of `c`, not under it
  (`TraceShowsTheCallChain` under `MCExampleServerChain.cfg`).

## 5. Bounds

Every bound is a named constant of a configuration.

* `Selector`: `MaxLen = 2` requirements per selector and argument list,
  two owners, one with two slots and one with one, one label key (two under
  `MCSelectorSorted.cfg`, the least that has two orders).  Two slots of
  one owner are what it takes to hold an original and its copy or its
  `Add`, the slot of the other what it takes to share with them;
  length 2 is the least with spare capacity after one append.
* `PolicyStore`: one object name per table (an update, a delete and a
  re-create need no second), `MaxRules = 2` (the least where the index of
  the failing rule matters), `MaxSubjects = 1`; the rules and subjects are
  one representative of every branch of every validator, valid and not.
* `Authorizer`: one name for roles and bindings, so that a reference
  resolves while the role is there and dangles when it is deleted;
  `MaxRules = MaxSubjects = 1`; two callers (one named by the bindings,
  one by group), six requests that differ from a rule in one dimension
  each, four chains (RBAC alone, behind AlwaysDeny, before AlwaysAllow,
  behind ABAC); a policy list of one entry, which permits one of the
  requests to one of the callers and not to the other; one evaluation at
  a time, because evaluations share nothing but the store.
* `ServiceAccount`: names up to `MaxName = 2` characters over a label
  character, a subdomain-only character and the separator; usernames up to
  `MaxTail = 5` characters after the prefix, enough for three parts with a
  two-character part.
* `ServerDB`: `MaxDatabases = 3` entries (a skipped or failing entry
  between two good ones, duplicates, with and without a default), two
  names, two goroutines.
* `PathRecorderMux`: three paths of which the mux refuses one, two call
  sites, `MaxListed = 2`; one registrar in the passing run and two in the
  race run.
* `Traces`: the module is registered once; all sixteen configurations and
  the one of a process that configures nothing; every failure of
  `prepare`, that of the jaeger exporter's HTTP client included; two
  requests, so that one is in its handler when the other enters and when
  stop runs.
* `CreateUserInput`: two cells, so that a holder decodes into an object
  of its own while another object is shared, and so that a decode into a
  nil pointer finds no cell left only after both are in use; two holders
  (a writer and a reader, or two holders of one pointer); the empty
  string and one other, so that a zero value is told from a value that
  was never written; five documents of a peer: null, a malformed one,
  the empty object, an object with one member of three, and an object
  with a member that is a number.  `Cells` bounds allocation: an
  allocation waits while no cell is free, where the program would
  allocate.
* `ExampleServer`: the two binaries of the repository; `PRI_SYS_INIT = 1`
  and `PRI_MODULE = 2` (only their order matters); all 120 orders of the
  five module ranks; four mode lists (a mode without a store, RBAC alone,
  ABAC before RBAC, a mode nobody registered); any hook may fail.
  `MaxRequests = 2` requests from outside, so that the handlers of one run
  between the steps of the other; `MaxInvocations = 2 * MaxRequests`,
  because a handler makes at most one call that the server answers.

## 6. Fairness and deadlock

Three runs check liveness.  `Authorizer` assumes `WF_vars(Evaluate)`: the
goroutine that handles a request is scheduled, and every store call either
answers or fails.  `Traces` assumes `WF_vars(ChainEnds(r))` for each
request: its handler finishes, by returning or by panicking.
`ExampleServer` assumes weak fairness of the next step of each handler
invocation: a handler is a goroutine, and a call it waits for is answered
by a handler, by the server that has no such route or by a failed
transport.  All three rest on the Go scheduler starving no goroutine;
nothing is assumed of admission, of callers, of the start of the process
or of when stop is called.  The other modules state safety only and
assume no fairness.

`CHECK_DEADLOCK FALSE` is set where the process really stops: after a
panic of `GetDB`, of a registration or of a setter called on a nil
pointer, after the stop hook of the tracing
module, and after a start that failed or a server that has answered all
its requests.

## 7. What is not modelled

* The process framework (`proc`), the ORM, `http.ServeMux`, the
  OpenTelemetry SDK, opentracing, the REST and grpc clients and the name
  validators are outside the repository.  Where a modelled operation
  calls them they are modelled by the one behaviour it depends on
  (`orm.Open` succeeds or fails and applies its options;
  `ServeMux.Handle` registers or panics; an exporter is created or not; a
  hook runs when no pending hook ranks before it;
  `StartSpanFromContext` starts a child of the span of the context; the
  span of the context a caller passes is the span of the context of the
  handler it reaches) and marked `spec_modelled`.
* The TokenReview client (`pkg/apis/authentication/tokenreview.go`): its
  one method posts an object through the REST client and decodes the
  answer into a new one.  It has no state and no branch, and its only
  user, the webhook authenticator, is commented out of `examples/all`.
* Of `encoding/json`, what `CreateUserInput` leaves out: strings that
  are not valid UTF-8 (the encoder replaces the invalid bytes, so such a
  value does not come back from a round trip), documents whose top level
  is neither null nor an object, members that are null, and member names
  that differ from the field's in case only.
* The declarations of `pkg/authentication/authenticator`: constants that
  nothing in the repository reads.
* `Requirement.DeepCopy` (`selector.go:122`): the package copies
  requirements through `DeepCopyInto` only, which is modelled.
* The stop hook of `examples/all` and the three handlers of
  `examples/hello`: a log line and three constants, none of which changes
  state.
* Values that no step depends on: messages of errors, span attributes,
  tags and logs, the delay of the example handlers, the sampler, exporter
  endpoints and credentials, DSNs.
* The storage layer behind the listers (`pkg/storage`): what it makes of
  a row of `cluster_role` that it is asked to decode into a role binding
  is modelled by the two outcomes it can have, a binding with the name
  and nothing else, or an error.
* Namespaces of roles and bindings: `PolicyStore` and `Authorizer` model
  the objects and requests of one namespace.  The validators of the
  source take no namespace, and a second namespace squares the states of
  the two namespaced tables.
* The span processors of the SDK: what becomes of a span that ends after
  `stop` has shut the provider down (`traces.go:232`) is decided inside
  the SDK.
* The exporters of a `prepare` that failed (`traces.go:162`): `Traces`
  has them in `running`, and they stay there after `stop`;
  `CleanStartAndStopLeaveNothingRunning` is stated of a start that
  returned nil for that reason.

## 8. Plan

Done: the selector, the validators with the store and the listers, the
RBAC and ABAC authorizers and the chain over them, the service account
names, the database set, the path recorder and the registry it
implements, the whole of the tracing module, the start of the two example
binaries with the authorizer registrations, the handlers of the tracing
example, the generated client model.

Every operation of the repository that changes state is an action of a
module.  What could follow needs code that is not in the repository:

1. `List(selector)` over rows with labels, once the storage layer that
   evaluates a selector is at hand.
2. `Authorizer` over several namespaces, with an instance small enough in
   its rules to leave room for the second namespace.
3. `ServerDB` with queries in flight while another handle closes the set,
   which depends on what the ORM does with a closed database.
