---------------------------- MODULE ExampleServer ----------------------------
(***************************************************************************)
(* A process of one of the example binaries, from its start to the         *)
(* requests it answers: the hooks of Startup run first, and the handlers   *)
(* of TracingExample take requests once the process serves and the routes  *)
(* of the tracing module are installed.                                    *)
(***************************************************************************)
EXTENDS Integers, Sequences, FiniteSets

CONSTANTS
    PRI_SYS_INIT, PRI_MODULE, SubPriorities, Binaries, ModeLists,  \* of Startup
    MaxRequests,                                                   \* of TracingExample
    NIL

VARIABLES
    binary, pri, modes, pending, ctx, rbacCtx, configured, chain, opentracing,
    routes, phase,  \* of Startup
    inv, spans      \* of TracingExample

Start    == INSTANCE Startup
Tracing  == INSTANCE TracingExample

startVars == <<binary, pri, modes, pending, ctx, rbacCtx, configured, chain, opentracing,
              routes, phase>>
tracingVars == <<inv, spans>>
vars == <<startVars, tracingVars>>

TypeOK == Start!TypeOK /\ Tracing!TypeOK

Init == Start!Init /\ Tracing!Init

\* The API server routes requests to the handlers that were installed on
\* it, once the start is over.
Serves == phase = "serving" /\ "tracing" \in routes

Starting == Start!Next /\ UNCHANGED tracingVars

Handling == Serves /\ Tracing!Next /\ UNCHANGED startVars

Next == Starting \/ Handling

\* Every handler runs in a goroutine, and the Go scheduler starves none.
\* Nothing is assumed of the start.
Fairness ==
    \A i \in 1..Tracing!MaxInvocations :
        WF_vars(Serves /\ Tracing!Step(i) /\ UNCHANGED startVars)

Spec == Init /\ [][Next]_vars /\ Fairness

-----------------------------------------------------------------------------
(* Properties: those of the two parts, in the process that has both.       *)

\* No factory runs before the init hook of its registration (rbac.go and
\* abac.go: SubPriority PRI_M_AUTHZ - 1): see Startup.
FactoriesFindTheirRegistration == Start!FactoriesFindTheirRegistration

\* A process that serves has all the routes of its start hook and its
\* whole authorizer chain (start of app.go and of the hello binary): see
\* Startup.
ServingIsComplete == Start!ServingIsComplete

\* A handler that has returned has left no span and no connection open
\* (the deferred Finish and Close of tracing.go): see TracingExample.
ReturnedHandlersLeaveNothingOpen == Tracing!ReturnedHandlersLeaveNothingOpen

\* The span of a1 is a child of the span of a and is finished before it
\* (a and a1 of tracing.go): see TracingExample.
A1IsUnderA == Tracing!A1IsUnderA

\* Every request a serving process takes is answered (b and c of
\* tracing.go wait for the answer of a call): see TracingExample.
EveryRequestReturns == Tracing!EveryRequestReturns

\* "b -> b1", "c -> C1(grpc)" (the routes of tracing.go): the span of a
\* called handler is under the span of its caller.
TraceShowsTheCallChain == Tracing!TraceShowsTheCallChain

\* "b -> b1" (tracing.go): the call of b is answered by the handler b1.
BCallsB1 == Tracing!BCallsB1
=============================================================================
