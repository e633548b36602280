--------------------------- MODULE TracingExample ---------------------------
(***************************************************************************)
(* The handlers of examples/all/tracing/tracing.go: each starts a span     *)
(* from the context of its request and finishes it when it returns; a      *)
(* calls a1 in its own goroutine, b asks its own server for another route  *)
(* and c calls C1 over grpc, each waiting for the answer.                  *)
(*                                                                         *)
(* A span is its name, its parent and whether it is open; tags, logs and   *)
(* the delay of a handler are left out.  The server answers a request in a *)
(* goroutine of its own, with the span of the context the caller passed as *)
(* the span of the request's context: the clients and the filters that     *)
(* carry it are outside the repository.                                    *)
(***************************************************************************)
EXTENDS Integers, Sequences, FiniteSets

CONSTANTS
    MaxRequests,  \* bound: the requests that arrive from outside
    NIL

\* installWs: the routes of the module and their handlers.
Routes ==
    [path \in {<<"tracing", sub>> : sub \in {"a", "b", "b1", "c"}} |-> path[2]]

Handlers == {"a", "b", "b1", "c", "C1"}

\* Bound: a handler makes at most one call that the server answers.
MaxInvocations == 2 * MaxRequests

VARIABLES
    inv,    \* the invocations of handlers, in the order they began
    spans   \* the spans, in the order they were started

tvars == <<inv, spans>>

\* handler: which; pc: where it is; ctx: the span of the context of its
\* request, 0 for none; span: sp; inner: the span of a1; caller: the
\* invocation that waits for it, 0 for a request from outside; reply: what
\* its own call was answered; conn: the grpc connection; result: what it
\* returned.
Invocation ==
    [handler : Handlers,
     pc      : {"new", "spanned", "inner", "leaving", "dialed", "calling", "returned"},
     ctx     : Nat, span : Nat, inner : Nat, caller : Nat,
     reply   : {"none", "ok", "err"},
     conn    : {"none", "open", "closed"},
     result  : {"none", "ok", "err"}]

Span == [name : Handlers \cup {"a1"}, parent : Nat, open : BOOLEAN]

TypeOK ==
    /\ inv \in Seq(Invocation) /\ Len(inv) <= MaxInvocations
    /\ spans \in Seq(Span) /\ Len(spans) <= 2 * MaxInvocations
    /\ \A i \in DOMAIN inv :
          /\ {inv[i].ctx, inv[i].span, inv[i].inner} \subseteq 0..Len(spans)
          /\ inv[i].caller \in 0..(i - 1)
    /\ \A k \in DOMAIN spans : spans[k].parent \in 0..(k - 1)

Init == inv = <<>> /\ spans = <<>>

-----------------------------------------------------------------------------
\* The server takes a request: the handler runs in a new goroutine.
Invoked(h, ctx, caller) ==
    [handler |-> h, pc |-> "new", ctx |-> ctx, span |-> 0, inner |-> 0,
     caller |-> caller, reply |-> "none", conn |-> "none", result |-> "none"]

\* opentracing.StartSpanFromContext: a child of the span of the context.
StartSpanFromContext(ctx, name) ==
    Append(spans, [name |-> name, parent |-> ctx, open |-> TRUE])

Finish(k) == [spans EXCEPT ![k].open = FALSE]

\* A request from outside for one of the routes.
Arrive(h) ==
    /\ Cardinality({i \in DOMAIN inv : inv[i].caller = 0}) < MaxRequests
    /\ inv' = Append(inv, Invoked(h, 0, 0))
    /\ UNCHANGED spans

\* The first statement of every handler: sp is started from the context of
\* the request.
Enter(i) ==
    /\ inv[i].pc = "new"
    /\ spans' = StartSpanFromContext(inv[i].ctx, inv[i].handler)
    /\ inv' = [inv EXCEPT ![i].pc = "spanned", ![i].span = Len(spans')]

\* A span that is finished by the last statement of its handler.
FinishedAtTheEnd(call, result) ==
    IF result = "ok" THEN Finish(call.span) ELSE spans

\* defer sp.Finish(): the span is finished on every return.
Finished(call, result) == Finish(call.span)

\* A handler returns: what it deferred runs (sp.Finish, and conn.Close
\* where a connection is open) and the caller, if it has one, is answered.
Returns(i, result) ==
    /\ spans' = Finished(inv[i], result)
    /\ inv' = [j \in DOMAIN inv |->
                 IF j = i
                 THEN [inv[i] EXCEPT !.pc = "returned", !.result = result,
                                     !.conn = IF @ = "open" THEN "closed" ELSE @]
                 ELSE IF j = inv[i].caller THEN [inv[j] EXCEPT !.reply = result]
                 ELSE inv[j]]

\* An a that hands a1 the context of its request.
A1ContextOfRequest(call) == call.ctx

\* a1(ctx): ctx is the context StartSpanFromContext returned, with sp.
A1Context(call) == call.span

\* a calls a1, which starts its span.
A1Enter(i) ==
    /\ inv[i].handler = "a" /\ inv[i].pc = "spanned"
    /\ spans' = StartSpanFromContext(A1Context(inv[i]), "a1")
    /\ inv' = [inv EXCEPT ![i].pc = "inner", ![i].inner = Len(spans')]

\* a1 returns to a: its span is finished.
A1Leave(i) ==
    /\ inv[i].pc = "inner"
    /\ spans' = Finish(inv[i].inner)
    /\ inv' = [inv EXCEPT ![i].pc = "leaving"]

\* a returns after a1.
AReturn(i) == inv[i].pc = "leaving" /\ Returns(i, "ok")

\* b1 returns after its delay.
B1Return(i) == inv[i].handler = "b1" /\ inv[i].pc = "spanned" /\ Returns(i, "ok")

\* C1 returns its greeting.
C1Return(i) == inv[i].handler = "C1" /\ inv[i].pc = "spanned" /\ Returns(i, "ok")

\* A b that asks for its own route.
BTargetIsB == <<"tracing", "b">>

\* c.Get().Prefix("traceing", "b1"): the path b asks its server for.
BTarget == <<"traceing", "b1">>

\* A server that leaves a request for a path it does not serve unanswered.
GetOfServedPaths(i, path, ctx) ==
    IF path \in DOMAIN Routes
    THEN Append([inv EXCEPT ![i].pc = "calling"], Invoked(Routes[path], ctx, i))
    ELSE [inv EXCEPT ![i].pc = "calling"]

\* Do(ctx).Error(): the server runs the handler of the path, or answers
\* that there is none, which is an error to the client.
Get(i, path, ctx) ==
    IF path \in DOMAIN Routes
    THEN Append([inv EXCEPT ![i].pc = "calling"], Invoked(Routes[path], ctx, i))
    ELSE [inv EXCEPT ![i].pc = "calling", ![i].reply = "err"]

\* b: the client for req.Host cannot be made, and b returns the error.
BClientFails(i) ==
    /\ inv[i].handler = "b" /\ inv[i].pc = "spanned"
    /\ Returns(i, "err")

\* b asks its own server for BTarget, with the context that has sp.
BCall(i) ==
    /\ inv[i].handler = "b" /\ inv[i].pc = "spanned"
    /\ inv' = Get(i, BTarget, inv[i].span)
    /\ UNCHANGED spans

\* c: rpc.DialRr fails, and c returns the error.
CDialFails(i) ==
    /\ inv[i].handler = "c" /\ inv[i].pc = "spanned"
    /\ Returns(i, "err")

\* c: the connection is open, and its Close deferred.
CDial(i) ==
    /\ inv[i].handler = "c" /\ inv[i].pc = "spanned"
    /\ inv' = [inv EXCEPT ![i].pc = "dialed", ![i].conn = "open"]
    /\ UNCHANGED spans

\* ctx := req.Context(): the context c calls C1 with is that of its request.
CContext(call) == call.ctx

\* c calls C1; the call reaches the grpc server or fails on the way.
CCall(i, delivered) ==
    /\ inv[i].pc = "dialed"
    /\ inv' = IF delivered
              THEN Append([inv EXCEPT ![i].pc = "calling"],
                          Invoked("C1", CContext(inv[i]), i))
              ELSE [inv EXCEPT ![i].pc = "calling", ![i].reply = "err"]
    /\ UNCHANGED spans

\* b and c return what their call was answered.
Answered(i) ==
    /\ inv[i].pc = "calling" /\ inv[i].reply # "none"
    /\ Returns(i, inv[i].reply)

\* The next step of invocation i.
Step(i) ==
    /\ i \in DOMAIN inv
    /\ \/ Enter(i) \/ A1Enter(i) \/ A1Leave(i) \/ AReturn(i)
       \/ B1Return(i) \/ C1Return(i)
       \/ BClientFails(i) \/ BCall(i)
       \/ CDialFails(i) \/ CDial(i) \/ \E delivered \in BOOLEAN : CCall(i, delivered)
       \/ Answered(i)

Next ==
    \/ \E h \in {Routes[path] : path \in DOMAIN Routes} : Arrive(h)
    \/ \E i \in 1..MaxInvocations : Step(i)

\* Every handler runs in a goroutine, and the Go scheduler starves none.
Fairness == \A i \in 1..MaxInvocations : WF_tvars(Step(i))

Spec == Init /\ [][Next]_tvars /\ Fairness

-----------------------------------------------------------------------------
(* Properties.                                                             *)

Running(i) == inv[i].pc # "returned"

\* A handler that has returned has left nothing open: every open span is
\* the sp or the a1 span of a handler that is still running, and a grpc
\* connection is open only in a running c (defer sp.Finish() and defer
\* conn.Close() run on the error returns of b and c, too).
ReturnedHandlersLeaveNothingOpen ==
    /\ \A k \in DOMAIN spans :
          spans[k].open =>
              \E i \in DOMAIN inv : Running(i) /\ k \in {inv[i].span, inv[i].inner}
    /\ \A i \in DOMAIN inv : inv[i].conn = "open" => Running(i)

\* The trace of a is the chain a -> a1: the span of a1 is a child of the
\* span of the a that called it, and is finished before that is (a passes
\* the context with its span, and both Finish calls are deferred).
A1IsUnderA ==
    \A i \in DOMAIN inv :
        inv[i].inner # 0 =>
            /\ spans[inv[i].inner].parent = inv[i].span
            /\ spans[inv[i].inner].open => spans[inv[i].span].open

\* Every request is answered: b and c wait for a call they made, and the
\* call is answered by the handler returning, by the server having no such
\* route or by the failure of the transport.
EveryRequestReturns ==
    \A i \in 1..MaxInvocations : i \in DOMAIN inv ~> (i \in DOMAIN inv /\ ~Running(i))

\* "b -> b1", "c -> C1(grpc)": the span of a handler that was called by
\* another is under the span of its caller.
TraceShowsTheCallChain ==
    \A i \in DOMAIN inv :
        inv[i].caller # 0 /\ inv[i].span # 0 =>
            spans[inv[i].span].parent = inv[inv[i].caller].span

\* "b -> b1": the call of b is answered by the handler b1.
BCallsB1 ==
    \A i \in DOMAIN inv :
        inv[i].handler = "b" /\ inv[i].pc = "calling" =>
            \E j \in DOMAIN inv : inv[j].caller = i /\ inv[j].handler = "b1"
=============================================================================
