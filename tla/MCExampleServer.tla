------------------------------ MODULE MCExampleServer --------------------------
(***************************************************************************)
(* ExampleServer for TLC: the two example binaries, every order of the     *)
(* five module ranks, configurations that name one mode, two modes, a mode *)
(* without a store and a mode that has no registration, and (in the cfg)   *)
(* two requests from outside, so that the handlers of one run between the  *)
(* steps of the other.                                                     *)
(***************************************************************************)
EXTENDS ExampleServer, Functions

\* examples/all links every module, examples/hello the API server only.
MCBinaries ==
    { {"db", "apiserver", "grpc", "opentracing", "rbac", "abac", "authz", "app"},
      {"apiserver", "hello"} }

\* options.PRI_M_*: any five ranks in a row, in any order.
MCSubPriorities ==
    {p \in [{"db", "tracing", "apiserver", "grpc", "authz"} -> 1..5] : IsInjective(p)}

MCModeLists == {<<"AlwaysAllow">>, <<"RBAC">>, <<"ABAC", "RBAC">>, <<"Webhook">>}
=============================================================================
