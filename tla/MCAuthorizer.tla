---------------------------- MODULE MCAuthorizer ----------------------------
(***************************************************************************)
(* Authorizer for TLC: one role and one binding of each kind, under the    *)
(* one name a reference can carry, so that a reference resolves while the  *)
(* role is there and dangles when it is deleted; a caller named in the     *)
(* bindings by name and one named by group; requests that differ from a    *)
(* rule in one dimension each.                                             *)
(***************************************************************************)
EXTENDS Authorizer

MCVerbs           == {"get", "delete", "*"}
MCResources       == {"pods", "*"}
MCResourceNames   == {"web", "db"}
MCNonResourceURLs == {<<"metrics", "*">>}
MCSubjectNames    == {"alice", "dev"}
MCNamespaces      == {""}
MCRefNames        == {"admin"}
MCBadSegmentNames == {".."}
MCObjectNames     == {"admin"}

Rule(verbs, resources, resourceNames, nonResourceURLs) ==
    [verbs |-> verbs, resources |-> resources,
     resourceNames |-> resourceNames, nonResourceURLs |-> nonResourceURLs]

\* A rule for one resource by name, one for everything, one for the URLs
\* under a prefix, and one of both shapes, which only ValidateClusterRole
\* lets into the store.
MCRules ==
    { Rule({"get"}, {"pods"}, {"web"}, {}),
      Rule({"*"}, {"*"}, {}, {}),
      Rule({"get"}, {}, {}, {<<"metrics", "*">>}),
      Rule({"get"}, {"pods"}, {}, {<<"metrics", "*">>}) }

MCSubjects ==
    { [kind |-> "User", name |-> "alice", namespace |-> ""],
      [kind |-> "Group", name |-> "dev", namespace |-> ""] }

MCRoleRefs == [kind : {"Role", "ClusterRole"}, name : MCRefNames]

alice == [kind |-> "User", name |-> "alice", namespace |-> "", groups |-> {}]
bob   == [kind |-> "User", name |-> "bob", namespace |-> "", groups |-> {"dev"}]

MCUsers == {alice, bob}

Of(user, verb, resource, name) ==
    [user |-> user, verb |-> verb, resource |-> resource, name |-> name, url |-> NIL]
At(user, verb, url) ==
    [user |-> user, verb |-> verb, resource |-> NIL, name |-> NIL, url |-> url]

MCRequests ==
    { Of(alice, "get", "pods", "web"), Of(alice, "get", "pods", "db"),
      Of(alice, "delete", "pods", "web"), Of(bob, "get", "pods", "web"),
      At(alice, "get", <<"metrics", "cpu">>), At(alice, "get", <<"metricsx">>) }

MCChains ==
    { <<"RBAC">>, <<"AlwaysDeny", "RBAC">>, <<"RBAC", "AlwaysAllow">>, <<"ABAC", "RBAC">> }

\* The policy file lets the group dev read the pod web.
MCPolicy ==
    { [subject |-> [kind |-> "Group", name |-> "dev", namespace |-> ""],
       rule |-> Rule({"get"}, {"pods"}, {"web"}, {})] }
=============================================================================
