--------------------------- MODULE MCPolicyStore ---------------------------
(***************************************************************************)
(* PolicyStore for TLC: one name per kind of object, and rules, subjects   *)
(* and role references chosen so that every branch of every validator is   *)
(* taken, by an accepted object and by a rejected one.                     *)
(***************************************************************************)
EXTENDS PolicyStore

MCVerbs           == {"get"}
MCResources       == {"pods"}
MCResourceNames   == {"web"}
MCNonResourceURLs == {"/metrics"}

MCSubjectNames    == {"", "alice"}
MCNamespaces      == {"", "ns"}
MCRefNames        == {"", "admin", "view", ".."}
MCBadSegmentNames == {".."}

MCObjectNames     == {"obj"}

Rule(verbs, resources, resourceNames, nonResourceURLs) ==
    [verbs |-> verbs, resources |-> resources,
     resourceNames |-> resourceNames, nonResourceURLs |-> nonResourceURLs]

\* The two shapes of a rule, and each way of missing them: no verbs, no
\* resources, resources beside a URL.
MCRules ==
    { Rule({"get"}, {"pods"}, {"web"}, {}),
      Rule({"get"}, {}, {}, {"/metrics"}),
      Rule({}, {"pods"}, {}, {}),
      Rule({"get"}, {}, {"web"}, {}),
      Rule({"get"}, {"pods"}, {}, {"/metrics"}) }

Sub(kind, name, namespace) == [kind |-> kind, name |-> name, namespace |-> namespace]

\* Every kind a validator tells apart, with and without the name and the
\* namespace it asks for.
MCSubjects ==
    { Sub(ServiceAccountKind, "alice", "ns"), Sub(ServiceAccountKind, "alice", ""),
      Sub(ServiceAccountKind, "", "ns"),
      Sub(UserKind, "alice", ""), Sub(UserKind, "", ""),
      Sub(GroupKind, "alice", ""), Sub("Node", "alice", "ns") }

\* The two legal kinds and one that is not, over two valid names, the
\* unset name and a name that is no path segment.
MCRoleRefs == [kind : {"Role", "ClusterRole", "Pod"}, name : MCRefNames]
=============================================================================
