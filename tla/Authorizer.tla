----------------------------- MODULE Authorizer -----------------------------
(***************************************************************************)
(* The authorization engine over the policy store: a chain of authorizers  *)
(* decides one request at a time, the RBAC authorizer by reading the store *)
(* through the listers, one call after another, while the admission layer  *)
(* goes on creating, updating and deleting policy objects.                 *)
(*                                                                         *)
(* The authorizers and the chain are outside the repository; they are      *)
(* modelled from the specification (sections 4.2, 4.4 to 4.6 and 7).  RBAC *)
(* reads through the listers its factory gives it: the role binding lister *)
(* of the source, which reads the table of cluster roles, and the other    *)
(* three as their interface promises them.  The store and its admission    *)
(* are PolicyStore, with the validators of the source.  Namespaced objects *)
(* and requests are those of one namespace.                                *)
(***************************************************************************)
EXTENDS Integers, Sequences, FiniteSets, SequencesExt

CONSTANTS
    Verbs, Resources, ResourceNames, NonResourceURLs,
    SubjectNames, Namespaces, RefNames, BadSegmentNames,
    ObjectNames, Rules, Subjects, RoleRefs, MaxRules, MaxSubjects, MISSING,
    Users,     \* the callers: name and groups
    Requests,  \* the requests a caller may make
    Chains,    \* the chains an administrator may configure
    Policy,    \* ABAC: the entries of the policy file, loaded at the start
    NIL

VARIABLES
    store,       \* the policy store
    chain,       \* the configured chain of authorizers, in order
    req,         \* the request that is being decided, NIL for none
    at,          \* the position in the chain of the authorizer that runs
    pc,          \* where that authorizer is in its evaluation
    candidates,  \* RBAC: the bindings of the caller still to be resolved
    decision,    \* the decision of the chain, NIL before there is one
    erred,       \* an authorizer of this evaluation met a store error
    quiet,       \* history: the store has not changed during the evaluation
    granted      \* history: some state of the store during the evaluation
                 \* granted the request

vars == <<store, chain, req, at, pc, candidates, decision, erred, quiet, granted>>
evaluation == <<chain, req, at, pc, candidates, decision, erred, quiet, granted>>

PS == INSTANCE PolicyStore

Wildcard == "*"

\* A candidate: the role a binding of the caller refers to, and whether
\* the binding is a RoleBinding.
Candidate == [isNamespaced : BOOLEAN, roleRef : RoleRefs]

TypeOK ==
    /\ PS!TypeOK
    /\ chain \in Chains
    /\ req \in Requests \cup {NIL}
    /\ at \in 1..(Len(chain) + 1)
    /\ pc \in {"idle", "abac", "listRoleBindings", "listClusterRoleBindings", "resolve",
                "done"}
    /\ candidates \subseteq Candidate
    /\ decision \in {NIL, "ALLOW", "DENY", "ABORTED"}
    /\ erred \in BOOLEAN /\ quiet \in BOOLEAN /\ granted \in BOOLEAN

-----------------------------------------------------------------------------
(* Matching (section 4.4, steps 2 and 4).                                  *)

\* A subject is the caller: kind and name, and the namespace of a service
\* account, match exactly.
IsCaller(subject, user) ==
    \/ subject.kind = "User" /\ user.kind = "User" /\ subject.name = user.name
    \/ subject.kind = "Group" /\ subject.name \in user.groups
    \/ /\ subject.kind = "ServiceAccount" /\ user.kind = "ServiceAccount"
       /\ subject.name = user.name /\ subject.namespace = user.namespace

HasCaller(binding, user) ==
    \E i \in DOMAIN binding.subjects : IsCaller(binding.subjects[i], user)

\* A URL of a rule matches a requested URL: by prefix when it ends in
\* "/*", and when they are equal.  A URL is the sequence of its segments.
URLMatches(entry, url) ==
    IF entry # <<>> /\ Last(entry) = Wildcard
    THEN IsStrictPrefix(Front(entry), url)
    ELSE entry = url

\* A rule permits a request: it has the verb and the shape of the request,
\* and names its URL, or its resource and its resource name.
RuleAllows(rule, r) ==
    /\ r.verb \in rule.verbs \/ Wildcard \in rule.verbs
    /\ IF r.url # NIL
       THEN /\ PS!NonResourceShaped(rule)
            /\ \E entry \in rule.nonResourceURLs : URLMatches(entry, r.url)
       ELSE /\ PS!ResourceShaped(rule)
            /\ r.resource \in rule.resources \/ Wildcard \in rule.resources
            /\ rule.resourceNames = {} \/ r.name \in rule.resourceNames

\* The role a binding refers to, MISSING when there is none of that name.
RoleOf(roleRef) == PS!Get(PS!TableOf(roleRef.kind), roleRef.name)

\* The role permits the request; a role that is not found permits nothing.
RolePermits(role, r) ==
    /\ role # MISSING
    /\ \E i \in DOMAIN role.rules : RuleAllows(role.rules[i], r)

\* The objects of a kind that are in the store.
Stored(kind) == PS!List(PS!TableOf(kind))

\* A row of another kind as storage.List hands it over in a
\* *rbac.RoleBinding: the name is what the kinds share, and a cluster role
\* has neither subjects nor a role reference.
AsRoleBinding(row) ==
    [name |-> row.name, roleRef |-> [kind |-> "", name |-> ""], subjects |-> <<>>]

\* What the lister of a kind returns: for role bindings the lister of the
\* source, for the other kinds the objects of the kind.
Listed(kind) ==
    IF kind = "RoleBinding"
    THEN {AsRoleBinding(row) : row \in PS!RoleBindingListerList}
    ELSE Stored(kind)

\* The listers of bindings, as functions of the kind: of what is stored,
\* and of what the program is given.
StoredBindings == [kind \in {"RoleBinding", "ClusterRoleBinding"} |-> Stored(kind)]
ListedBindings == [kind \in {"RoleBinding", "ClusterRoleBinding"} |-> Listed(kind)]

\* The bindings of a kind, among those a lister returns, that name the
\* caller, as candidates.
BindingsOf(lister, kind, user) ==
    {[isNamespaced |-> kind = "RoleBinding", roleRef |-> binding.roleRef] :
        binding \in {b \in lister[kind] : HasCaller(b, user)}}

\* ABAC (section 4.5): an entry of the static list names the caller and
\* has a rule that permits the request.
AbacPermits(r) ==
    \E entry \in Policy : IsCaller(entry.subject, r.user) /\ RuleAllows(entry.rule, r)

-----------------------------------------------------------------------------
(* The chain (section 4.6).                                                *)

\* A chain that allows what no authorizer has an opinion on.
ClosingDecisionOpen == "ALLOW"

\* The decision when every authorizer had no opinion.
ClosingDecision == "DENY"

\* Where the evaluation is when the chain comes to position i: the constant
\* authorizers decide at once, RBAC starts with its first list, and past
\* the last authorizer the chain closes.
Enter(i, r) ==
    IF i > Len(chain) THEN [pc |-> "done", decision |-> ClosingDecision]
    ELSE CASE chain[i] = "AlwaysAllow" -> [pc |-> "done", decision |-> "ALLOW"]
           [] chain[i] = "AlwaysDeny"  -> [pc |-> "done", decision |-> "DENY"]
           [] chain[i] = "ABAC"        -> [pc |-> "abac", decision |-> NIL]
           [] chain[i] = "RBAC" ->
                [pc |-> IF r.url # NIL THEN "listClusterRoleBindings" ELSE "listRoleBindings",
                 decision |-> NIL]

\* What the chain answers when the store is read in one piece, its
\* bindings through that lister: the decision of its first authorizer that
\* has one.
RbacPermits(lister, r) ==
    \E kind \in IF r.url # NIL THEN {"ClusterRoleBinding"}
                ELSE {"RoleBinding", "ClusterRoleBinding"} :
        \E c \in BindingsOf(lister, kind, r.user) : RolePermits(RoleOf(c.roleRef), r)

Opinion(lister, authorizer, r) ==
    CASE authorizer = "AlwaysAllow" -> "ALLOW"
      [] authorizer = "AlwaysDeny"  -> "DENY"
      [] authorizer = "ABAC"        -> IF AbacPermits(r) THEN "ALLOW" ELSE NIL
      [] authorizer = "RBAC"        -> IF RbacPermits(lister, r) THEN "ALLOW" ELSE NIL

Answer(lister, r) ==
    LET first == SelectInSeq(chain, LAMBDA a : Opinion(lister, a, r) # NIL)
    IN IF first = 0 THEN "DENY" ELSE Opinion(lister, chain[first], r)

\* The answer the specification gives for the bindings that are stored,
\* and the answer for the bindings the listers return.
Reference(r)       == Answer(StoredBindings, r)
ListedReference(r) == Answer(ListedBindings, r)

-----------------------------------------------------------------------------
Init ==
    /\ PS!Init
    /\ chain \in Chains
    /\ req = NIL /\ at = 1 /\ pc = "idle" /\ candidates = {}
    /\ decision = NIL /\ erred = FALSE /\ quiet = TRUE /\ granted = FALSE

\* The chain goes to position i.
Goto(i) ==
    /\ at' = i
    /\ pc' = Enter(i, req).pc
    /\ decision' = Enter(i, req).decision
    /\ candidates' = {}

\* Authorize(r): the chain starts with its first authorizer.
Authorize(r) ==
    /\ pc = "idle"
    /\ req' = r
    /\ at' = 1
    /\ pc' = Enter(1, r).pc
    /\ decision' = Enter(1, r).decision
    /\ candidates' = {}
    /\ erred' = FALSE
    /\ quiet' = TRUE
    /\ granted' = (Reference(r) = "ALLOW")
    /\ UNCHANGED <<store, chain>>

\* ABAC: ALLOW when an entry of the list permits the request, and no
\* opinion when none does.
AbacDecides ==
    /\ pc = "abac"
    /\ IF AbacPermits(req)
       THEN pc' = "done" /\ decision' = "ALLOW" /\ UNCHANGED <<at, candidates>>
       ELSE Goto(at + 1)
    /\ UNCHANGED <<store, chain, req, erred, quiet, granted>>

\* RBAC, step 1: the role bindings of the namespace, for a request of a
\* resource ...
ListRoleBindings ==
    /\ pc = "listRoleBindings"
    /\ candidates' = BindingsOf(ListedBindings, "RoleBinding", req.user)
    /\ pc' = "listClusterRoleBindings"
    /\ UNCHANGED <<store, chain, req, at, decision, erred, quiet, granted>>

\* ... and the cluster role bindings, for every request.
ListClusterRoleBindings ==
    /\ pc = "listClusterRoleBindings"
    /\ candidates' = candidates \cup BindingsOf(ListedBindings, "ClusterRoleBinding", req.user)
    /\ pc' = "resolve"
    /\ UNCHANGED <<store, chain, req, at, decision, erred, quiet, granted>>

\* An RBAC that keeps a binding whose role is not found.
AfterDanglingKept(c) == candidates

\* A binding whose role is not found, or permits nothing, contributes
\* nothing.
AfterDangling(c) == candidates \ {c}

\* RBAC, steps 2 to 5: the role of one binding is looked up; the first rule
\* that permits the request decides ALLOW.
Resolve(c) ==
    /\ pc = "resolve"
    /\ c \in candidates
    /\ IF RolePermits(RoleOf(c.roleRef), req)
       THEN pc' = "done" /\ decision' = "ALLOW" /\ candidates' = {}
       ELSE candidates' = AfterDangling(c) /\ UNCHANGED <<pc, decision>>
    /\ UNCHANGED <<store, chain, req, at, erred, quiet, granted>>

\* An RBAC without an opinion that passes over the authorizer behind it.
NoOpinionSkipping ==
    /\ pc = "resolve"
    /\ candidates = {}
    /\ Goto(at + 2)
    /\ UNCHANGED <<store, chain, req, erred, quiet, granted>>

\* RBAC, step 5: no rule permits the request: no opinion, and the chain
\* goes on.
NoOpinion ==
    /\ pc = "resolve"
    /\ candidates = {}
    /\ Goto(at + 1)
    /\ UNCHANGED <<store, chain, req, erred, quiet, granted>>

\* A List or a Get of the store fails: RBAC has no opinion, the error is
\* surfaced, and the chain goes on (section 7).
StoreFails ==
    /\ pc \in {"listRoleBindings", "listClusterRoleBindings", "resolve"}
    /\ erred' = TRUE
    /\ Goto(at + 1)
    /\ UNCHANGED <<store, chain, req, quiet, granted>>

\* The caller cancels: the evaluation is aborted, which is no decision.
Cancel ==
    /\ pc \in {"listRoleBindings", "listClusterRoleBindings", "resolve"}
    /\ pc' = "done"
    /\ decision' = "ABORTED"
    /\ candidates' = {}
    /\ UNCHANGED <<store, chain, req, at, erred, quiet, granted>>

\* Authorize returns.
Return ==
    /\ pc = "done"
    /\ pc' = "idle"
    /\ req' = NIL /\ at' = 1 /\ decision' = NIL
    /\ erred' = FALSE /\ quiet' = TRUE /\ granted' = FALSE
    /\ UNCHANGED <<store, chain, candidates>>

\* The admission layer writes the store, whatever the engine is doing.
Admission ==
    /\ PS!Next
    /\ UNCHANGED <<chain, req, at, pc, candidates, decision, erred>>
    /\ quiet' = (pc = "idle")
    /\ granted' = IF pc \in {"idle", "done"} THEN granted
                  ELSE granted \/ (Reference(req) = "ALLOW")'

Evaluate ==
    \/ AbacDecides
    \/ ListRoleBindings \/ ListClusterRoleBindings
    \/ \E c \in candidates : Resolve(c)
    \/ NoOpinion
    \/ Return

Next ==
    \/ \E r \in Requests : Authorize(r)
    \/ Evaluate
    \/ StoreFails \/ Cancel
    \/ Admission

\* A request that is being decided goes on being decided: the goroutine
\* that handles it is scheduled, and the store answers or fails.
Fairness == WF_vars(Evaluate)

Spec == Init /\ [][Next]_vars /\ Fairness

-----------------------------------------------------------------------------
(* Properties.                                                             *)

\* Read from a store that does not change, the chain decides in steps
\* what its specification says of what the listers return: the first
\* opinion in the configured order, DENY when there is none, ALLOW by RBAC
\* exactly when a listed binding of the caller refers to a role with a
\* rule that permits the request, a dangling reference contributing
\* nothing.  Whatever the listers return and whichever store call fails,
\* the decision is never more permissive than the stored bindings are
\* (fail closed): the role binding lister lists the rows of another table
\* as role bindings, and none of them may come to grant anything.
QuietDecisionIsTheListedReference ==
    pc = "done" /\ quiet /\ decision # "ABORTED" =>
        /\ ~erred => decision = ListedReference(req)
        /\ decision = "ALLOW" => Reference(req) = "ALLOW"

\* Read from a store that does not change, and with no store error, the
\* chain decides what section 4.4 says of the stored bindings: a
\* RoleBinding of the caller to a role that permits the request is an
\* ALLOW.
QuietDecisionIsTheReference ==
    pc = "done" /\ quiet /\ ~erred /\ decision # "ABORTED" =>
        decision = Reference(req)

\* Every request is decided, while the store changes under the
\* evaluation, and when roles are missing.
EveryRequestIsDecided == (pc # "idle") ~> (pc = "done")

\* An ALLOW is never more permissive than every state the store was in
\* while the request was decided.
AllowWasGrantedByTheStore ==
    pc = "done" /\ decision = "ALLOW" => granted
=============================================================================
