---------------------------- MODULE PolicyStore ----------------------------
(***************************************************************************)
(* The policy store as the engine sees it: four tables of named policy     *)
(* objects, written by an admission layer that calls the validators of     *)
(* RbacValidation before it persists (create) or applies (update) an       *)
(* object, and read through the listers of pkg/listers.                    *)
(*                                                                         *)
(* The admission layer and the storage primitives are outside the          *)
(* repository; they are modelled from the specification (sections 4.2, 4.3 *)
(* and 6).  The validators and the role binding lister are modelled from   *)
(* the source.                                                             *)
(***************************************************************************)
EXTENDS RbacValidation

CONSTANTS
    ObjectNames,   \* metadata names of policy objects
    Rules,         \* the policy rules a request may carry
    Subjects,      \* the subjects a request may carry
    RoleRefs,      \* the role references a request may carry
    MaxRules,      \* most rules in a role of a request
    MaxSubjects,   \* most subjects in a binding of a request
    MISSING        \* no row under that name

ASSUME /\ Rules \subseteq PolicyRule
       /\ Subjects \subseteq Subject
       /\ RoleRefs \subseteq RoleRef
       /\ MaxRules \in Nat /\ MaxSubjects \in Nat

VARIABLE store     \* store[table][name]: the row, or MISSING

vars == <<store>>

Kinds == {"Role", "ClusterRole", "RoleBinding", "ClusterRoleBinding"}

\* Role bindings kept where the role binding lister looks for them.
TableOfAsListed(kind) ==
    CASE kind = "Role"               -> "role"
      [] kind \in {"ClusterRole", "RoleBinding"} -> "cluster_role"
      [] kind = "ClusterRoleBinding" -> "cluster_role_binding"

\* The table the objects of a kind are kept in.
TableOf(kind) ==
    CASE kind = "Role"               -> "role"
      [] kind = "ClusterRole"        -> "cluster_role"
      [] kind = "RoleBinding"        -> "role_binding"
      [] kind = "ClusterRoleBinding" -> "cluster_role_binding"

Tables == {TableOf(kind) : kind \in Kinds}

RoleObject    == [name : ObjectNames, rules : BoundedSeq(Rules, MaxRules)]
BindingObject == [name : ObjectNames, roleRef : RoleRefs,
                  subjects : BoundedSeq(Subjects, MaxSubjects)]

\* The objects of a kind a request may carry.
Objects(kind) == IF kind \in {"Role", "ClusterRole"} THEN RoleObject ELSE BindingObject

TypeOK ==
    \A kind \in Kinds :
        store[TableOf(kind)] \in [ObjectNames -> Objects(kind) \cup {MISSING}]

-----------------------------------------------------------------------------
(* The validation hooks, by kind.                                          *)

Validate(kind, obj) ==
    CASE kind = "Role"               -> ValidateRole(obj)
      [] kind = "ClusterRole"        -> ValidateClusterRole(obj)
      [] kind = "RoleBinding"        -> ValidateRoleBinding(obj)
      [] kind = "ClusterRoleBinding" -> ValidateClusterRoleBinding(obj)

ValidateUpdate(kind, obj, old) ==
    CASE kind = "Role"               -> ValidateRoleUpdate(obj, old)
      [] kind = "ClusterRole"        -> ValidateClusterRoleUpdate(obj, old)
      [] kind = "RoleBinding"        -> ValidateRoleBindingUpdate(obj, old)
      [] kind = "ClusterRoleBinding" -> ValidateClusterRoleBindingUpdate(obj, old)

-----------------------------------------------------------------------------
(* The storage primitives.                                                 *)

Put(table, obj) == [store EXCEPT ![table][obj.name] = obj]

\* storage.Get: the row of that name, MISSING standing for NotFound.
Get(table, name) == store[table][name]

\* storage.List with the selector Everything(): every row of the table.
List(table) == {store[table][name] : name \in ObjectNames} \ {MISSING}

-----------------------------------------------------------------------------
Init == store = [table \in Tables |-> [name \in ObjectNames |-> MISSING]]

\* An object is created when no object of its kind has its name and its
\* validator returns no error.  A rejected request changes nothing.
Create(kind, obj) ==
    /\ Get(TableOf(kind), obj.name) = MISSING
    /\ Validate(kind, obj) = <<>>
    /\ store' = Put(TableOf(kind), obj)

\* An update is applied when the object exists and the update validator,
\* given the stored object as the old one, returns no error.
Update(kind, obj) ==
    LET old == Get(TableOf(kind), obj.name) IN
    /\ old \notin {MISSING, obj}
    /\ ValidateUpdate(kind, obj, old) = <<>>
    /\ store' = Put(TableOf(kind), obj)

Delete(kind, name) ==
    /\ Get(TableOf(kind), name) # MISSING
    /\ store' = [store EXCEPT ![TableOf(kind)][name] = MISSING]

Next ==
    \E kind \in Kinds :
        \/ \E obj \in Objects(kind) : Create(kind, obj)
        \/ \E obj \in Objects(kind) : Update(kind, obj)
        \/ \E name \in ObjectNames : Delete(kind, name)

Spec == Init /\ [][Next]_vars

-----------------------------------------------------------------------------
(* The role binding lister.                                                *)

\* roleBindingLister.List reads the table "cluster_role".
RoleBindingListerList == List("cluster_role")

\* roleBindingLister.Get reads the table "cluster_role".
RoleBindingListerGet(name) == Get("cluster_role", name)

-----------------------------------------------------------------------------
(* What the data model promises of a stored object.                        *)

ResourceShaped(rule)    == rule.resources # {} /\ rule.nonResourceURLs = {}
NonResourceShaped(rule) ==
    rule.nonResourceURLs # {} /\ rule.resources = {} /\ rule.resourceNames = {}

\* A rule of the data model, for a role of that scope: it has verbs and
\* one of the two shapes, the non-resource shape in a cluster role only.
WellShaped(rule, isNamespaced) ==
    /\ rule.verbs # {}
    /\ \/ ResourceShaped(rule)
       \/ NonResourceShaped(rule) /\ ~isNamespaced

\* A subject of the data model, in a binding of that scope.
WellFormedSubject(subject, isNamespaced) ==
    /\ subject.name # ""
    /\ subject.kind \in {ServiceAccountKind, UserKind, GroupKind}
    /\ subject.kind = ServiceAccountKind /\ ~isNamespaced => subject.namespace # ""

Stored(kind) == List(TableOf(kind))

\* Every rule of every stored Role has verbs and is resource-shaped: the
\* admission of Roles through ValidateRole and ValidateRoleUpdate, which
\* validate every rule as a namespaced one, lets no other rule in, by any
\* sequence of creates, updates and deletes.
StoredRolesAreWellShaped ==
    \A role \in Stored("Role") :
        \A i \in DOMAIN role.rules : WellShaped(role.rules[i], TRUE)

\* Every rule of every stored ClusterRole has verbs and one of the two
\* shapes: what "ValidateRole / ValidateClusterRole: validate every
\* contained PolicyRule" promises of ValidateClusterRole.
StoredClusterRolesAreWellShaped ==
    \A role \in Stored("ClusterRole") :
        \A i \in DOMAIN role.rules : WellShaped(role.rules[i], FALSE)

\* Every stored binding names a role of a kind its scope allows (a
\* ClusterRoleBinding a ClusterRole only) by a non-empty path segment name,
\* and each of its subjects is well formed for its scope (a service account
\* of a ClusterRoleBinding has a namespace): what ValidateRoleBinding,
\* ValidateClusterRoleBinding and ValidateRoleBindingSubject let through.
StoredBindingsAreWellFormed ==
    \A kind \in {"RoleBinding", "ClusterRoleBinding"} :
        LET isNamespaced == kind = "RoleBinding" IN
        \A binding \in Stored(kind) :
            /\ binding.roleRef.kind \in {"ClusterRole"} \cup (IF isNamespaced THEN {"Role"} ELSE {})
            /\ binding.roleRef.name \notin {""} \cup BadSegmentNames
            /\ \A i \in DOMAIN binding.subjects :
                   WellFormedSubject(binding.subjects[i], isNamespaced)

\* The roleRef of a binding never changes while the binding exists: no step
\* takes a stored binding to a binding of the same name with another
\* roleRef (ValidateRoleBindingUpdate and ValidateClusterRoleBindingUpdate
\* compare it with the old one); rebinding takes a delete and a create.
RoleRefIsImmutable ==
    [][\A kind \in {"RoleBinding", "ClusterRoleBinding"}, name \in ObjectNames :
          LET old == Get(TableOf(kind), name)
              new == Get(TableOf(kind), name)'
          IN  old # MISSING /\ new # MISSING => new.roleRef = old.roleRef]_vars

\* The role binding lister returns the stored role bindings: Get finds
\* exactly the RoleBinding of that name, as the lister's interface says
\* ("Get retrieves the RoleBinding from the db for a given name").
RoleBindingListerReadsRoleBindings ==
    \A name \in ObjectNames :
        RoleBindingListerGet(name) = Get(TableOf("RoleBinding"), name)
=============================================================================
