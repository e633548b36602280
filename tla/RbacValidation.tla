--------------------------- MODULE RbacValidation ---------------------------
(***************************************************************************)
(* The validators of pkg/api/rbac/validation.go: pure functions from a     *)
(* policy object to its list of field errors.  An object is valid when the *)
(* list is empty.                                                          *)
(*                                                                         *)
(* A []string field of a rule is the set of its entries (the validators    *)
(* look at nothing but len).  A field error is its type and its field      *)
(* path; the offending value and the wording are left out.                 *)
(***************************************************************************)
EXTENDS Integers, Sequences, FiniteSets, SequencesExt, TLC

CONSTANTS
    Verbs, Resources, ResourceNames, NonResourceURLs,  \* what rules are made of
    SubjectNames,      \* subject names; "" is the unset name
    Namespaces,        \* subject namespaces; "" is the unset namespace
    RefNames,          \* role names a RoleRef can carry; "" is the unset name
    BadSegmentNames    \* the names IsValidPathSegmentName rejects

ServiceAccountKind == "ServiceAccount"
UserKind           == "User"
GroupKind          == "Group"

PolicyRule ==
    [verbs : SUBSET Verbs, resources : SUBSET Resources,
     resourceNames : SUBSET ResourceNames, nonResourceURLs : SUBSET NonResourceURLs]

Subject == [kind : STRING, name : SubjectNames, namespace : Namespaces]

RoleRef == [kind : STRING, name : RefNames]

-----------------------------------------------------------------------------
(* field.Path and field.ErrorList.                                         *)

NewPath(names) == names
Child(path, name) == Append(path, name)
Index(path, i) == Append(path, ToString(i))

Required(path)     == [type |-> "FieldValueRequired",     field |-> path]
Invalid(path)      == [type |-> "FieldValueInvalid",      field |-> path]
NotSupported(path) == [type |-> "FieldValueNotSupported", field |-> path]

\* if cond { allErrs = append(allErrs, err) }
ErrorIf(cond, err) == IF cond THEN <<err>> ELSE <<>>

\* for i, e := range list { allErrs = append(allErrs, errs(i, e)...) }
ForEach(list, errs(_, _)) == FlattenSeq([i \in DOMAIN list |-> errs(i - 1, list[i])])

-----------------------------------------------------------------------------
\* path.IsValidPathSegmentName: the messages against a name, none for a
\* name that can be a path segment.
IsValidPathSegmentName(name) ==
    IF name \in BadSegmentNames THEN <<"not a path segment name">> ELSE <<>>

\* ValidateRBACName: prefix is not looked at.
ValidateRBACName(name, prefix) == IsValidPathSegmentName(name)

\* A ValidatePolicyRule that forgets that namespaced rules cannot name
\* non-resource URLs.
ValidatePolicyRuleAnyScope(rule, isNamespaced, fldPath) ==
    ErrorIf(rule.verbs = {}, Required(Child(fldPath, "verbs")))
    \o IF rule.nonResourceURLs # {}
       THEN ErrorIf(rule.resources # {} \/ rule.resourceNames # {},
                    Invalid(Child(fldPath, "nonResourceURLs")))
       ELSE ErrorIf(rule.resources = {}, Required(Child(fldPath, "resources")))

\* ValidatePolicyRule: verbs are required; a rule with non-resource URLs
\* must not be namespaced and must not name resources, and returns there;
\* any other rule must name a resource.
ValidatePolicyRule(rule, isNamespaced, fldPath) ==
    ErrorIf(rule.verbs = {}, Required(Child(fldPath, "verbs")))
    \o IF rule.nonResourceURLs # {}
       THEN ErrorIf(isNamespaced, Invalid(Child(fldPath, "nonResourceURLs")))
            \o ErrorIf(rule.resources # {} \/ rule.resourceNames # {},
                       Invalid(Child(fldPath, "nonResourceURLs")))
       ELSE ErrorIf(rule.resources = {}, Required(Child(fldPath, "resources")))

\* ValidateRole: the errors of every rule, as a namespaced rule.
ValidateRole(role) ==
    ForEach(role.rules,
            LAMBDA i, rule : ValidatePolicyRule(rule, TRUE, Index(NewPath(<<"rules">>), i)))

ValidateRoleUpdate(role, oldRole) == ValidateRole(role)

\* ValidateClusterRole returns nil whatever the role holds.
ValidateClusterRole(role) == <<>>

ValidateClusterRoleUpdate(role, oldRole) == ValidateClusterRole(role)

\* ValidateRoleBindingSubject: a name is required; a service account of a
\* cluster-wide binding needs a namespace; kinds other than the three are
\* not supported.
ValidateRoleBindingSubject(subject, isNamespaced, fldPath) ==
    ErrorIf(subject.name = "", Required(Child(fldPath, "name")))
    \o CASE subject.kind = ServiceAccountKind ->
              ErrorIf(~isNamespaced /\ subject.namespace = "",
                      Required(Child(fldPath, "namespace")))
         [] subject.kind \in {UserKind, GroupKind} -> <<>>
         [] OTHER -> <<NotSupported(Child(fldPath, "kind"))>>

\* What ValidateRoleBinding and ValidateClusterRoleBinding both do, with
\* the role kinds they accept and the scope they validate subjects in.
BindingErrors(binding, kinds, isNamespaced) ==
    ErrorIf(binding.roleRef.kind \notin kinds, NotSupported(NewPath(<<"roleRef", "kind">>)))
    \o ( IF binding.roleRef.name = ""
         THEN <<Required(NewPath(<<"roleRef", "name">>))>>
         ELSE ForEach(ValidateRBACName(binding.roleRef.name, FALSE),
                      LAMBDA i, msg : <<Invalid(NewPath(<<"roleRef", "name">>))>>) )
    \o ForEach(binding.subjects,
               LAMBDA i, subject :
                  ValidateRoleBindingSubject(subject, isNamespaced,
                                             Index(NewPath(<<"subjects">>), i)))

ValidateRoleBinding(roleBinding) ==
    BindingErrors(roleBinding, {"Role", "ClusterRole"}, TRUE)

\* A ValidateClusterRoleBinding pasted from ValidateRoleBinding and left
\* as it was.
ValidateClusterRoleBindingAsNamespaced(roleBinding) ==
    BindingErrors(roleBinding, {"Role", "ClusterRole"}, TRUE)

ValidateClusterRoleBinding(roleBinding) ==
    BindingErrors(roleBinding, {"ClusterRole"}, FALSE)

\* An update validator that forgets the roleRef.
ValidateRoleBindingUpdateAnyRef(roleBinding, oldRoleBinding) ==
    ValidateRoleBinding(roleBinding)

\* ValidateRoleBindingUpdate: the binding's own errors, and the roleRef
\* must be the old one.
ValidateRoleBindingUpdate(roleBinding, oldRoleBinding) ==
    ValidateRoleBinding(roleBinding)
    \o ErrorIf(oldRoleBinding.roleRef # roleBinding.roleRef, Invalid(NewPath(<<"roleRef">>)))

ValidateClusterRoleBindingUpdate(roleBinding, oldRoleBinding) ==
    ValidateClusterRoleBinding(roleBinding)
    \o ErrorIf(oldRoleBinding.roleRef # roleBinding.roleRef, Invalid(NewPath(<<"roleRef">>)))
=============================================================================
