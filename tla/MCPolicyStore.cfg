SPECIFICATION Spec
CONSTANTS
    Verbs <- MCVerbs
    Resources <- MCResources
    ResourceNames <- MCResourceNames
    NonResourceURLs <- MCNonResourceURLs
    SubjectNames <- MCSubjectNames
    Namespaces <- MCNamespaces
    RefNames <- MCRefNames
    BadSegmentNames <- MCBadSegmentNames
    ObjectNames <- MCObjectNames
    Rules <- MCRules
    Subjects <- MCSubjects
    RoleRefs <- MCRoleRefs
    MaxRules = 2
    MaxSubjects = 1
    MISSING = MISSING
INVARIANT TypeOK
INVARIANT StoredRolesAreWellShaped
INVARIANT StoredBindingsAreWellFormed
PROPERTY RoleRefIsImmutable
