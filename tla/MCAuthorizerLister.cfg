SPECIFICATION Spec
CONSTANTS
    Verbs <- MCVerbs
    Resources <- MCResources
    ResourceNames <- MCResourceNames
    NonResourceURLs <- MCNonResourceURLs
    SubjectNames <- MCSubjectNames
    Namespaces <- MCNamespaces
    RefNames <- MCRefNames
    BadSegmentNames <- MCBadSegmentNames
    ObjectNames <- MCObjectNames
    Rules <- MCRules
    Subjects <- MCSubjects
    RoleRefs <- MCRoleRefs
    Users <- MCUsers
    Requests <- MCRequests
    Chains <- MCChains
    Policy <- MCPolicy
    MaxRules = 1
    MaxSubjects = 1
    MISSING = MISSING
    NIL = NIL
INVARIANT QuietDecisionIsTheReference
