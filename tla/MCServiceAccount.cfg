SPECIFICATION Spec
CONSTANTS
    NIL = NIL
    Chars <- MCChars
    LabelChars <- MCLabelChars
    SubdomainChars <- MCSubdomainChars
    UIDs <- MCUIDs
    PodNames <- MCPodNames
    MaxName = 2
    MaxTail = 5
INVARIANT TypeOK
INVARIANT MatchesUsernameIsMakeUsername
INVARIANT SplitUsernameInvertsMakeUsername
