SPECIFICATION Spec
CONSTANTS
    Registrars <- OneRegistrar
    Readers <- MCReaders
    Paths <- MCPaths
    BadPaths <- MCBadPaths
    Sites <- MCSites
    MaxListed = 2
    NIL = NIL
    g1 = g1
    g2 = g2
    r1 = r1
    s1 = s1
    s2 = s2
CHECK_DEADLOCK FALSE
INVARIANT TypeOK
INVARIANT ListedPathsAreServedOnce
INVARIANT ReportedStackIsTheHolder
INVARIANT NoListedRegistrationIsLost
PROPERTY ListedPathsSortsACopy
PROPERTY ImplementsPathRegistry
