SPECIFICATION Spec
CONSTANTS
    Names <- MCNames
    DefaultName = "__default__"
    Entries <- MCEntries
    MaxDatabases = 3
    Goroutines <- MCGoroutines
    g1 = g1
    g2 = g2
    NIL = NIL
SYMMETRY Symmetry
CHECK_DEADLOCK FALSE
INVARIANT TypeOK
INVARIANT GetDBAnswersForConfiguredNames
PROPERTY CloseClosesEveryDatabase
