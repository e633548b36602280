SPECIFICATION Spec
CONSTANTS
    c1 = c1
    c2 = c2
    h1 = h1
    h2 = h2
    NIL = NIL
    Strings <- MCStrings
    Cells <- MCCells
    Holders <- MCHolders
    Documents <- MCDocuments
CHECK_DEADLOCK FALSE
INVARIANT TypeOK
PROPERTY RoundTripRestoresTheValue
PROPERTY DecodeIntoUnsetIsFresh
