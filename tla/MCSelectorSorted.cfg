SPECIFICATION Spec
CONSTANTS
    g1 = g1
    g2 = g2
    a1 = a1
    a2 = a2
    b1 = b1
    v1 = v1
    v2 = v2
    r1 = r1
    r2 = r2
    c1 = c1
    c2 = c2
    c3 = c3
    Owners <- MCOwners
    Slots <- MCSlots
    OwnerOf <- MCOwnerOf
    Keys <- TwoKeys
    Values <- MCValues
    ArgLists <- MCArgLists
    ReqCells <- MCReqCells
    ArgCells <- MCArgCells
    MaxLen = 2
    ZeroBase = ZeroBase
    NIL = NIL
SYMMETRY Symmetry

PROPERTY FromSetStringIsSorted
