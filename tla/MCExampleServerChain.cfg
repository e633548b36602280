SPECIFICATION Spec
CONSTANTS
    PRI_SYS_INIT = 1
    PRI_MODULE = 2
    SubPriorities <- MCSubPriorities
    Binaries <- MCBinaries
    ModeLists <- MCModeLists
    MaxRequests = 2
    NIL = NIL
CHECK_DEADLOCK FALSE
INVARIANT TraceShowsTheCallChain
