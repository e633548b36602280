SPECIFICATION Spec
CONSTANTS
    r1 = r1
    r2 = r2
    NIL = NIL
    Requests <- MCRequests
CHECK_DEADLOCK FALSE
INVARIANT TypeOK
INVARIANT FilterHasItsTracer
PROPERTY CleanStartAndStopLeaveNothingRunning
PROPERTY EverySpanEnds
