CONSTANTS
    Threads = {t1, t2}
    Requests <- MCRequests
    MaxLines = 2
    MaxCalls = 3
    MaxMishaps = 2
SPECIFICATION Spec
SYMMETRY Symmetry
CHECK_DEADLOCK FALSE
INVARIANT ReplayIsCurrent
PROPERTIES BoundaryIsStable
