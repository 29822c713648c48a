CONSTANTS
    Workers = {w1, w2, w3}
    AutoResume = TRUE
    MaxCalls = 3
    MaxChanges = 1
    MaxRejects = 1
    MaxCrashes = 1
SPECIFICATION Spec
CHECK_DEADLOCK FALSE
INVARIANTS TypeOK ChainsDoNotMultiply OffDrains RunningIsLive
PROPERTIES TicksRecur
