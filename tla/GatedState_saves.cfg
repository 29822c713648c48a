CONSTANTS
    Threads = {t1, t2}
    Values = {v1}
    Fresh = fresh
    Foreign = foreign
    Inodes = {1, 2, 3, 4, 5}
    MaxCalls = 3
    MaxCrashes = 2
    MaxDrifts = 1
    Missing = missing
    Torn = torn
    None = None
SPECIFICATION Spec
CHECK_DEADLOCK FALSE
INVARIANTS TypeOK  PromotedIsOnDisk HaltHolds DriftIsNoticed
