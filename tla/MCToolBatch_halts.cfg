CONSTANTS
    t1 = t1
    t2 = t2
    Threads = {t1, t2}
    SandboxCells = {"f1", "m"}
    OutsideCells = {"w"}
    Plans <- MCPlans
    Budgets = {4, 6}
    MaxBatches <- MCMaxBatches
    MaxOps = 1
    None = None
SPECIFICATION Spec
CHECK_DEADLOCK FALSE
INVARIANTS TypeOK HaltStopsTools   
