SPECIFICATION Spec
CONSTANTS
    NumTasks = 1
    Workers = {w1, w2}
    None = None
    Pooled = {1}
    PoolMax = 1
    Executors <- Everywhere
    Inventory <- Everywhere
    MaxTasks = 1
    MaxLapses = 0
    MaxTimeouts = 1
    MaxDrops = 1
    MaxCrashes = 1
    MaxRestarts = 1
    MaxPortalRestarts = 1
    MaxRevokes = 0
    MaxCancels = 1
    MaxRowMoves = 1
    Budget <- MCBudget
SYMMETRY Symmetry
INVARIANTS EndedTasksLeaveQueue SucceededTasksRan
CHECK_DEADLOCK FALSE
