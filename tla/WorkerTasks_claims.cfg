SPECIFICATION Spec
CONSTANTS
    NumTasks = 2
    Workers = {w1, w2}
    None = None
    Pooled = {1, 2}
    PoolMax = 1
    Executors <- Everywhere
    Inventory <- OneNodeHasAll
    MaxTasks = 1
    MaxLapses = 1
    MaxTimeouts = 0
    MaxDrops = 0
    MaxCrashes = 0
    MaxRestarts = 0
    MaxPortalRestarts = 0
    MaxRevokes = 1
    MaxCancels = 0
    MaxRowMoves = 0
    Budget <- MCBudget
INVARIANTS TypeOK TasksWithinPoolCap ExecutedOnce
