SPECIFICATION FairSpec
CONSTANTS
    NumTasks = 1
    Workers = {w1, w2}
    None = None
    Pooled = {1}
    PoolMax = 1
    Executors <- Everywhere
    Inventory <- Everywhere
    MaxTasks = 1
    MaxLapses = 0
    MaxTimeouts = 2
    MaxDrops = 0
    MaxCrashes = 1
    MaxRestarts = 0
    MaxPortalRestarts = 0
    MaxRevokes = 0
    MaxCancels = 0
    MaxRowMoves = 0
    Budget <- MCBudget
PROPERTIES TasksEnd TasksLeaveDeadWorkers
CHECK_DEADLOCK FALSE
