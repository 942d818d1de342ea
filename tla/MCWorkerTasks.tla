---------------------------- MODULE MCWorkerTasks -----------------------------
(* Small instances of WorkerTasks for TLC. *)
EXTENDS WorkerTasks, TLC

CONSTANTS    \* the bounds in Budget
    MaxLapses, MaxTimeouts, MaxDrops, MaxCrashes, MaxRestarts, MaxPortalRestarts,
    MaxRevokes, MaxCancels, MaxRowMoves

MCBudget ==
    ("lapse" :> MaxLapses) @@ ("timeout" :> MaxTimeouts) @@ ("drop" :> MaxDrops)
        @@ ("crash" :> MaxCrashes) @@ ("restart" :> MaxRestarts)
        @@ ("portal" :> MaxPortalRestarts) @@ ("revoke" :> MaxRevokes)
        @@ ("cancel" :> MaxCancels) @@ ("row" :> MaxRowMoves)

Everywhere == [w \in Workers |-> Tasks]

\* One node has all the software, the others that of the first task.
OneNodeHasAll ==
    LET best == CHOOSE w \in Workers : TRUE
    IN  [w \in Workers |-> IF w = best THEN Tasks ELSE {1}]

Symmetry == Permutations(Workers)
=============================================================================
