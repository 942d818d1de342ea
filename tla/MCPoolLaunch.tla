----------------------------- MODULE MCPoolLaunch -----------------------------
(* Small instances of PoolLaunch for TLC. *)
EXTENDS PoolLaunch, TLC

CONSTANTS
    MaxCancels, MaxFaults, MaxPoolEdits, MaxAccessEdits,  \* the bounds in Budget
    SmallMembers    \* members whose member_max_concurrent is 1, not 2

MCBudget ==
    ("cancel" :> MaxCancels) @@ ("fault" :> MaxFaults)
        @@ ("pool" :> MaxPoolEdits) @@ ("access" :> MaxAccessEdits)

MCMemberMax == [a \in Apps |-> IF a \in SmallMembers THEN 1 ELSE 2]

UserSymmetry == Permutations(Users)
Symmetry == UserSymmetry \cup Permutations(Apps)

\* What fails is looked at where there is one row: a cleanup visits each by itself.
FaultsWithOneRow ==
    budget["fault"] = MaxFaults \/ Cardinality({q \in QIds : status[q] # "absent"}) <= 1
=============================================================================
