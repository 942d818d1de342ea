SPECIFICATION Spec
CONSTANTS
    Users = {u1, u2}
    Apps = {a1}
    None = None
    MaxQueue = 2
    MaxConcurrent = 1
    Sizes = {2}
    Fragile = {a1}
    UserAppLimit = 1
    MaxCancels = 1
    MaxFaults = 1
    MaxPoolEdits = 1
    MaxAccessEdits = 0
    SmallMembers = {}
    Budget <- MCBudget
    MemberMax <- MCMemberMax
SYMMETRY Symmetry
INVARIANTS OneLiveRowPerUser UserAppWithinLimit SlotsWithinCap
PROPERTIES NoOvertaking ImplementsSlotPool
