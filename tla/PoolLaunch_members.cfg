SPECIFICATION Spec
CONSTANTS
    Users = {u1}
    Apps = {a1, a2}
    None = None
    MaxQueue = 2
    MaxConcurrent = 2
    Sizes = {2}
    Fragile = {}
    UserAppLimit = 0
    MaxCancels = 0
    MaxFaults = 1
    MaxPoolEdits = 0
    MaxAccessEdits = 1
    SmallMembers = {a1, a2}
    Budget <- MCBudget
    MemberMax <- MCMemberMax
SYMMETRY Symmetry
CONSTRAINT FaultsWithOneRow
INVARIANTS MemberWithinCap LiveRowsAllowedOrSwept
PROPERTIES LaunchStartsAllowed
