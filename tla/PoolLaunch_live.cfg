SPECIFICATION FairSpec
CONSTANTS
    Users = {u1, u2}
    Apps = {a1}
    None = None
    MaxQueue = 2
    MaxConcurrent = 1
    Sizes = {1}
    Fragile = {a1}
    UserAppLimit = 0
    MaxCancels = 0
    MaxFaults = 0
    MaxPoolEdits = 0
    MaxAccessEdits = 0
    SmallMembers = {}
    Budget <- MCBudget
    MemberMax <- MCMemberMax
PROPERTIES ReclaimedSessionsEnd ReadyRowsMove LaunchesSettle NoLostWakeup IdlePoolReopens
