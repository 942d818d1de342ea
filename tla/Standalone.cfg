CONSTANTS
    Users = {u1, u2}
    Launches = {l1, l2, l3}
    MaxConcurrent = 2
    UserLimit = 2
    Base = 2
    MaxCooldown = 3
    MaxFailures = 2
    Life = 2
    MaxAttempts = 1
    None = None
SPECIFICATION FairSpec
INVARIANTS WithinMaxConcurrent
PROPERTIES LaunchesFollowAccounts CooldownLasts ReachableAgain
