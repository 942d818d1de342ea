CONSTANTS
    Users = {u1}
    Apps = {a1}
    Profiles = {p1}
    Requests = {r1, r2}
    Groups = {g1}
    None = None
    Blank = Blank
    Malformed = Malformed
    Controls <- MCControls
    CopyControl = "copy"
    Needs <- MCNeeds
    Canon <- MCCanon
    MaxBindings = 2
    NewApps <- MCNewApps
    AppEdits <- MCAppEdits
    NewProfiles <- MCNewProfiles
    ProfileEdits <- MCProfileEdits
SPECIFICATION AccessSpec
INVARIANTS ActiveProfilesValid LaunchesStayRestricted ScriptSwitchMatchesBindings
SYMMETRY RequestSymmetry
