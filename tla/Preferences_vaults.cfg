SPECIFICATION Spec
CONSTANTS
    a = a
    b = b
    NoVault = NoVault
    Vaults = {a, b}
    Keys <- MCKeys
    Schema <- MCSchema
    Builtin <- MCBuiltin
    Spin <- MCSpin
    Valid <- MCValid
    Raw <- MCRaw
    Policies = {1, 2}
    NoPolicy = 0
    FirstPolicy = 1
    Corrections = {0, 1}
    MaxEdits = 3
INVARIANTS
    PreferencesBelongToVault
    BackupsFollowVault
