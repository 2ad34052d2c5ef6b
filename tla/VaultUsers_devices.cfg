SPECIFICATION Spec
CONSTANTS
    u1 = u1
    u2 = u2
    p1 = p1
    p2 = p2
    p3 = p3
    d1 = d1
    NoUser = NoUser
    NoDevice = NoDevice
    NoKek = NoKek
    Free = Free
    NoVault = NoVault
    NoSession = NoSession
    Users = {u1, u2}
    Passwords = {p1}
    Devices = {d1}
    PwLen <- Lengths
    Policies <- DevicePolicies
    CreationPolicies <- FirstPolicies
    PolicyMoves <- DeviceMoves
    MaxSlots = 2
    PinWithAdd = {FALSE}
SYMMETRY Symmetry
INVARIANTS
    NoHiddenFactor
    EnrolledNeedsDevice
    LookupFindsUsers
    
    ReauthAgreesWithLogin
PROPERTIES
    OnlyOwnerMigrates
CHECK_DEADLOCK FALSE
