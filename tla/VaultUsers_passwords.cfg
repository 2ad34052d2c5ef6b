SPECIFICATION Spec
CONSTANTS
    u1 = u1
    u2 = u2
    p1 = p1
    p2 = p2
    p3 = p3
    d1 = d1
    NoUser = NoUser
    NoDevice = NoDevice
    NoKek = NoKek
    Free = Free
    NoVault = NoVault
    NoSession = NoSession
    Users = {u1, u2}
    Passwords = {p1, p2, p3}
    Devices = {}
    PwLen <- Lengths
    Policies <- HistoryPolicies
    CreationPolicies <- HistoryPolicies
    PolicyMoves <- HistoryMoves
    MaxSlots = 3
    PinWithAdd = {FALSE}
SYMMETRY Symmetry
INVARIANTS
    AdminRemains
    SessionBacked
    CleanMeansSaved
    EveryUserCanLogIn
    HistoryEndsWithCurrent
PROPERTIES
    StandardUsersTouchOnlyThemselves
