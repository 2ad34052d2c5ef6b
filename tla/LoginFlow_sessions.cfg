SPECIFICATION Spec
CONSTANTS
    p1 = p1
    p2 = p2
    u1 = u1
    u2 = u2
    NoVault = NoVault
    Users = {u1}
    Paths = {p1, p2}
INVARIANTS
    WindowShowsVault
    CarefulChangeFirst
PROPERTIES
    UnattendedIsLocked
    SecretsAreCleared
CHECK_DEADLOCK FALSE
