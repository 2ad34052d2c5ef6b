SPECIFICATION SaveSpec
CONSTANTS
    f1 = f1
    f2 = f2
    a1 = a1
    p1 = p1
    p2 = p2
    NoFile = NoFile
    NoAccount = NoAccount
    NoPassword = NoPassword
    TooLong = TooLong
    VaultFiles = {f1, f2}
    Accounts = {a1}
    Passwords = {p1, p2}
    Limits = {1, 2}
SYMMETRY Symmetry
INVARIANTS
    NoPasswordReused
    UnmodifiedShowsSaved
PROPERTIES
    GuardedStays
