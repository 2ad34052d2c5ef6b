SPECIFICATION FileSpec
CONSTANTS
    Users = {1, 2}
    Argon2Users = {2}
    MaxHistory = 1
    Percents = {5, 50}
    OffBy <- Bits
    DamagedPercents = {0, 4, 51}
    Hits = {16, 17}
    Lengths <- Cuts
    MaxDamages = 1
    NoHeader = NoHeader
    NoBytes = NoBytes
INVARIANTS
    OnlyTheLastSlotSuffers
PROPERTIES
    UsersStayInTheFile
