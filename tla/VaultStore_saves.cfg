SPECIFICATION Spec
CONSTANTS
    d1 = d1
    d2 = d2
    Empty = Empty
    Torn = Torn
    NoFile = NoFile
    NoVault = NoVault
    Data = {d1, d2}
    InitialImages <- AnyImage
    MaxBackups = 2
    MaxBackupFiles = 3
    PowerFails = TRUE
    ClockRepeats = FALSE
SYMMETRY Symmetry
INVARIANTS
    CleanMeansStored
PROPERTIES
    PreviousKept
    SavesAtomically
