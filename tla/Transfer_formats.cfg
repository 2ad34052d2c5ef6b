SPECIFICATION TransferSpec
CONSTANTS
    Chars <- MCChars
    NoFile = NoFile
    MaxImported = 2
    VaultContents <- MCContents
    Later <- MCLater
    Cut <- MCCut
INVARIANTS
    CarriedSurvive
    OneRecordPerAccount
