SPECIFICATION ListSpec
CONSTANTS
    Ids = {a1, a2}
    n1 = n1
    n2 = n2
    AccountNames = {n1, n2}
    Tags = {n1}
    Fields = {"all"}
    NoText = NoText
    Contents <- MCContents
    MaxListed = 2
SYMMETRY MCSymmetry
INVARIANTS
    RowsAreOfTheVault
    EverythingIsListed
