SPECIFICATION Spec
CONSTANTS
    v1 = v1
    t1 = t1
    NoVault = NoVault
    NewText = NewText
    Refused = Refused
    Vaults = {v1}
    FirstAccounts <- None
    Texts = {t1}
    Limits = {2}
    MaxClock = 1
    MaxAccounts = 2
INVARIANTS
    
    HistoryApplies
PROPERTIES
    PendingEditsStay
    UndoKeepsRemoved
