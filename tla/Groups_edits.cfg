SPECIFICATION Spec
CONSTANTS
    g1 = g1
    g2 = g2
    g3 = g3
    work = work
    favorites = favorites
    NoGroup = NoGroup
    GroupIds = {g1, g2, g3}
    Names = {work, favorites}
    Favorites = favorites
    MaxOrder = 0
    MaxAccounts = 2
    MaxGroups = 2
SYMMETRY Symmetry
INVARIANTS
    GroupsAreDistinct
PROPERTIES
    OnlyUndoDangles
    AllOrNothing
