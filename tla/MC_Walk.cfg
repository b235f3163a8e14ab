SPECIFICATION WalkSpec
CONSTANTS
    Fan = 2
    TablePages = {0, 1, 2}
    PPN = {0, 1, 2, 3, 4, 5, 6, 7}
    Root = 0
    Entries <- MC_Entries
    PTEs <- MC_PTEs
INVARIANTS
    WalkFollowsTheRules
PROPERTY StoreIsLocal
