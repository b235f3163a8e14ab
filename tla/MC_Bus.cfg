SPECIFICATION Spec
CONSTANTS
    AddrSpace = 48
    PageSize = 4
    STACK_SIZE = 8
    Fixed <- MC_Fixed
    Addresses <- MC_Addresses
    Lengths <- MC_Lengths
    AccessSizes = {1, 2, 4}
    Ncpus = {0, 1, 2, 3}
    MAX_CONTEXTS = 4
INVARIANTS
    DisjointIsAccepted
    DispatchAgreesWithRangeManager
    AlignedAccessIsServed
    HartsHaveContexts
CHECK_DEADLOCK FALSE
