SPECIFICATION MemSpec
CONSTANTS
    AddrSpace = 16
    PageSize = 4
    STACK_SIZE = 4
    BYTE = 4
    Program <- MC_Program
    Address = 4
    Sizes = {1, 2, 4}
    Maps <- MC_Maps
    Values <- MC_Values
INVARIANTS
    AccessesAreBytewise
    FetchIsExact
