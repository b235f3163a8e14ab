SPECIFICATION Spec
CONSTANTS
    TimeSpace = 4
    MAX_IRQ = 3
    MAX_CONTEXTS = 2
    W = 2
    NHART = 2
    Offsets <- MC_Offsets
    Values <- MC_Values
    AddrBits = {{}, {1}, {0, 1, 2, 3}}
    MaxBytes = 2
INVARIANTS
    ClaimIsBest
    RegistersAreCells
    InputSurvivesTraffic
    RingAddressIsAssembled
CHECK_DEADLOCK FALSE
