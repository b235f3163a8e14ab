SPECIFICATION NestSpec
CONSTANTS
    AddrSpace = 12
    MIDELEG <- MC_MIDELEG
    MEDELEG <- MC_MEDELEG
    MTVEC = 8
    STVEC = 5
    CsrInstrs <- MC_CsrInstrs
    Targets <- MC_Targets
INVARIANTS
    FramesHeld
PROPERTIES
    NoFrameOverwritten
    ReturnResumesInterrupted
