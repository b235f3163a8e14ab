SPECIFICATION Spec
CONSTANTS
    Fan = 2
    TablePages = {0, 1, 2}
    PPN = {0, 1, 2, 3, 4, 5, 6, 7, 8}
    Harts = {0, 1}
    VPNs <- MC_VPNs
    Satps <- MC_Satps
    PteStores <- MC_PteStores
    InitMem <- MC_InitMem
    TLB_ENTRIES = 2
INVARIANTS
    TlbEntriesAreRecentWalks
PROPERTIES
    ImplementsMmuAbs
    ExactAfterFlush
CHECK_DEADLOCK FALSE
