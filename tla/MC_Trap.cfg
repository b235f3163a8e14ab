SPECIFICATION Spec
CONSTANTS
    AddrSpace = 4
    Targets <- MC_Targets
    CsrInstrs <- MC_CsrInstrs
INVARIANTS
    TypeOK
    MachineInterruptsStayInM
    TakesHighestDeliverable
    NothingDeliverableIsSkipped
PROPERTIES
    PrivilegeDropsOnlyByReturn
    MachineTrapSparesSupervisor
CHECK_DEADLOCK FALSE
