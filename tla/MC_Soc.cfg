SPECIFICATION Spec
CONSTANTS
    AddrSpace = 124
    TimeSpace = 48
    MAX_IRQ = 3
    MAX_CONTEXTS = 4
    Loads <- MC_Loads
    UART_POLL_INTERVAL = 3
    BUF = 1
    W = 32
    Interval = 24
INVARIANTS
    ConsoleIsFifo
    InputIsConserved
    ClaimFindsWork
PROPERTIES
    EveryByteArrives
    EveryRequestWakes
    TimerKeepsFiring
    TickReachesSupervisor
    SchedulerKeepsRunning
