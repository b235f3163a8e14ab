SPECIFICATION Spec
CONSTANTS
    W = 32
    IDX = 4
    NUM = 2
    Heads = {0, 1}
    Queues = {0}
    Sectors = {0, 1}
    DiskSize = 1
    Values = {0, 1, 2}
    Requests <- MC_Requests
    Start = 2
    MaxRequests = 3
    MaxResets = 1
INVARIANTS
    HeadsAreConserved
    NoLostCompletion
PROPERTIES
    EveryRequestReturns
    ImplementsDisk
CHECK_DEADLOCK FALSE
