CONSTANTS
    w1 = w1
    w2 = w2
    Events = {e1}
    NoEvent = NoEvent
    Workers = {w1, w2}
    Queues <- OneQueue
    Main = "main"
    FanOut <- NoFanOut
    Producers = 2
    Capacity <- Cap1
    QueueOf <- AllOnMain
    Handlers <- AllImplemented
    FailLimit = 1
    IncludeTaken = TRUE
    UnlockEvents = TRUE
    MaxStarts = 2
    MaxOps = 1
    MaxFaults = 1
    MaxStray = 1
SPECIFICATION Spec
SYMMETRY Symmetry
INVARIANTS TypeOK LockInv ExclusiveHandling AtMostOncePerUnlock NoLostEvent
PROPERTIES ExhaustedStaysExhausted StuckStaysStuck ImplementsLedger
CHECK_DEADLOCK FALSE
