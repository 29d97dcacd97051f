CONSTANTS
    w1 = w1
    w2 = w2
    Events = {e1}
    NoEvent = NoEvent
    Workers = {w1, w2}
    Queues <- OneQueue
    Main = "main"
    FanOut <- NoFanOut
    Producers = 2
    Capacity <- Cap1
    QueueOf <- AllOnMain
    Handlers <- AllImplemented
    FailLimit = 2
    IncludeTaken = TRUE
    UnlockEvents = FALSE
    MaxStarts = 1
    MaxOps = 0
    MaxFaults = 1
    MaxStray = 1
SPECIFICATION FairSpec
PROPERTIES EventuallySettled
CHECK_DEADLOCK FALSE
