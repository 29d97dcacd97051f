CONSTANTS
    w1 = w1
    w2 = w2
    Events = {e1}
    NoEvent = NoEvent
    Workers = {w1, w2}
    Queues <- TwoQueues
    Main = "main"
    FanOut <- GroupFanOut
    Producers = 2
    Capacity <- Cap2
    QueueOf <- W1OnMain
    Handlers <- OnlyGroup
    FailLimit = 2
    IncludeTaken = TRUE
    UnlockEvents = FALSE
    MaxStarts = 1
    MaxOps = 0
    MaxFaults = 0
    MaxStray = 1
SPECIFICATION HistorySpec
INVARIANT TriedBeforeGivenUp
CHECK_DEADLOCK FALSE
