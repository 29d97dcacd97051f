CONSTANTS
    Days = 3
    Hours = 2
    Mins = 3
    Secs = 2
    Times <- ManyTimes
    Notwhens <- SomeNotwhens
    Tries = 10
    MaxWait = 38
SPECIFICATION Spec
INVARIANTS TypeOK FindsFirstFiring DueFromFiringOn
CHECK_DEADLOCK FALSE
