CONSTANTS
    Ops = {"move"}
    ConflictsOf <- MoveOnly
    Delayed = {"move"}
    Adders = {a1, a2}
    Procs = {p1, p2}
    NoOp = NoOp
    Inodes = {1, 2, 3}
    MaxRequests = 2
    MaxPerPass = 1
    MaxFaults = 2
    MaxOps = 1
SPECIFICATION FairSpec
INVARIANTS TypeOK EachAccountedFor ConflictsOnlyRaced ExclusiveUnlessTorn LockInv RepeatsBounded
PROPERTIES EventuallySettled ImplementsLedger
CHECK_DEADLOCK FALSE
