CONSTANTS
    Keys = {k1}
    Subs = {""}
    Regular = ""
    Consumers = {c1, c2}
    NoMessage = NoMessage
    Deliveries <- NowOrLater
    MaxAttempts = 2
    DataInPayload = FALSE
    NextTasks = TRUE
    MaxChanges = 2
    MaxOps = 1
    MaxFaults = 1
SPECIFICATION Spec
SYMMETRY Symmetry
INVARIANTS TypeOK ImportInv NoLostChange
PROPERTIES GivenUpForGood ImplementsLedger
CHECK_DEADLOCK FALSE
