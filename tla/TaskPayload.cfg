CONSTANTS
    Keys = {k1}
    Subs = {"", "manual"}
    Regular = ""
    Consumers = {c1}
    NoMessage = NoMessage
    Deliveries <- NowOnly
    MaxAttempts = 2
    DataInPayload = TRUE
    NextTasks = FALSE
    MaxChanges = 2
    MaxOps = 0
    MaxFaults = 0
SPECIFICATION Spec
INVARIANT NoLostChange
CHECK_DEADLOCK FALSE
