CONSTANTS
    Keys = {k1}
    Subs = {"", "nbf"}
    Regular = ""
    Consumers = {c1}
    NoMessage = NoMessage
    Deliveries <- NowAndDelayed
    MaxAttempts = 2
    DataInPayload = FALSE
    NextTasks = TRUE
    MaxChanges = 2
    MaxOps = 0
    MaxFaults = 1
SPECIFICATION FairSpec
PROPERTIES EventuallyImported
CHECK_DEADLOCK FALSE
