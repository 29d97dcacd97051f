SPECIFICATION FairSpec
CONSTANTS
    daily = daily
    gen = gen
    exp = exp
    svc = svc
    Jobs = {gen, exp, daily}
    Kind <- ChainKind
    Pre <- ChainPre
    Post <- NoJobs
    Timed = {}
    Repeated = {daily}
    MultiOk = {}
    Limited = {}
    Nonconcurrent <- AllConcurrent
    Root = {}
    Configs <- ChainConfigs
    MaxParallel = 1
    ShortDelta = TRUE
    Procs = {p1, p2}
    MaxEvents = 1
CHECK_DEADLOCK FALSE
INVARIANTS KeepsMaxParallel
PROPERTIES EventuallyRun
