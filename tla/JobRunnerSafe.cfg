SPECIFICATION Spec
CONSTANTS
    daily = daily
    gen = gen
    exp = exp
    svc = svc
    Jobs = {gen, svc}
    Kind <- ServiceKind
    Pre <- NoJobs
    Post <- ServicePost
    Timed = {}
    Repeated = {gen}
    MultiOk = {}
    Limited = {}
    Nonconcurrent <- ServiceOrGenerator
    Root = {svc}
    Configs <- ServiceConfigs
    MaxParallel = 1
    ShortDelta = FALSE
    Procs = {p1, p2}
    MaxEvents = 2
CHECK_DEADLOCK FALSE
SYMMETRY Symmetry
INVARIANTS TypeOK NotTwice NoGhost NoConflict OwedInv
PROPERTIES PrerequisitesDone
