CONSTANTS
    Writers = {w1, w2}
    Changes = {c1, c2, c3}
    Watched = {c1, c2, c3}
    MaxId = 4
    MaxFaults = 1
    MaxOps = 1
SPECIFICATION Spec
INVARIANTS NoEventSkipped
CHECK_DEADLOCK FALSE
