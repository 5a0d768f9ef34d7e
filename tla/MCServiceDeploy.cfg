SPECIFICATION Spec
CONSTANTS
    d1 = d1  d2 = d2
    Run = {r1, r2}
    Dir = {d1, d2}
    MaxStamp = 2
    Old = Old
    Nothing = Nothing
    Fault = {"mkdir", "mv", "cp", "rm", "stop", "start", "status", "migrate",
             "die", "crash"}
CONSTRAINT Bounded
SYMMETRY Symmetry
INVARIANTS NothingLost FoundKept SuccessMeansNew FailureRestores
CHECK_DEADLOCK FALSE
