SPECIFICATION Spec
CONSTANTS
    Run = {r1, r2}
    NumParts = 3
    MaxStamp = 2
    Old = Old
    Mixed = Mixed
    Fault = {"mkdir", "mv", "cp", "rm", "crash"}
SYMMETRY Symmetry
INVARIANTS
    TypeOK
    OldVersionKept
    SuccessMeansNew
    FailureRestores
CHECK_DEADLOCK FALSE
