SPECIFICATION Spec
CONSTANTS
    Run = {r1, r2}
    NumParts = 2
    MaxStamp = 2
    Old = Old
    Mixed = Mixed
    Fault = {}
SYMMETRY Symmetry
INVARIANT
    OneVersionServed
CHECK_DEADLOCK FALSE
