SPECIFICATION FairSpec
CONSTANTS
    Descendant = {d1, d2}
    MaxOutputBytes = 1
    OutputBound = 2
INVARIANTS
    TypeOK
    GroupGone
    ExitIsTheChilds
    OutputWhole
PROPERTY
    EveryRunEnds
CHECK_DEADLOCK FALSE
