SPECIFICATION FairSpec
CONSTANTS
    Kinds = {k1, k2}
    Versions = {v1, v2}
    Supported = {v1}
    MaxChanges = 3
CHECK_DEADLOCK FALSE
INVARIANTS
    TypeOK
    RunsOnce
PROPERTIES
    LateHandlersRun
