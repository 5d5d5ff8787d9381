SPECIFICATION Spec
CONSTANTS
    Kinds = {k1, k2}
    Versions = {v1, v2}
    Supported = {v1}
    MaxChanges = 2
CHECK_DEADLOCK FALSE
INVARIANTS
    HandlersRun
